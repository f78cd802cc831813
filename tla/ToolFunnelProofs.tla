-------------------------- MODULE ToolFunnelProofs --------------------------
(***************************************************************************)
(* Proofs about the tool funnel, for any number of calls and of lost       *)
(* connections.                                                            *)
(***************************************************************************)
EXTENDS ToolFunnel, TLAPS

-----------------------------------------------------------------------------
(* Types *)

\* A mutex that is released is handed to a call or to nobody.
LEMMA ReleaseType ==
    ASSUME TypeOK, NEW l \in Lanes, release(l)
    PROVE  /\ holder' \in [Lanes -> Calls \cup {None}]
           /\ queue' \in [Lanes -> Seq(Calls)]
<1> USE DEF TypeOK
<1>1. CASE queue[l] = <<>>
  BY <1>1 DEF release
<1>2. CASE queue[l] # <<>>
  <2>1. Head(queue[l]) \in Calls /\ Tail(queue[l]) \in Seq(Calls)
    BY <1>2
  <2>2. /\ holder' = [holder EXCEPT ![l] = Head(queue[l])]
        /\ queue' = [queue EXCEPT ![l] = Tail(queue[l])]
    BY <1>2 DEF release
  <2>3. QED
    BY <2>1, <2>2
<1>3. QED
  BY <1>1, <1>2

\* Moving calls on leaves every call at a place.
LEMMA MovedType ==
    ASSUME TypeOK, NEW c \in Calls, NEW p \in Place
    PROVE  Moved(c, p) \in [Calls -> Place]
  BY DEF TypeOK, Moved, Place, Inside

\* Every variable keeps its type (the module state of ToolHandler.ts, pacing.ts
\* and getContext).
THEOREM TypeCorrect == Spec => []TypeOK
<1>1. ASSUME Init PROVE TypeOK
  <2>1. /\ at \in [Calls -> Place] /\ lane \in [Calls -> Lanes]
        /\ holder \in [Lanes -> Calls \cup {None}]
        /\ pace \in Pace /\ saved \in [Calls -> Pace]
    BY <1>1 DEF Init, Place, Lanes, Pace
  <2>2. queue \in [Lanes -> Seq(Calls)]
    BY <1>1 DEF Init
  <2>3. drops \in 0..MaxDrops
    BY <1>1, DropsAreBounded DEF Init
  <2>4. /\ got \in [Calls -> Calls \cup {None}] /\ using \in [Calls -> Calls \cup {None}]
        /\ kind \in [Calls -> Kind] /\ full \in [Calls -> BOOLEAN]
    BY <1>1 DEF Init
  <2>5. /\ recent \in BOOLEAN /\ older \subseteq Calls /\ browser \in Calls \cup {None}
        /\ up \subseteq Calls /\ context \in Calls \cup {None} /\ disposed \subseteq Calls
        /\ beside \subseteq Calls
    BY <1>1 DEF Init
  <2>6. QED
    BY <2>1, <2>2, <2>3, <2>4, <2>5 DEF TypeOK
<1>2. TypeOK /\ [Next]_vars => TypeOK'
  <2>0. SUFFICES ASSUME TypeOK, [Next]_vars
                 PROVE  TypeOK'
    OBVIOUS
  <2> USE <2>0, DropsAreBounded DEF TypeOK, funnelVars, paceVars, browserVars
  <2>1. ASSUME NEW c \in Calls, Refuse(c) PROVE TypeOK'
    BY <2>1 DEF Refuse, Place
  <2>2. ASSUME NEW c \in Calls, Arrive(c) PROVE TypeOK'
    <3>1. PICK l \in Lanes : lane' = [lane EXCEPT ![c] = l] /\ acquire(c, l)
      BY <2>2 DEF Arrive, dialogLatchMutex, Lanes
    <3>2. Append(queue[l], c) \in Seq(Calls)
      OBVIOUS
    <3>3. /\ holder' \in [Lanes -> Calls \cup {None}] /\ queue' \in [Lanes -> Seq(Calls)]
          /\ at' \in [Calls -> Place] /\ lane' \in [Calls -> Lanes]
      <4>1. CASE holder[l] = None
        <5>1. /\ holder' = [holder EXCEPT ![l] = c]
              /\ at' = [at EXCEPT ![c] = "granted"] /\ queue' = queue
          BY <3>1, <4>1 DEF acquire
        <5>2. at' \in [Calls -> Place] /\ lane' \in [Calls -> Lanes]
          BY <3>1, <5>1 DEF Place
        <5>3. QED
          BY <5>1, <5>2
      <4>2. CASE holder[l] # None
        <5>1. /\ queue' = [queue EXCEPT ![l] = Append(queue[l], c)]
              /\ at' = [at EXCEPT ![c] = "queued"] /\ holder' = holder
          BY <3>1, <4>2 DEF acquire
        <5>2. queue' \in [Lanes -> Seq(Calls)]
          BY <3>2, <5>1
        <5>3. at' \in [Calls -> Place] /\ lane' \in [Calls -> Lanes]
          BY <3>1, <5>1 DEF Place
        <5>4. QED
          BY <5>1, <5>2, <5>3
      <4>3. QED
        BY <4>1, <4>2
    <3>4. QED
      BY <2>2, <3>3 DEF Arrive
  <2>3. ASSUME NEW c \in Calls, Expire(c) PROVE TypeOK'
    BY <2>3 DEF Expire, Place
  <2>4. ASSUME NEW c \in Calls, LateGuard(c) PROVE TypeOK'
    BY <2>4, ReleaseType, MovedType DEF LateGuard, Place
  <2>5. ASSUME NEW c \in Calls, Start(c) PROVE TypeOK'
    BY <2>5 DEF Start, selectPace, PaceOf, Pace, Place, Inside
  <2>6. ASSUME NEW c \in Calls, holdNavigationGap(c) PROVE TypeOK'
    BY <2>6 DEF holdNavigationGap, Place, Inside
  <2>7. ASSUME NEW c \in Calls, ensureBrowserConnected(c) PROVE TypeOK'
    <3>1. at' \in [Calls -> Place]
      <4>1. PICK p \in {"check", "connect"} : at' = [at EXCEPT ![c] = p]
        BY <2>7 DEF ensureBrowserConnected
      <4>2. QED
        BY <4>1 DEF Place, Inside
    <3>2. got' \in [Calls -> Calls \cup {None}]
      <4>1. got' = [got EXCEPT ![c] = browser] \/ got' = got
        BY <2>7 DEF ensureBrowserConnected
      <4>2. QED
        BY <4>1
    <3>3. QED
      BY <2>7, <3>1, <3>2 DEF ensureBrowserConnected
  <2>8. ASSUME NEW c \in Calls, Connected(c) PROVE TypeOK'
    BY <2>8 DEF Connected, Place, Inside
  <2>9. ASSUME NEW c \in Calls, CheckContext(c) PROVE TypeOK'
    <3>1. disposed' \subseteq Calls
      BY <2>9 DEF CheckContext
    <3>2. at' \in [Calls -> Place]
      <4>1. PICK p \in {"work", "build"} : at' = [at EXCEPT ![c] = p]
        BY <2>9 DEF CheckContext
      <4>2. QED
        BY <4>1 DEF Place, Inside
    <3>3. using' \in [Calls -> Calls \cup {None}]
      <4>1. using' = [using EXCEPT ![c] = context] \/ using' = using
        BY <2>9 DEF CheckContext
      <4>2. QED
        BY <4>1
    <3>4. QED
      BY <2>9, <3>1, <3>2, <3>3 DEF CheckContext
  <2>10. ASSUME NEW c \in Calls, Built(c) PROVE TypeOK'
    BY <2>10 DEF Built, Place, Inside
  <2>11. ASSUME NEW c \in Calls, ReturnContext(c) PROVE TypeOK'
    BY <2>11 DEF ReturnContext, Place, Inside
  <2>12. ASSUME NEW c \in Calls, NEW navigated \in BOOLEAN, Finish(c, navigated)
         PROVE  TypeOK'
    BY <2>12, ReleaseType, MovedType DEF Finish, Place
  <2>13. ASSUME NEW c \in Calls, Done(c) \/ Fail(c) PROVE TypeOK'
    BY <2>12, <2>13 DEF Done, Fail
  <2>14. CASE GapPasses
    BY <2>14 DEF GapPasses
  <2>15. CASE LinkDrops
    BY <2>15 DEF LinkDrops
  <2>16. CASE AllDone \/ UNCHANGED vars
    BY <2>16 DEF AllDone, vars
  <2>17. QED
    BY <2>1, <2>2, <2>3, <2>4, <2>5, <2>6, <2>7, <2>8, <2>9, <2>10, <2>11, <2>13, <2>14,
       <2>15, <2>16 DEF Next, Move
<1>3. QED
  BY <1>1, <1>2, PTL DEF Spec

-----------------------------------------------------------------------------
(* One tool at a time *)

\* Who holds a mutex, or waits for it, came for this one.
QueuesKnown ==
    \A l \in Lanes :
        /\ holder[l] # None => lane[holder[l]] = l /\ at[holder[l]] # "idle"
        /\ \A i \in 1..Len(queue[l]) : lane[queue[l][i]] = l /\ at[queue[l][i]] # "idle"

\* Whoever has been let through a mutex holds it.
InsideHolds ==
    \A c \in Calls : at[c] = "granted" \/ Within(c) => holder[lane[c]] = c

\* A release hands over its own mutex only, and to the first in line.
LEMMA ReleaseHands ==
    ASSUME TypeOK, QueuesKnown, NEW l \in Lanes, release(l)
    PROVE  /\ \A k \in Lanes : k # l => holder'[k] = holder[k]
           /\ \A k \in Lanes : holder'[k] # None =>
                                 lane[holder'[k]] = k /\ at[holder'[k]] # "idle"
           /\ \A k \in Lanes : \A i \in 1..Len(queue'[k]) :
                                 lane[queue'[k][i]] = k /\ at[queue'[k][i]] # "idle"
<1> USE DEF QueuesKnown
<1>0. holder \in [Lanes -> Calls \cup {None}] /\ queue \in [Lanes -> Seq(Calls)]
  BY DEF TypeOK
<1>1. CASE queue[l] = <<>>
  <2>1. holder' = [holder EXCEPT ![l] = None] /\ queue' = queue
    BY <1>1 DEF release
  <2>2. \A k \in Lanes : holder'[k] = IF k = l THEN None ELSE holder[k]
    BY <1>0, <2>1
  <2>3. QED
    BY <2>1, <2>2
<1>2. CASE queue[l] # <<>>
  <2>1. /\ queue[l] \in Seq(Calls) /\ Len(queue[l]) > 0 /\ Head(queue[l]) = queue[l][1]
        /\ holder' = [holder EXCEPT ![l] = Head(queue[l])]
        /\ queue' = [queue EXCEPT ![l] = Tail(queue[l])]
    BY <1>0, <1>2 DEF release
  <2>2. \A i \in 1..Len(Tail(queue[l])) :
            Tail(queue[l])[i] = queue[l][i + 1] /\ i + 1 \in 1..Len(queue[l])
    BY <2>1
  <2>3. /\ \A k \in Lanes : holder'[k] = IF k = l THEN queue[l][1] ELSE holder[k]
        /\ \A k \in Lanes : queue'[k] = IF k = l THEN Tail(queue[l]) ELSE queue[k]
    BY <1>0, <2>1
  <2>4. QED
    BY <2>1, <2>2, <2>3
<1>3. QED
  BY <1>1, <1>2

\* The end of a call, with or without its turn, leaves the mutexes in order.
LEMMA HandOver ==
    ASSUME TypeOK, QueuesKnown, InsideHolds,
           NEW c \in Calls, NEW p \in {"done", "gaveUp"},
           holder[lane[c]] = c, at[c] # "idle",
           release(lane[c]), at' = Moved(c, p), lane' = lane
    PROVE  QueuesKnown' /\ InsideHolds'
<1>1. lane[c] \in Lanes
  BY DEF TypeOK
<1>2. QueuesKnown'
  <2>1. \A d \in Calls : at[d] # "idle" => at'[d] # "idle"
    BY DEF Moved, TypeOK
  <2>2. /\ holder' \in [Lanes -> Calls \cup {None}]
        /\ queue' \in [Lanes -> Seq(Calls)]
    BY <1>1, ReleaseType
  <2>3. \A k \in Lanes : \A i \in 1..Len(queue'[k]) : queue'[k][i] \in Calls
    BY <2>2
  <2>4. QED
    BY <1>1, <2>1, <2>2, <2>3, ReleaseHands DEF QueuesKnown
<1>3. ASSUME NEW d \in Calls, (at[d] = "granted" \/ Within(d))'
      PROVE  holder'[lane[d]] = d
  <2>1. d # c
    BY <1>3 DEF Moved, Within, Inside
  <2>2. CASE at[d] = "granted" \/ Within(d)
    <3>1. holder[lane[d]] = d /\ lane[d] \in Lanes
      BY <2>2 DEF InsideHolds, TypeOK
    <3>2. lane[d] # lane[c]
      BY <2>1, <3>1
    <3>3. QED
      BY <1>1, <3>1, <3>2, ReleaseHands
  <2>3. CASE at[d] = "queued" /\ at'[d] = "granted"
    <3>1. PICK k \in Lanes : holder'[k] = d
      BY <2>1, <2>3 DEF Moved
    <3>2. lane[d] = k
      BY <1>1, <3>1, NoneIsNoCall, ReleaseHands
    <3>3. QED
      BY <3>1, <3>2
  <2>4. QED
    BY <1>3, <2>1, <2>2, <2>3 DEF Moved, Within, Inside
<1>4. QED
  BY <1>2, <1>3 DEF InsideHolds

\* A move within the funnel is one of a call that holds its mutex already.
LEMMA MoveInside ==
    ASSUME QueuesKnown, InsideHolds, TypeOK, UNCHANGED <<lane, holder, queue>>,
           NEW c \in Calls, NEW p \in Place \ {"idle"}, at' = [at EXCEPT ![c] = p],
           p \in Inside => at[c] = "granted" \/ Within(c), p # "granted"
    PROVE  QueuesKnown' /\ InsideHolds'
  BY DEF QueuesKnown, InsideHolds, TypeOK, Within

LEMMA InsideHoldsStep ==
    ASSUME TypeOK, QueuesKnown, InsideHolds, [Next]_vars
    PROVE  QueuesKnown' /\ InsideHolds'
<1>1. ASSUME NEW c \in Calls, Arrive(c) PROVE QueuesKnown' /\ InsideHolds'
  <2> DEFINE l == dialogLatchMutex(c)
  <2>1. l \in Lanes /\ lane' = [lane EXCEPT ![c] = l] /\ at[c] = "idle"
    BY <1>1 DEF Arrive, dialogLatchMutex, Lanes
  <2>2. CASE /\ holder[l] = None /\ holder' = [holder EXCEPT ![l] = c]
             /\ at' = [at EXCEPT ![c] = "granted"] /\ UNCHANGED queue
    <3> HIDE DEF l
    <3>1. QueuesKnown'
      BY <2>1, <2>2 DEF QueuesKnown, TypeOK
    <3>2. InsideHolds'
      BY <2>1, <2>2, NoneIsNoCall DEF InsideHolds, TypeOK, Within, Inside
    <3>3. QED
      BY <3>1, <3>2
  <2>3. CASE /\ holder[l] # None /\ queue' = [queue EXCEPT ![l] = Append(queue[l], c)]
             /\ at' = [at EXCEPT ![c] = "queued"] /\ UNCHANGED holder
    <3> HIDE DEF l
    <3>1. queue[l] \in Seq(Calls)
      BY <2>1 DEF TypeOK
    <3>2. \A i \in 1..Len(Append(queue[l], c)) :
              \/ i \in 1..Len(queue[l]) /\ Append(queue[l], c)[i] = queue[l][i]
              \/ Append(queue[l], c)[i] = c
      BY <3>1
    <3>3. QueuesKnown'
      <4>1. \A d \in Calls : d # c => at'[d] = at[d] /\ lane'[d] = lane[d]
        BY <2>1, <2>3 DEF TypeOK
      <4>2. at'[c] = "queued" /\ lane'[c] = l
        BY <2>1, <2>3 DEF TypeOK
      <4>3. \A k \in Lanes : queue'[k] = IF k = l THEN Append(queue[l], c) ELSE queue[k]
        BY <2>1, <2>3 DEF TypeOK
      <4>4. /\ \A k \in Lanes : holder[k] \in Calls \cup {None}
            /\ \A k \in Lanes : \A i \in 1..Len(queue[k]) : queue[k][i] \in Calls
        BY DEF TypeOK
      <4>5. QED
        BY <2>1, <2>3, <3>2, <4>1, <4>2, <4>3, <4>4 DEF QueuesKnown
    <3>4. InsideHolds'
      BY <2>1, <2>3 DEF InsideHolds, TypeOK, Within, Inside
    <3>5. QED
      BY <3>3, <3>4
  <2>4. QED
    BY <1>1, <2>2, <2>3 DEF Arrive, acquire
<1>2. ASSUME NEW c \in Calls, LateGuard(c) PROVE QueuesKnown' /\ InsideHolds'
  BY <1>2, HandOver DEF LateGuard
<1>3. ASSUME NEW c \in Calls, Within(c), NEW navigated \in BOOLEAN, Finish(c, navigated)
      PROVE  QueuesKnown' /\ InsideHolds'
  BY <1>3, HandOver DEF Finish, InsideHolds, Within, Inside
<1>4. ASSUME NEW c \in Calls, Done(c) \/ Fail(c) PROVE QueuesKnown' /\ InsideHolds'
  BY <1>3, <1>4 DEF Done, Fail, Within, Inside
<1>5. ASSUME NEW c \in Calls,
             \/ Start(c) \/ holdNavigationGap(c) \/ ensureBrowserConnected(c) \/ Connected(c)
             \/ CheckContext(c) \/ Built(c) \/ ReturnContext(c)
      PROVE  QueuesKnown' /\ InsideHolds'
  <2>1. PICK p \in Inside : at' = [at EXCEPT ![c] = p]
    BY <1>5 DEF Start, holdNavigationGap, ensureBrowserConnected, Connected, CheckContext,
       Built, ReturnContext, Inside
  <2>2. (at[c] = "granted" \/ Within(c)) /\ UNCHANGED <<lane, holder, queue>>
    BY <1>5 DEF Start, holdNavigationGap, ensureBrowserConnected, Connected, CheckContext,
       Built, ReturnContext, Inside, Within
  <2>3. p \in Place \ {"idle"} /\ p # "granted"
    BY <2>1 DEF Place, Inside
  <2>4. QED
    BY <2>1, <2>2, <2>3, MoveInside
<1>6. ASSUME NEW c \in Calls, Refuse(c) \/ Expire(c) PROVE QueuesKnown' /\ InsideHolds'
  <2>1. PICK p \in {"done", "gaveUp"} : at' = [at EXCEPT ![c] = p]
    BY <1>6 DEF Refuse, Expire
  <2>2. UNCHANGED <<lane, holder, queue>>
    BY <1>6 DEF Refuse, Expire
  <2>3. p \in Place \ {"idle"} /\ p # "granted" /\ p \notin Inside
    BY <2>1 DEF Place, Inside
  <2>4. QED
    BY <2>1, <2>2, <2>3, MoveInside
<1>7. CASE UNCHANGED funnelVars
  BY <1>7 DEF funnelVars, QueuesKnown, InsideHolds, Within
<1>8. QED
  BY <1>1, <1>2, <1>4, <1>5, <1>6, <1>7 DEF Next, Move, GapPasses, LinkDrops, AllDone, vars

LEMMA EveryoneInsideHolds == Spec => []InsideHolds
<1>1. Init => QueuesKnown /\ InsideHolds
  BY DEF Init, QueuesKnown, InsideHolds, Within, Inside
<1>2. QED
  BY <1>1, InsideHoldsStep, TypeCorrect, PTL DEF Spec

\* Two calls never drive the page together: no guard is lost or given twice,
\* whoever gives up and whenever (acquireWithinCeiling, ToolHandler.ts:251).
THEOREM MutualExclusion == Spec => []OneToolAtATime
<1>1. InsideHolds => OneToolAtATime
  BY DEF InsideHolds, OneToolAtATime
<1>2. QED
  BY <1>1, EveryoneInsideHolds, PTL

-----------------------------------------------------------------------------
(* Pace *)

\* Between the start of a call and its end nothing touches the pace, and nobody
\* comes in or goes out otherwise.
LEMMA OnlyStartAndFinish ==
    ASSUME TypeOK, [Next]_vars,
           ~\E c \in Calls : Start(c) \/ Done(c) \/ Fail(c)
    PROVE  /\ \A d \in Calls : Within(d)' = Within(d)
           /\ UNCHANGED <<pace, saved, beside, full, kind>>
<1> USE DEF TypeOK, paceVars, browserVars
<1>1. ASSUME NEW c \in Calls, Arrive(c)
      PROVE  /\ \A d \in Calls : Within(d)' = Within(d)
             /\ UNCHANGED <<pace, saved, beside, full, kind>>
  <2>1. PICK p \in {"granted", "queued"} : at' = [at EXCEPT ![c] = p]
    BY <1>1 DEF Arrive, acquire
  <2>2. at[c] = "idle" /\ UNCHANGED <<pace, saved, beside, full, kind>>
    BY <1>1 DEF Arrive
  <2>3. QED
    BY <2>1, <2>2 DEF Within, Inside
<1>2. ASSUME NEW c \in Calls, Refuse(c) \/ Expire(c)
      PROVE  /\ \A d \in Calls : Within(d)' = Within(d)
             /\ UNCHANGED <<pace, saved, beside, full, kind>>
  BY <1>2 DEF Refuse, Expire, Within, Inside
<1>3. ASSUME NEW c \in Calls, LateGuard(c)
      PROVE  /\ \A d \in Calls : Within(d)' = Within(d)
             /\ UNCHANGED <<pace, saved, beside, full, kind>>
  BY <1>3 DEF LateGuard, Moved, Within, Inside
<1>4. ASSUME NEW c \in Calls,
             \/ holdNavigationGap(c) \/ ensureBrowserConnected(c) \/ Connected(c)
             \/ CheckContext(c) \/ Built(c) \/ ReturnContext(c)
      PROVE  /\ \A d \in Calls : Within(d)' = Within(d)
             /\ UNCHANGED <<pace, saved, beside, full, kind>>
  <2>1. PICK p \in Inside : at' = [at EXCEPT ![c] = p]
    BY <1>4 DEF holdNavigationGap, ensureBrowserConnected, Connected, CheckContext, Built,
       ReturnContext, Inside
  <2>2. Within(c) /\ UNCHANGED <<pace, saved, beside, full, kind>>
    BY <1>4 DEF holdNavigationGap, ensureBrowserConnected, Connected, CheckContext, Built,
       ReturnContext, Inside, Within
  <2>3. QED
    BY <2>1, <2>2 DEF Within
<1>5. CASE GapPasses \/ LinkDrops \/ AllDone \/ UNCHANGED vars
  BY <1>5 DEF GapPasses, LinkDrops, AllDone, vars, funnelVars, Within
<1>6. QED
  BY <1>1, <1>2, <1>3, <1>4, <1>5 DEF Next, Move

\* PaceIsItsOwn, with what each call will put back.
PaceKept ==
    /\ \A c, d \in Calls : Within(c) /\ Within(d) /\ c # d => c \in beside
    /\ \A c \in Calls : Within(c) /\ c \notin beside => pace = PaceOf(c)
    /\ beside = {} => \A c \in Calls : Within(c) => saved[c] = "human"
    /\ beside = {} /\ (\A c \in Calls : ~Within(c)) => pace = "human"

LEMMA PaceKeptStep ==
    ASSUME TypeOK, PaceKept, [Next]_vars
    PROVE  PaceKept'
<1>1. ASSUME NEW c \in Calls, Start(c) PROVE PaceKept'
  <2>1. /\ ~Within(c) /\ Within(c)'
        /\ \A d \in Calls : d # c => Within(d)' = Within(d)
    BY <1>1 DEF Start, TypeOK, Within, Inside
  <2>2. /\ pace' = PaceOf(c) /\ saved' = [saved EXCEPT ![c] = pace] /\ full' = full
        /\ beside' = IF \E d \in Calls : Within(d)
                     THEN beside \cup {c} \cup {d \in Calls : Within(d)} ELSE beside
    BY <1>1 DEF Start, selectPace
  <2>3. CASE \E d \in Calls : Within(d)
    BY <2>1, <2>2, <2>3 DEF PaceKept
  <2>4. CASE ~\E d \in Calls : Within(d)
    <3>1. beside' = beside /\ PaceOf(c)' = PaceOf(c)
      BY <2>2, <2>4 DEF PaceOf
    <3>2. \A d \in Calls : Within(d)' => d = c
      BY <2>1, <2>4
    <3>3. beside = {} => saved'[c] = "human"
      BY <2>2, <2>4 DEF PaceKept, TypeOK
    <3>4. QED
      BY <2>1, <2>2, <3>1, <3>2, <3>3 DEF PaceKept
  <2>5. QED
    BY <2>3, <2>4
<1>2. ASSUME NEW c \in Calls, Within(c), NEW navigated \in BOOLEAN, Finish(c, navigated)
      PROVE  PaceKept'
  <2>1. /\ \A d \in Calls : Within(d)' => Within(d) /\ d # c
        /\ \A d \in Calls : Within(d) /\ d # c => Within(d)'
    BY <1>2 DEF Finish, Moved, TypeOK, Within, Inside
  <2>2. pace' = saved[c] /\ UNCHANGED <<saved, beside, full>>
    BY <1>2 DEF Finish
  <2>3. \A d \in Calls : Within(d)' => d \in beside'
    BY <1>2, <2>1, <2>2 DEF PaceKept
  <2>4. beside = {} => pace' = "human"
    BY <1>2, <2>2 DEF PaceKept
  <2>5. QED
    BY <2>2, <2>3, <2>4 DEF PaceKept
<1>3. ASSUME NEW c \in Calls, Done(c) \/ Fail(c) PROVE PaceKept'
  BY <1>2, <1>3 DEF Done, Fail, Within, Inside
<1>4. CASE ~\E c \in Calls : Start(c) \/ Done(c) \/ Fail(c)
  <2>1. /\ \A d \in Calls : Within(d)' = Within(d)
        /\ UNCHANGED <<pace, saved, beside, full>>
    BY <1>4, OnlyStartAndFinish
  <2>2. \A d \in Calls : PaceOf(d)' = PaceOf(d)
    BY <2>1 DEF PaceOf
  <2>3. QED
    BY <2>1, <2>2 DEF PaceKept
<1>5. QED
  BY <1>1, <1>3, <1>4

\* A call alone in the funnel runs at the pace it asked for and leaves the
\* default behind it (selectPace, pacing.ts:381).
THEOREM PaceIsNoOneElses == Spec => []PaceIsItsOwn
<1>1. Init => PaceKept
  BY DEF Init, PaceKept, Within, Inside
<1>2. PaceKept => PaceIsItsOwn
  BY DEF PaceKept, PaceIsItsOwn
<1>3. QED
  BY <1>1, <1>2, PaceKeptStep, TypeCorrect, PTL DEF Spec

-----------------------------------------------------------------------------
(* The gap between navigations *)

\* A tool that acts never takes the dialog latch, one past its gap is past it
\* for good, and no second navigation ends while one holds its gap.
GapKept ==
    /\ \A c \in Calls : lane[c] = "dialog" => kind[c] = "dialog"
    /\ \A c \in older : kind[c] = "dialog"
    /\ GapIsHeld

LEMMA GapKeptStep ==
    ASSUME TypeOK, InsideHolds, GapKept, [Next]_vars
    PROVE  GapKept'
<1> USE DEF TypeOK, GapKept, GapIsHeld, paceVars, browserVars
<1>1. ASSUME NEW c \in Calls, Arrive(c) PROVE GapKept'
  <2>1. PICK p \in {"granted", "queued"} : at' = [at EXCEPT ![c] = p]
    BY <1>1 DEF Arrive, acquire
  <2>2. lane' = [lane EXCEPT ![c] = dialogLatchMutex(c)]
        /\ UNCHANGED <<kind, full, recent, older>>
    BY <1>1 DEF Arrive
  <2>3. QED
    BY <2>1, <2>2 DEF dialogLatchMutex, Inside
<1>2. ASSUME NEW c \in Calls, Refuse(c) \/ Expire(c) PROVE GapKept'
  <2>1. PICK p \in {"done", "gaveUp"} : at' = [at EXCEPT ![c] = p]
    BY <1>2 DEF Refuse, Expire
  <2>2. UNCHANGED <<kind, full, lane, recent, older>>
    BY <1>2 DEF Refuse, Expire
  <2>3. QED
    BY <2>1, <2>2 DEF Inside
<1>3. ASSUME NEW c \in Calls, LateGuard(c) PROVE GapKept'
  BY <1>3 DEF LateGuard, Moved, Inside
<1>4. ASSUME NEW c \in Calls, Start(c) PROVE GapKept'
  BY <1>4 DEF Start, actsOnThePage, Inside
<1>5. ASSUME NEW c \in Calls, holdNavigationGap(c) PROVE GapKept'
  BY <1>5 DEF holdNavigationGap, Inside
<1>6. ASSUME NEW c \in Calls,
             \/ ensureBrowserConnected(c) \/ Connected(c)
             \/ CheckContext(c) \/ Built(c) \/ ReturnContext(c)
      PROVE  GapKept'
  <2>1. PICK p \in Inside \ {"gap"} : at' = [at EXCEPT ![c] = p]
    BY <1>6 DEF ensureBrowserConnected, Connected, CheckContext, Built, ReturnContext, Inside
  <2>2. at[c] \in Inside \ {"gap"} /\ UNCHANGED <<kind, full, lane, recent, older>>
    BY <1>6 DEF ensureBrowserConnected, Connected, CheckContext, Built, ReturnContext, Inside
  <2>3. QED
    BY <2>1, <2>2
<1>7. ASSUME NEW c \in Calls, Within(c), NEW navigated \in BOOLEAN, Finish(c, navigated),
             navigated => kind[c] = "act", at[c] # "gap"
      PROVE  GapKept'
  <2>1. \A d \in Calls : at'[d] \in Inside => at'[d] = at[d] /\ d # c
    BY <1>7 DEF Finish, Moved, Inside
  <2>2. \A d \in Calls : navigated /\ Within(d) /\ d # c => kind[d] = "dialog"
    <3>1. \A d \in Calls : navigated /\ Within(d) /\ d # c => lane[d] # lane[c]
      BY <1>7 DEF InsideHolds
    <3>2. navigated => lane[c] = "tool"
      BY <1>7 DEF Lanes
    <3>3. QED
      BY <3>1, <3>2 DEF Lanes
  <2>3. UNCHANGED <<kind, full, lane>> /\ recent' = (recent \/ navigated)
    BY <1>7 DEF Finish
  <2>4. \A d \in older' : kind[d] = "dialog"
    <3>1. CASE navigated
      BY <1>7, <2>2, <3>1 DEF Finish, Within, Inside
    <3>2. CASE ~navigated
      BY <1>7, <3>2 DEF Finish
    <3>3. QED
      BY <3>1, <3>2
  <2>5. GapIsHeld'
    BY <2>1, <2>2, <2>3 DEF Within
  <2>6. QED
    BY <2>3, <2>4, <2>5
<1>8. ASSUME NEW c \in Calls, Done(c) \/ Fail(c) PROVE GapKept'
  BY <1>7, <1>8 DEF Done, Fail, Within, Inside
<1>9. CASE GapPasses \/ LinkDrops \/ AllDone \/ UNCHANGED vars
  BY <1>9 DEF GapPasses, LinkDrops, AllDone, vars, funnelVars
<1>10. QED
  BY <1>1, <1>2, <1>3, <1>4, <1>5, <1>6, <1>8, <1>9 DEF Next, Move

\* No paced call acts on the page within the gap after a navigation, whoever
\* navigated (ToolHandler.ts:413).
THEOREM GapBetweenNavigations == Spec => []GapIsHeld
<1>1. Init => GapKept
  BY DEF Init, GapKept, GapIsHeld, Inside
<1>2. GapKept => GapIsHeld
  BY DEF GapKept
<1>3. QED
  BY <1>1, <1>2, GapKeptStep, EveryoneInsideHolds, TypeCorrect, PTL DEF Spec

-----------------------------------------------------------------------------
(* Building the browser and its context *)

\* As long as no connection was lost: a context stands on the connection in
\* use, a call past the connection has it, and who builds is in the tool lane
\* and finds nothing built.
LinkKept ==
    drops = 0 =>
        /\ context # None => browser \in up /\ got[context] = browser
        /\ \A c \in Calls : lane[c] = "dialog" => context # None
        /\ \A c \in Calls : at[c] \in {"check", "build", "roots", "work"} =>
                              got[c] = browser /\ browser \in up
        /\ \A c \in Calls : Building(c) => context = None /\ lane[c] = "tool"
        /\ \A c \in Calls : at[c] = "connect" => browser \notin up

\* Who builds is alone with it, because the tool mutex lets in one call.
LEMMA BuilderIsAlone ==
    ASSUME InsideHolds, LinkKept, drops = 0
    PROVE  \A c, d \in Calls : Building(c) /\ Building(d) => c = d
  BY DEF InsideHolds, LinkKept, Building, Within, Inside

LEMMA LinkKeptStep ==
    ASSUME TypeOK, InsideHolds, LinkKept, [Next]_vars
    PROVE  LinkKept'
<1> SUFFICES ASSUME drops' = 0
             PROVE  LinkKept'
  BY DEF LinkKept
<1> USE DEF TypeOK, funnelVars, paceVars, browserVars
<1>0. drops = 0
  BY DropsAreBounded DEF Next, Refuse, Arrive, Expire, Move, LateGuard, Start,
     holdNavigationGap, ensureBrowserConnected, Connected, CheckContext, Built,
     ReturnContext, Done, Fail, Finish, GapPasses, LinkDrops, AllDone, vars
<1>1. ASSUME NEW c \in Calls, Arrive(c) PROVE LinkKept'
  <2>1. PICK p \in {"granted", "queued"} : at' = [at EXCEPT ![c] = p]
    BY <1>1 DEF Arrive, acquire
  <2>2. lane' = [lane EXCEPT ![c] = dialogLatchMutex(c)] /\ at[c] = "idle"
        /\ UNCHANGED browserVars
    BY <1>1 DEF Arrive
  <2>3. QED
    BY <1>0, <2>1, <2>2 DEF LinkKept, dialogLatchMutex, Building
<1>2. ASSUME NEW c \in Calls, NEW p \in {"done", "gaveUp", "ensure", "gap"},
             at' = [at EXCEPT ![c] = p], UNCHANGED <<lane, browserVars>>
      PROVE  LinkKept'
  BY <1>0, <1>2 DEF LinkKept, Building
<1>3. ASSUME NEW c \in Calls, Refuse(c) \/ Expire(c) \/ Start(c) \/ holdNavigationGap(c)
      PROVE  LinkKept'
  <2>1. PICK p \in {"done", "gaveUp", "ensure", "gap"} : at' = [at EXCEPT ![c] = p]
    BY <1>3 DEF Refuse, Expire, Start, holdNavigationGap
  <2>2. UNCHANGED <<lane, browserVars>>
    BY <1>3 DEF Refuse, Expire, Start, holdNavigationGap
  <2>3. QED
    BY <1>2, <2>1, <2>2
<1>4. ASSUME NEW c \in Calls, at' = Moved(c, "done"), UNCHANGED <<lane, browserVars>>
      PROVE  LinkKept'
  BY <1>0, <1>4 DEF LinkKept, Building, Moved
<1>5. ASSUME NEW c \in Calls, LateGuard(c) \/ Done(c) \/ Fail(c) PROVE LinkKept'
  BY <1>4, <1>5 DEF LateGuard, Done, Fail, Finish
<1>6. ASSUME NEW c \in Calls, ensureBrowserConnected(c) PROVE LinkKept'
  <2>1. CASE browser \in up
    BY <1>0, <1>6, <2>1 DEF ensureBrowserConnected, LinkKept, Building
  <2>2. CASE browser \notin up
    <3>1. at' = [at EXCEPT ![c] = "connect"]
          /\ UNCHANGED <<lane, browser, up, context, got>>
      BY <1>6, <2>2 DEF ensureBrowserConnected
    <3>2. context = None /\ lane[c] = "tool"
      BY <1>0, <2>2 DEF LinkKept, Lanes
    <3>3. QED
      BY <1>0, <2>2, <3>1, <3>2 DEF LinkKept, Building
  <2>3. QED
    BY <2>1, <2>2
<1>7. ASSUME NEW c \in Calls, Connected(c) PROVE LinkKept'
  <2>1. /\ at[c] = "connect" /\ at' = [at EXCEPT ![c] = "check"]
        /\ browser' = c /\ up' = up \cup {c} /\ got' = [got EXCEPT ![c] = c]
        /\ UNCHANGED <<lane, context>>
    BY <1>7 DEF Connected
  <2>2. context = None /\ browser \notin up
    BY <1>0, <2>1 DEF LinkKept, Building
  <2>3. \A d \in Calls : Building(d) => d = c
    BY <1>0, <2>1, BuilderIsAlone DEF Building
  <2>4. QED
    BY <1>0, <2>1, <2>2, <2>3 DEF LinkKept, Building
<1>8. ASSUME NEW c \in Calls, CheckContext(c) PROVE LinkKept'
  <2>1. at[c] = "check" /\ got[c] = browser /\ browser \in up
        /\ UNCHANGED <<lane, browser, up, context, got>>
    BY <1>0, <1>8 DEF CheckContext, LinkKept
  <2>2. CASE at' = [at EXCEPT ![c] = "work"]
    BY <1>0, <2>1, <2>2 DEF LinkKept, Building
  <2>3. CASE at' = [at EXCEPT ![c] = "build"] /\ (context # None => got[context] # got[c])
    <3>1. context = None /\ lane[c] = "tool"
      BY <1>0, <2>1, <2>3 DEF LinkKept, Lanes
    <3>2. QED
      BY <1>0, <2>1, <2>3, <3>1 DEF LinkKept, Building
  <2>4. QED
    BY <1>8, <2>2, <2>3 DEF CheckContext
<1>9. ASSUME NEW c \in Calls, Built(c) PROVE LinkKept'
  <2>1. /\ at[c] = "build" /\ at' = [at EXCEPT ![c] = "roots"] /\ context' = c
        /\ UNCHANGED <<lane, browser, up, got>>
    BY <1>9 DEF Built
  <2>2. got[c] = browser /\ browser \in up
    BY <1>0, <2>1 DEF LinkKept
  <2>3. \A d \in Calls : Building(d) => d = c
    BY <1>0, <2>1, BuilderIsAlone DEF Building
  <2>4. QED
    BY <1>0, <2>1, <2>2, <2>3, NoneIsNoCall DEF LinkKept, Building
<1>10. ASSUME NEW c \in Calls, ReturnContext(c) PROVE LinkKept'
  BY <1>0, <1>10 DEF ReturnContext, LinkKept, Building
<1>11. CASE GapPasses \/ LinkDrops \/ AllDone \/ UNCHANGED vars
  BY <1>0, <1>11 DEF GapPasses, LinkDrops, AllDone, vars, LinkKept, Building
<1>12. QED
  BY <1>1, <1>3, <1>5, <1>6, <1>7, <1>8, <1>9, <1>10, <1>11 DEF Next, Move

\* While the connection lasts, the browser and its context are built by one
\* call at a time (dialogLatchMutex, ToolHandler.ts:314).
THEOREM OneBuilder == Spec => []BuildsAlone
<1>1. Init => LinkKept
  BY NoneIsNoCall DEF Init, LinkKept, Building
<1>2. LinkKept /\ InsideHolds => BuildsAlone
  BY BuilderIsAlone DEF BuildsAlone
<1>3. QED
  BY <1>1, <1>2, LinkKeptStep, EveryoneInsideHolds, TypeCorrect, PTL DEF Spec

-----------------------------------------------------------------------------
(* The context a tool works with *)

Unconnected == {"idle", "queued", "granted", "gaveUp", "gap", "ensure", "connect"}
Unbuilt == Unconnected \cup {"check", "build"}

\* No connection is named after a call that has not connected, no context after
\* one that has not built.  And as long as nobody was in the funnel beside
\* another, a context that was disposed of is one of an earlier connection: that
\* is what keeps getContext from handing it out after a failed building.
ContextKept ==
    /\ \A e \in Calls : at[e] \in Unbuilt => context # e /\ e \notin disposed
    /\ \A e \in Calls : at[e] \in Unconnected =>
                          browser # e /\ \A c \in Calls : got[c] # e
    /\ beside = {} =>
         /\ \A c, d \in Calls : Within(c) /\ Within(d) => c = d
         /\ context \in disposed => got[context] # browser
         /\ \A c \in Calls : at[c] \in {"check", "build", "roots", "work"} =>
                               got[c] = browser
         /\ \A c \in Calls : at[c] = "roots" => context = c /\ c \notin disposed
         /\ \A c \in Calls : at[c] = "work" =>
              using[c] = context /\ context \notin disposed /\ got[context] = browser

LEMMA ContextKeptStep ==
    ASSUME TypeOK, ContextKept, [Next]_vars
    PROVE  ContextKept'
<1> USE DEF TypeOK, funnelVars, paceVars, browserVars
<1>1. ASSUME NEW c \in Calls, NEW p \in {"granted", "queued", "done", "gaveUp", "ensure"},
             at[c] \in Unconnected, at' = [at EXCEPT ![c] = p],
             p = "ensure" => at[c] = "gap", UNCHANGED <<beside, browserVars>>
      PROVE  ContextKept'
  <2>1. \A d \in Calls : (at'[d] \in Unconnected => at[d] \in Unconnected)
                          /\ (at'[d] \in Unbuilt => at[d] \in Unbuilt)
    BY <1>1 DEF Unbuilt, Unconnected
  <2>2. \A d \in Calls : at'[d] \in Inside => at[d] \in Inside
    BY <1>1 DEF Inside
  <2>3. \A d \in Calls : at'[d] \in {"check", "build", "roots", "work"} => at'[d] = at[d]
    BY <1>1
  <2>4. QED
    BY <1>1, <2>1, <2>2, <2>3 DEF ContextKept, Within
<1>2. ASSUME NEW c \in Calls, Refuse(c) \/ Arrive(c) \/ Expire(c) \/ holdNavigationGap(c)
      PROVE  ContextKept'
  <2>1. PICK p \in {"granted", "queued", "done", "gaveUp", "ensure"} :
             at' = [at EXCEPT ![c] = p] /\ (p = "ensure" => at[c] = "gap")
    BY <1>2 DEF Refuse, Arrive, acquire, Expire, holdNavigationGap
  <2>2. at[c] \in Unconnected /\ UNCHANGED <<beside, browserVars>>
    BY <1>2 DEF Refuse, Arrive, Expire, holdNavigationGap, Unconnected
  <2>3. QED
    BY <1>1, <2>1, <2>2
<1>3. ASSUME NEW c \in Calls, at' = Moved(c, "done"), UNCHANGED <<beside, browserVars>>
      PROVE  ContextKept'
  <2>1. \A d \in Calls : (at'[d] \in Unconnected => at[d] \in Unconnected)
                          /\ (at'[d] \in Unbuilt => at[d] \in Unbuilt)
    BY <1>3 DEF Moved, Unbuilt, Unconnected
  <2>2. \A d \in Calls : at'[d] \in Inside => at[d] \in Inside
    BY <1>3 DEF Moved, Inside
  <2>3. \A d \in Calls : at'[d] \in {"check", "build", "roots", "work"} => at'[d] = at[d]
    BY <1>3 DEF Moved
  <2>4. QED
    BY <1>3, <2>1, <2>2, <2>3 DEF ContextKept, Within
<1>4. ASSUME NEW c \in Calls, LateGuard(c) \/ Done(c) \/ Fail(c) PROVE ContextKept'
  BY <1>3, <1>4 DEF LateGuard, Done, Fail, Finish
<1>5. ASSUME NEW c \in Calls, Start(c) PROVE ContextKept'
  <2>1. PICK p \in {"gap", "ensure"} : at' = [at EXCEPT ![c] = p]
    BY <1>5 DEF Start
  <2>2. at[c] = "granted" /\ UNCHANGED browserVars
    BY <1>5 DEF Start
  <2>3. beside' = {} => beside = {} /\ \A d \in Calls : ~Within(d)
    BY <1>5 DEF Start
  <2>4. \A d \in Calls : (at'[d] \in Unconnected => at[d] \in Unconnected)
                          /\ (at'[d] \in Unbuilt => at[d] \in Unbuilt)
    BY <2>1, <2>2 DEF Unbuilt, Unconnected
  <2>5. \A d \in Calls : d # c => at'[d] = at[d]
    BY <2>1
  <2>6. at'[c] \notin {"check", "build", "roots", "work"}
    BY <2>1
  <2>7. beside' = {} => \A d, e \in Calls : Within(d)' /\ Within(e)' => d = e
    BY <2>3, <2>5 DEF Within
  <2>8. QED
    BY <2>2, <2>3, <2>4, <2>5, <2>6, <2>7 DEF ContextKept
<1>6. ASSUME NEW c \in Calls, ensureBrowserConnected(c) PROVE ContextKept'
  <2>1. at[c] = "ensure" /\ UNCHANGED <<beside, browser, context, using, disposed>>
    BY <1>6 DEF ensureBrowserConnected
  <2>2. CASE at' = [at EXCEPT ![c] = "check"] /\ got' = [got EXCEPT ![c] = browser]
    <3>1. context # c
      BY <2>1 DEF ContextKept, Unbuilt, Unconnected
    <3>2. context \in disposed => got'[context] = got[context]
      BY <2>2, <3>1
    <3>3. \A d \in Calls : (at'[d] \in Unconnected => at[d] \in Unconnected)
                            /\ (at'[d] \in Unbuilt => at[d] \in Unbuilt)
      BY <2>1, <2>2 DEF Unbuilt, Unconnected
    <3>4. \A d \in Calls : Within(d)' => Within(d)
      BY <2>1, <2>2 DEF Within, Inside
    <3>5. beside = {} => \A d \in Calls : at[d] # "work"
      BY <2>1 DEF ContextKept, Within, Inside
    <3>6. \A e \in Calls : at'[e] \in Unconnected =>
                              browser # e /\ \A d \in Calls : got'[d] # e
      BY <2>2, <3>3 DEF ContextKept
    <3>7. \A e \in Calls : at'[e] \in Unbuilt => context # e /\ e \notin disposed
      BY <3>3 DEF ContextKept
    <3>8. beside = {} =>
            /\ \A d, e \in Calls : Within(d)' /\ Within(e)' => d = e
            /\ context \in disposed => got'[context] # browser
            /\ \A d \in Calls : at'[d] \in {"check", "build", "roots", "work"} =>
                                  got'[d] = browser
            /\ \A d \in Calls : at'[d] = "roots" => context = d /\ d \notin disposed
            /\ \A d \in Calls : at'[d] # "work"
      BY <2>2, <3>2, <3>4, <3>5 DEF ContextKept
    <3>9. QED
      BY <2>1, <3>6, <3>7, <3>8 DEF ContextKept
  <2>3. CASE at' = [at EXCEPT ![c] = "connect"] /\ got' = got
    <3>1. \A d \in Calls : (at'[d] \in Unconnected => at[d] \in Unconnected)
                            /\ (at'[d] \in Unbuilt => at[d] \in Unbuilt)
      BY <2>1, <2>3 DEF Unbuilt, Unconnected
    <3>2. \A d \in Calls : Within(d)' => Within(d)
      BY <2>1, <2>3 DEF Within, Inside
    <3>3. QED
      BY <2>1, <2>3, <3>1, <3>2 DEF ContextKept
  <2>4. QED
    BY <1>6, <2>2, <2>3 DEF ensureBrowserConnected
<1>7. ASSUME NEW c \in Calls, Connected(c) PROVE ContextKept'
  <2>1. /\ at[c] = "connect" /\ at' = [at EXCEPT ![c] = "check"]
        /\ browser' = c /\ got' = [got EXCEPT ![c] = c]
        /\ UNCHANGED <<beside, context, using, disposed>>
    BY <1>7 DEF Connected
  <2>2. context # c /\ \A d \in Calls : got[d] # c
    BY <2>1 DEF ContextKept, Unbuilt, Unconnected
  <2>3. context \in disposed => got'[context] # c
    BY <2>1, <2>2
  <2>4. \A d \in Calls : (at'[d] \in Unconnected => at[d] \in Unconnected /\ d # c)
                          /\ (at'[d] \in Unbuilt => at[d] \in Unbuilt)
    BY <2>1 DEF Unbuilt, Unconnected
  <2>5. \A d \in Calls : Within(d)' => Within(d)
    BY <2>1 DEF Within, Inside
  <2>6. beside = {} => \A d \in Calls : at[d] \in Inside => d = c
    BY <2>1 DEF ContextKept, Within, Inside
  <2>7. beside = {} => \A d \in Calls : at'[d] \in Inside => d = c
    BY <2>5, <2>6 DEF Within
  <2>8. \A e \in Calls : at'[e] \in Unconnected => c # e /\ \A d \in Calls : got'[d] # e
    BY <2>1, <2>4 DEF ContextKept
  <2>9. \A e \in Calls : at'[e] \in Unbuilt => context # e /\ e \notin disposed
    BY <2>4 DEF ContextKept
  <2>10. at'[c] = "check" /\ got'[c] = c
    BY <2>1
  <2>11. QED
    BY <2>1, <2>3, <2>7, <2>8, <2>9, <2>10 DEF ContextKept, Within, Inside
<1>8. ASSUME NEW c \in Calls, CheckContext(c) PROVE ContextKept'
  <2>1. at[c] = "check" /\ UNCHANGED <<beside, browser, context, got>>
    BY <1>8 DEF CheckContext
  <2>2. beside = {} => \A d \in Calls : at[d] \in Inside => d = c
    BY <2>1 DEF ContextKept, Within, Inside
  <2>3. beside = {} => got[c] = browser
    BY <2>1 DEF ContextKept
  <2>4. CASE /\ at' = [at EXCEPT ![c] = "work"] /\ using' = [using EXCEPT ![c] = context]
             /\ context # None /\ got[context] = got[c] /\ disposed' = disposed
    <3>1. \A d \in Calls : (at'[d] \in Unconnected => at[d] \in Unconnected)
                            /\ (at'[d] \in Unbuilt => at[d] \in Unbuilt)
      BY <2>1, <2>4 DEF Unbuilt, Unconnected
    <3>2. beside = {} => \A d \in Calls : at'[d] \in Inside => d = c
      BY <2>2, <2>4 DEF Inside
    <3>3. at'[c] = "work" /\ using'[c] = context
      BY <2>4
    <3>4. beside = {} => context \notin disposed
      BY <2>3, <2>4 DEF ContextKept
    <3>5. QED
      BY <2>1, <2>3, <2>4, <3>1, <3>2, <3>3, <3>4 DEF ContextKept, Within, Inside
  <2>5. CASE /\ at' = [at EXCEPT ![c] = "build"] /\ using' = using
             /\ context # None => got[context] # got[c]
             /\ disposed' = disposed \cup ({context} \ {None})
    <3>1. \A d \in Calls : (at'[d] \in Unconnected => at[d] \in Unconnected)
                            /\ (at'[d] \in Unbuilt => at[d] \in Unbuilt)
      BY <2>1, <2>5 DEF Unbuilt, Unconnected
    <3>2. beside = {} => \A d \in Calls : at'[d] \in Inside => d = c
      BY <2>2, <2>5 DEF Inside
    <3>3. at'[c] = "build"
      BY <2>5
    <3>4. beside = {} => (context \in disposed' => got[context] # browser)
      BY <2>3, <2>5, NoneIsNoCall
    <3>5. \A e \in Calls : at'[e] \in Unbuilt => context # e /\ e \notin disposed'
      BY <2>5, <3>1 DEF ContextKept
    <3>6. QED
      BY <2>1, <2>3, <2>5, <3>1, <3>2, <3>3, <3>4, <3>5 DEF ContextKept, Within, Inside
  <2>6. QED
    BY <1>8, <2>4, <2>5 DEF CheckContext
<1>9. ASSUME NEW c \in Calls, Built(c) PROVE ContextKept'
  <2>1. /\ at[c] = "build" /\ at' = [at EXCEPT ![c] = "roots"] /\ context' = c
        /\ UNCHANGED <<beside, browser, got, using, disposed>>
    BY <1>9 DEF Built
  <2>2. c \notin disposed
    BY <2>1 DEF ContextKept, Unbuilt
  <2>3. beside = {} => \A d \in Calls : at'[d] \in Inside => d = c
    BY <2>1 DEF ContextKept, Within, Inside
  <2>4. \A d \in Calls : (at'[d] \in Unconnected => at[d] \in Unconnected)
                          /\ (at'[d] \in Unbuilt => at[d] \in Unbuilt /\ d # c)
    BY <2>1 DEF Unbuilt, Unconnected
  <2>5. beside = {} => got[c] = browser
    BY <2>1 DEF ContextKept
  <2>6. at'[c] = "roots"
    BY <2>1
  <2>7. QED
    BY <2>1, <2>2, <2>3, <2>4, <2>5, <2>6 DEF ContextKept, Within, Inside
<1>10. ASSUME NEW c \in Calls, ReturnContext(c) PROVE ContextKept'
  <2>1. /\ at[c] = "roots" /\ at' = [at EXCEPT ![c] = "work"]
        /\ using' = [using EXCEPT ![c] = context]
        /\ UNCHANGED <<beside, browser, context, got, disposed>>
    BY <1>10 DEF ReturnContext
  <2>2. beside = {} => context = c /\ c \notin disposed /\ got[c] = browser
    BY <2>1 DEF ContextKept
  <2>3. beside = {} => \A d \in Calls : at'[d] \in Inside => d = c
    BY <2>1 DEF ContextKept, Within, Inside
  <2>4. \A d \in Calls : (at'[d] \in Unconnected => at[d] \in Unconnected)
                          /\ (at'[d] \in Unbuilt => at[d] \in Unbuilt)
    BY <2>1 DEF Unbuilt, Unconnected
  <2>5. at'[c] = "work" /\ using'[c] = context
    BY <2>1
  <2>6. QED
    BY <2>1, <2>2, <2>3, <2>4, <2>5 DEF ContextKept, Within, Inside
<1>11. CASE GapPasses \/ LinkDrops \/ AllDone \/ UNCHANGED vars
  BY <1>11 DEF GapPasses, LinkDrops, AllDone, vars, ContextKept, Within
<1>12. QED
  BY <1>2, <1>4, <1>5, <1>6, <1>7, <1>8, <1>9, <1>10, <1>11 DEF Next, Move

\* A tool that has the funnel to itself works with the context in place, which is
\* the one of the connection in use and was not disposed of, however often the
\* connection was lost before (getContext, index.ts:150).
THEOREM ContextOfTheConnection == Spec => []ContextIsTheBrowsers
<1>1. Init => ContextKept
  BY NoneIsNoCall DEF Init, ContextKept, Within, Inside
<1>2. ContextKept => ContextIsTheBrowsers
  BY DEF ContextKept, ContextIsTheBrowsers
<1>3. QED
  BY <1>1, <1>2, ContextKeptStep, TypeCorrect, PTL DEF Spec
-----------------------------------------------------------------------------
(* The turnstiles *)

\* The places in a queue are of different calls, all but those that gave up wait
\* there, and nobody queues for a mutex that is free.
Line ==
    \A l \in Lanes :
        /\ \A i, j \in DOMAIN queue[l] : queue[l][i] = queue[l][j] => i = j
        /\ \A i \in DOMAIN queue[l] : at[queue[l][i]] \in {"queued", "gaveUp"}
                                      /\ queue[l][i] # holder[l]
        /\ \A c \in Calls : at[c] = "queued" /\ lane[c] = l
                               => \E i \in DOMAIN queue[l] : queue[l][i] = c
        /\ queue[l] # <<>> => holder[l] # None
        /\ holder[l] # None => at[holder[l]] \in {"granted", "gaveUp"} \cup Inside

Orderly == TypeOK /\ QueuesKnown /\ InsideHolds /\ Line

\* What a release does to its mutex: the first in line holds it, if there is one.
LEMMA ReleaseShifts ==
    ASSUME Orderly, NEW l \in Lanes, release(l)
    PROVE  /\ \A k \in Lanes : k # l => queue'[k] = queue[k] /\ holder'[k] = holder[k]
           /\ \/ queue[l] = <<>> /\ queue'[l] = <<>> /\ holder'[l] = None
              \/ /\ queue[l] # <<>> /\ holder'[l] = queue[l][1]
                 /\ queue[l][1] \in Calls /\ 1 \in DOMAIN queue[l]
                 /\ \A i \in DOMAIN queue'[l] : i + 1 \in DOMAIN queue[l]
                                                /\ queue'[l][i] = queue[l][i + 1]
                 /\ \A i \in DOMAIN queue[l] : i # 1 => i - 1 \in DOMAIN queue'[l]
<1>1. holder \in [Lanes -> Calls \cup {None}] /\ queue \in [Lanes -> Seq(Calls)]
  BY DEF Orderly, TypeOK
<1>2. CASE queue[l] = <<>>
  BY <1>1, <1>2 DEF release
<1>3. CASE queue[l] # <<>>
  <2>1. /\ queue[l] \in Seq(Calls) /\ Len(queue[l]) > 0 /\ Head(queue[l]) = queue[l][1]
        /\ queue[l][1] \in Calls /\ DOMAIN queue[l] = 1..Len(queue[l])
        /\ Tail(queue[l]) \in Seq(Calls) /\ DOMAIN Tail(queue[l]) = 1..(Len(queue[l]) - 1)
        /\ \A i \in 1..(Len(queue[l]) - 1) : Tail(queue[l])[i] = queue[l][i + 1]
    BY <1>1, <1>3
  <2>2. /\ holder' = [holder EXCEPT ![l] = Head(queue[l])]
        /\ queue' = [queue EXCEPT ![l] = Tail(queue[l])]
    BY <1>3 DEF release
  <2>3. /\ holder'[l] = queue[l][1] /\ queue'[l] = Tail(queue[l])
        /\ \A k \in Lanes : k # l => queue'[k] = queue[k] /\ holder'[k] = holder[k]
    BY <1>1, <2>1, <2>2
  <2>4. QED
    BY <1>3, <2>1, <2>3
<1>4. QED
  BY <1>2, <1>3

\* Behind the turnstile or beside it, a release changes nothing for those before
\* it, but that the first of them may be granted.
LEMMA ReleaseGrants ==
    ASSUME Orderly, NEW c \in Calls, NEW p \in {"done", "gaveUp"},
           holder[lane[c]] = c, at[c] = "gaveUp" \/ Within(c),
           release(lane[c]), at' = Moved(c, p), lane' = lane
    PROVE  /\ \A d \in Calls :
                IF d = c THEN at'[d] = p
                ELSE IF at[d] = "queued" /\ holder'[lane[c]] = d THEN at'[d] = "granted"
                ELSE at'[d] = at[d]
           /\ \A d \in Calls : at[d] = "granted" => lane[d] # lane[c]
<1>1. /\ at \in [Calls -> Place] /\ lane[c] \in Lanes /\ c # None
      /\ holder \in [Lanes -> Calls \cup {None}]
  BY NoneIsNoCall DEF Orderly, TypeOK
<1>2. \A k \in Lanes : k # lane[c] => holder'[k] = holder[k]
  BY <1>1, ReleaseShifts
<1>3. \A d \in Calls : \A k \in Lanes : holder[k] = d => at[d] # "queued"
  BY NoneIsNoCall DEF Orderly, Line, Inside
<1>4. \A d \in Calls : at[d] = "granted" => holder[lane[d]] = d
  BY DEF Orderly, InsideHolds
<1>5. at[c] # "granted"
  BY DEF Within, Inside
<1>6. QED
  BY <1>1, <1>2, <1>3, <1>4, <1>5 DEF Moved

LEMMA ReleaseKeepsLine ==
    ASSUME Orderly, NEW c \in Calls, NEW p \in {"done", "gaveUp"},
           holder[lane[c]] = c, at[c] = "gaveUp" \/ Within(c),
           release(lane[c]), at' = Moved(c, p), lane' = lane
    PROVE  Line'
<1> DEFINE l == lane[c]
<1>1. /\ l \in Lanes /\ queue \in [Lanes -> Seq(Calls)] /\ lane \in [Calls -> Lanes]
      /\ holder \in [Lanes -> Calls \cup {None}] /\ c # None
      /\ queue' \in [Lanes -> Seq(Calls)] /\ holder' \in [Lanes -> Calls \cup {None}]
  BY NoneIsNoCall, ReleaseType DEF Orderly, TypeOK
<1>0. \A k \in Lanes : /\ Len(queue[k]) \in Nat /\ DOMAIN queue[k] = 1..Len(queue[k])
                      /\ \A i \in DOMAIN queue[k] : queue[k][i] \in Calls
  BY <1>1
<1>2. \A k \in Lanes : \A i \in DOMAIN queue[k] : queue[k][i] \in Calls /\ lane[queue[k][i]] = k
  BY <1>0 DEF Orderly, QueuesKnown
<1>3. \A k \in Lanes : \A i \in DOMAIN queue[k] : queue[k][i] # c
  BY <1>1, <1>2 DEF Orderly, Line
<1>4. SUFFICES ASSUME NEW k \in Lanes
               PROVE  /\ \A i, j \in DOMAIN queue'[k] : queue'[k][i] = queue'[k][j] => i = j
                      /\ \A i \in DOMAIN queue'[k] : at'[queue'[k][i]] \in {"queued", "gaveUp"}
                                                     /\ queue'[k][i] # holder'[k]
                      /\ \A d \in Calls : at'[d] = "queued" /\ lane[d] = k
                               => \E i \in DOMAIN queue'[k] : queue'[k][i] = d
                      /\ queue'[k] # <<>> => holder'[k] # None
                      /\ holder'[k] # None => at'[holder'[k]] \in {"granted", "gaveUp"} \cup Inside
  BY DEF Line
<1>5. CASE k # l
  <2>1. queue'[k] = queue[k] /\ holder'[k] = holder[k]
    BY <1>1, <1>5, ReleaseShifts
  <2>2. \A d \in Calls : lane[d] = k => at'[d] = at[d]
    <3>1. holder'[l] # None => lane[holder'[l]] = l
      BY <1>1, ReleaseHands DEF Orderly
    <3>2. QED
      BY <1>5, <3>1, NoneIsNoCall, ReleaseGrants
  <2>3. holder[k] # None => lane[holder[k]] = k /\ holder[k] \in Calls
    BY <1>1 DEF Orderly, QueuesKnown
  <2>4. QED
    BY <1>2, <2>1, <2>2, <2>3 DEF Orderly, Line
<1>6. CASE k = l /\ queue[l] = <<>>
  <2>1. queue'[k] = <<>> /\ holder'[k] = None /\ DOMAIN queue'[k] = {}
    BY <1>1, <1>6, ReleaseShifts
  <2>2. \A d \in Calls : lane[d] = l => at[d] # "queued"
    BY <1>1, <1>6 DEF Orderly, Line
  <2>3. \A d \in Calls : at'[d] = "queued" => at[d] = "queued"
    BY ReleaseGrants
  <2>4. QED
    BY <1>6, <2>1, <2>2, <2>3
<1>7. CASE k = l /\ queue[l] # <<>>
  <2>1. /\ holder'[l] = queue[l][1] /\ queue[l][1] \in Calls /\ 1 \in DOMAIN queue[l]
        /\ \A i \in DOMAIN queue'[l] : i + 1 \in DOMAIN queue[l]
                                       /\ queue'[l][i] = queue[l][i + 1]
        /\ \A i \in DOMAIN queue[l] : i # 1 => i - 1 \in DOMAIN queue'[l]
        /\ DOMAIN queue'[l] = 1..Len(queue'[l]) /\ Len(queue'[l]) \in Nat
        /\ DOMAIN queue[l] = 1..Len(queue[l]) /\ Len(queue[l]) \in Nat
    BY <1>1, <1>7, ReleaseShifts
  <2>2. \A i, j \in DOMAIN queue[l] : queue[l][i] = queue[l][j] => i = j
    BY <1>1 DEF Orderly, Line
  <2>3. \A i \in DOMAIN queue'[l] : queue'[l][i] # holder'[l] /\ at'[queue'[l][i]] = at[queue[l][i + 1]]
    <3>1. TAKE i \in DOMAIN queue'[l]
    <3> DEFINE d == queue[l][i + 1]
    <3>2. queue'[l][i] = d /\ i + 1 \in DOMAIN queue[l] /\ i + 1 # 1
      BY <2>1
    <3>3. d \in Calls /\ d # c /\ d # queue[l][1]
      BY <1>1, <1>2, <1>3, <2>1, <2>2, <3>2
    <3>4. at'[d] = at[d]
      BY <2>1, <3>3, ReleaseGrants
    <3>5. QED
      BY <2>1, <3>2, <3>3, <3>4
  <2>4. at'[holder'[l]] \in {"granted", "gaveUp"}
    <3>1. queue[l][1] # c /\ at[queue[l][1]] \in {"queued", "gaveUp"}
      BY <1>1, <1>3, <2>1 DEF Orderly, Line
    <3>2. QED
      BY <2>1, <3>1, ReleaseGrants
  <2>5. \A d \in Calls : at'[d] = "queued" /\ lane[d] = l
                            => \E i \in DOMAIN queue'[l] : queue'[l][i] = d
    <3>1. TAKE d \in Calls
    <3>2. HAVE at'[d] = "queued" /\ lane[d] = l
    <3>3. at[d] = "queued" /\ d # holder'[l]
      BY <3>2, ReleaseGrants
    <3>4. PICK i \in DOMAIN queue[l] : queue[l][i] = d
      BY <1>1, <3>2, <3>3 DEF Orderly, Line
    <3>5. i # 1 /\ i - 1 \in DOMAIN queue'[l] /\ queue'[l][i - 1] = d
      BY <2>1, <3>3, <3>4
    <3>6. QED
      BY <3>5
  <2>6. \A i \in DOMAIN queue'[l] : at'[queue'[l][i]] \in {"queued", "gaveUp"}
    <3>1. \A i \in DOMAIN queue[l] : at[queue[l][i]] \in {"queued", "gaveUp"}
      BY <1>1 DEF Orderly, Line
    <3>2. QED
      BY <2>1, <2>3, <3>1
  <2>7. queue[l][1] # None
    BY <2>1, NoneIsNoCall
  <2>8. \A i, j \in DOMAIN queue'[l] : queue'[l][i] = queue'[l][j] => i = j
    <3>1. TAKE i, j \in DOMAIN queue'[l]
    <3>2. HAVE queue'[l][i] = queue'[l][j]
    <3>3. i \in Nat /\ j \in Nat /\ i + 1 \in DOMAIN queue[l] /\ j + 1 \in DOMAIN queue[l]
      BY <2>1
    <3>4. queue[l][i + 1] = queue[l][j + 1]
      BY <2>1, <3>2
    <3>5. i + 1 = j + 1
      BY <2>2, <3>3, <3>4
    <3>6. QED
      BY <3>3, <3>5
  <2>9. QED
    BY <1>7, <2>1, <2>3, <2>4, <2>5, <2>6, <2>7, <2>8
<1>8. QED
  BY <1>5, <1>6, <1>7

\* A move of one call that leaves the mutexes alone leaves the line alone.
LEMMA MoveKeepsLine ==
    ASSUME Orderly, UNCHANGED <<lane, holder, queue>>,
           NEW c \in Calls, NEW p \in Place, at' = [at EXCEPT ![c] = p],
           \/ at[c] = "queued" /\ p = "gaveUp"
           \/ at[c] = "idle" /\ p = "done"
           \/ (at[c] = "granted" \/ Within(c)) /\ p \in Inside
    PROVE  Line'
<1>1. \A d \in Calls : at'[d] = IF d = c THEN p ELSE at[d]
  BY DEF Orderly, TypeOK
<1>2. \A l \in Lanes : \A i \in DOMAIN queue[l] : queue[l][i] \in Calls
  BY DEF Orderly, TypeOK
<1>3. \A l \in Lanes : holder[l] # None => holder[l] \in Calls
  BY DEF Orderly, TypeOK
<1>4. p # "queued"
  BY DEF Inside
<1>5. SUFFICES ASSUME NEW l \in Lanes
               PROVE  /\ \A i \in DOMAIN queue[l] : at'[queue[l][i]] \in {"queued", "gaveUp"}
                      /\ \A d \in Calls : at'[d] = "queued" => at[d] = "queued"
                      /\ holder[l] # None
                           => at'[holder[l]] \in {"granted", "gaveUp"} \cup Inside
  BY DEF Orderly, Line
<1>6. \A i \in DOMAIN queue[l] : queue[l][i] = c => at[c] \in {"queued", "gaveUp"}
  BY DEF Orderly, Line
<1>7. holder[l] # None => at[holder[l]] \in {"granted", "gaveUp"} \cup Inside
  BY DEF Orderly, Line
<1>8. \A i \in DOMAIN queue[l] : at'[queue[l][i]] \in {"queued", "gaveUp"}
  BY <1>1, <1>2, <1>6 DEF Orderly, Line, Within, Inside
<1>9. holder[l] # None => at'[holder[l]] \in {"granted", "gaveUp"} \cup Inside
  BY <1>1, <1>3, <1>7 DEF Within, Inside
<1>10. QED
  BY <1>1, <1>4, <1>8, <1>9

\* A call that comes takes the mutex, if it is free, or the last place in the line.
LEMMA ArriveKeepsLine ==
    ASSUME Orderly, NEW c \in Calls, Arrive(c)
    PROVE  Line'
<1> DEFINE l == dialogLatchMutex(c)
<1>1. l \in Lanes /\ lane' = [lane EXCEPT ![c] = l] /\ at[c] = "idle" /\ acquire(c, l)
  BY DEF Arrive, dialogLatchMutex, Lanes
<1> HIDE DEF l
<1>2. /\ \A k \in Lanes : queue[k] \in Seq(Calls) /\ holder[k] \in Calls \cup {None}
      /\ \A k \in Lanes : Len(queue[k]) \in Nat /\ DOMAIN queue[k] = 1..Len(queue[k])
      /\ \A k \in Lanes : \A i \in DOMAIN queue[k] : queue[k][i] \in Calls
      /\ holder \in [Lanes -> Calls \cup {None}] /\ queue \in [Lanes -> Seq(Calls)]
      /\ at \in [Calls -> Place] /\ lane \in [Calls -> Lanes] /\ c # None
  BY NoneIsNoCall DEF Orderly, TypeOK
<1>3. \A k \in Lanes : holder[k] # c /\ \A i \in DOMAIN queue[k] : queue[k][i] # c
  BY <1>1, <1>2 DEF Orderly, Line, Inside
<1>4. \A d \in Calls : d # c => at'[d] = at[d] /\ lane'[d] = lane[d]
  BY <1>1, <1>2 DEF acquire
<1>5. lane'[c] = l
  BY <1>1, <1>2
<1>6. CASE /\ holder[l] = None /\ holder' = [holder EXCEPT ![l] = c]
           /\ at' = [at EXCEPT ![c] = "granted"] /\ UNCHANGED queue
  <2>1. queue[l] = <<>> /\ DOMAIN queue[l] = {}
    BY <1>1, <1>6 DEF Orderly, Line
  <2>2. at'[c] = "granted" /\ holder'[l] = c
    BY <1>1, <1>2, <1>6
  <2>3. SUFFICES ASSUME NEW k \in Lanes
                 PROVE  /\ \A i \in DOMAIN queue[k] : /\ at'[queue[k][i]] \in {"queued", "gaveUp"}
                                                      /\ queue[k][i] # holder'[k]
                        /\ \A d \in Calls : at'[d] = "queued" /\ lane'[d] = k
                               => \E i \in DOMAIN queue[k] : queue[k][i] = d
                        /\ queue[k] # <<>> => holder'[k] # None
                        /\ holder'[k] # None
                             => at'[holder'[k]] \in {"granted", "gaveUp"} \cup Inside
    <3>1. \A k \in Lanes : \A i, j \in DOMAIN queue[k] : queue[k][i] = queue[k][j] => i = j
      BY DEF Orderly, Line
    <3>2. QED
      BY <1>6, <2>3, <3>1 DEF Line
  <2>4. CASE k = l
    <3>1. \A d \in Calls : lane[d] = l => at[d] # "queued"
      BY <1>1, <2>1 DEF Orderly, Line
    <3>2. QED
      BY <1>2, <1>4, <2>1, <2>2, <2>4, <3>1
  <2>5. CASE k # l
    <3>1. holder'[k] = holder[k]
      BY <1>1, <1>2, <1>6, <2>5
    <3>2. QED
      BY <1>2, <1>3, <1>4, <1>5, <2>5, <3>1 DEF Orderly, Line
  <2>6. QED
    BY <2>4, <2>5
<1>7. CASE /\ holder[l] # None /\ queue' = [queue EXCEPT ![l] = Append(queue[l], c)]
           /\ at' = [at EXCEPT ![c] = "queued"] /\ UNCHANGED holder
  <2>1. /\ at'[c] = "queued" /\ holder' = holder
        /\ \A k \in Lanes : queue'[k] = IF k = l THEN Append(queue[l], c) ELSE queue[k]
    BY <1>1, <1>2, <1>7
  <2> DEFINE n == Len(queue[l])
  <2>2. /\ n \in Nat /\ DOMAIN queue[l] = 1..n /\ DOMAIN Append(queue[l], c) = 1..(n + 1)
        /\ Append(queue[l], c)[n + 1] = c
        /\ \A i \in 1..n : Append(queue[l], c)[i] = queue[l][i]
    BY <1>1, <1>2
  <2>3. SUFFICES ASSUME NEW k \in Lanes
                 PROVE  /\ \A i, j \in DOMAIN queue'[k] : queue'[k][i] = queue'[k][j] => i = j
                        /\ \A i \in DOMAIN queue'[k] : /\ at'[queue'[k][i]] \in {"queued", "gaveUp"}
                                                       /\ queue'[k][i] # holder[k]
                        /\ \A d \in Calls : at'[d] = "queued" /\ lane'[d] = k
                               => \E i \in DOMAIN queue'[k] : queue'[k][i] = d
                        /\ queue'[k] # <<>> => holder[k] # None
                        /\ holder[k] # None
                             => at'[holder[k]] \in {"granted", "gaveUp"} \cup Inside
    BY <2>1 DEF Line
  <2>4. holder[k] # None => at'[holder[k]] \in {"granted", "gaveUp"} \cup Inside
    BY <1>2, <1>3, <1>4 DEF Orderly, Line
  <2>5. CASE k # l
    BY <1>2, <1>3, <1>4, <1>5, <2>1, <2>4, <2>5 DEF Orderly, Line
  <2>6. CASE k = l
    <3>1. queue'[k] = Append(queue[l], c) /\ DOMAIN queue'[k] = 1..(n + 1)
      BY <1>1, <2>1, <2>2, <2>6
    <3>2. \A i \in DOMAIN queue'[k] :
              \/ i \in DOMAIN queue[l] /\ queue'[k][i] = queue[l][i] /\ queue[l][i] # c
              \/ i = n + 1 /\ queue'[k][i] = c
      BY <1>1, <1>3, <2>2, <3>1
    <3>3. \A i \in DOMAIN queue[l] : i \in DOMAIN queue'[k] /\ queue'[k][i] = queue[l][i]
      BY <2>2, <3>1
    <3>4. \A i, j \in DOMAIN queue[l] : queue[l][i] = queue[l][j] => i = j
      BY <1>1 DEF Orderly, Line
    <3>5. \A i, j \in DOMAIN queue'[k] : queue'[k][i] = queue'[k][j] => i = j
      BY <3>2, <3>4
    <3>6. \A i \in DOMAIN queue'[k] : /\ at'[queue'[k][i]] \in {"queued", "gaveUp"}
                                      /\ queue'[k][i] # holder[k]
      <4>1. \A i \in DOMAIN queue[l] : /\ at[queue[l][i]] \in {"queued", "gaveUp"}
                                       /\ queue[l][i] # holder[l]
        BY <1>1 DEF Orderly, Line
      <4>2. QED
        <5>1. TAKE i \in DOMAIN queue'[k]
        <5>2. CASE queue'[k][i] = c
          BY <1>1, <1>3, <2>1, <2>6, <5>2
        <5>3. CASE i \in DOMAIN queue[l] /\ queue'[k][i] = queue[l][i] /\ queue[l][i] # c
          BY <1>1, <1>2, <1>4, <2>6, <4>1, <5>3
        <5>4. QED
          BY <3>2, <5>2, <5>3
    <3>7. \A d \in Calls : at'[d] = "queued" /\ lane'[d] = k
                             => \E i \in DOMAIN queue'[k] : queue'[k][i] = d
      <4>1. TAKE d \in Calls
      <4>2. HAVE at'[d] = "queued" /\ lane'[d] = k
      <4>3. CASE d = c
        BY <2>2, <3>1, <4>3
      <4>4. CASE d # c
        <5>1. PICK i \in DOMAIN queue[l] : queue[l][i] = d
          BY <1>1, <1>4, <2>6, <4>2, <4>4 DEF Orderly, Line
        <5>2. QED
          BY <3>3, <5>1
      <4>5. QED
        BY <4>3, <4>4
    <3>8. QED
      BY <1>7, <2>4, <2>6, <3>5, <3>6, <3>7
  <2>7. QED
    BY <2>5, <2>6
<1>8. QED
  BY <1>1, <1>6, <1>7 DEF acquire

LEMMA LineStep ==
    ASSUME Orderly, [Next]_vars
    PROVE  Line'
<1>1. ASSUME NEW c \in Calls, Refuse(c) \/ Expire(c) PROVE Line'
  <2>1. PICK p \in {"done", "gaveUp"} : /\ at' = [at EXCEPT ![c] = p]
                                        /\ \/ at[c] = "queued" /\ p = "gaveUp"
                                           \/ at[c] = "idle" /\ p = "done"
    BY <1>1 DEF Refuse, Expire
  <2>2. p \in Place /\ UNCHANGED <<lane, holder, queue>>
    BY <1>1 DEF Refuse, Expire, Place
  <2>3. QED
    BY <2>1, <2>2, MoveKeepsLine
<1>2. ASSUME NEW c \in Calls,
             \/ Start(c) \/ holdNavigationGap(c) \/ ensureBrowserConnected(c) \/ Connected(c)
             \/ CheckContext(c) \/ Built(c) \/ ReturnContext(c)
      PROVE  Line'
  <2>1. PICK p \in Inside : at' = [at EXCEPT ![c] = p]
    BY <1>2 DEF Start, holdNavigationGap, ensureBrowserConnected, Connected, CheckContext,
       Built, ReturnContext, Inside
  <2>2. (at[c] = "granted" \/ Within(c)) /\ UNCHANGED <<lane, holder, queue>>
    BY <1>2 DEF Start, holdNavigationGap, ensureBrowserConnected, Connected, CheckContext,
       Built, ReturnContext, Inside, Within
  <2>3. p \in Place
    BY DEF Place
  <2>4. QED
    BY <2>1, <2>2, <2>3, MoveKeepsLine
<1>3. ASSUME NEW c \in Calls, LateGuard(c) PROVE Line'
  BY <1>3, ReleaseKeepsLine DEF LateGuard
<1>4. ASSUME NEW c \in Calls, Done(c) \/ Fail(c) PROVE Line'
  <2>1. Within(c) /\ \E navigated \in BOOLEAN : Finish(c, navigated)
    BY <1>4 DEF Done, Fail, Within, Inside
  <2>2. holder[lane[c]] = c
    BY <2>1 DEF Orderly, InsideHolds
  <2>3. release(lane[c]) /\ at' = Moved(c, "done") /\ lane' = lane
    BY <2>1 DEF Finish
  <2>4. QED
    BY <2>1, <2>2, <2>3, ReleaseKeepsLine
<1>5. CASE UNCHANGED funnelVars
  BY <1>5 DEF funnelVars, Orderly, Line
<1>6. QED
  BY <1>1, <1>2, <1>3, <1>4, <1>5, ArriveKeepsLine
  DEF Next, Move, GapPasses, LinkDrops, AllDone, vars

LEMMA AlwaysOrderly == Spec => []Orderly
<1>1. Init => QueuesKnown /\ InsideHolds /\ Line
  BY NoneIsNoCall DEF Init, QueuesKnown, InsideHolds, Line, Within, Inside
<1>2. TypeOK /\ QueuesKnown /\ InsideHolds /\ Line /\ [Next]_vars
        => QueuesKnown' /\ InsideHolds' /\ Line'
  BY InsideHoldsStep, LineStep DEF Orderly
<1>3. TypeOK /\ QueuesKnown /\ InsideHolds /\ Line => Orderly
  BY DEF Orderly
<1>4. QED
  BY <1>1, <1>2, <1>3, TypeCorrect, PTL DEF Spec

\* What the turnstiles see of the calls: nothing changes for them where each call
\* waits or not as before, in the same line, and nobody new is inside.
LEMMA Unseen ==
    ASSUME \A d \in Calls : Waits(d)' = Waits(d) /\ (Waits(d) => lane'[d] = lane[d]),
           \A d, e \in Calls : ComesBefore(d, e)' = ComesBefore(d, e)
    PROVE  Waiting' = Waiting /\ Ahead' = Ahead
  BY DEF Waiting, Ahead

\* One call leaves the line, the others stand as they stood.
LEMMA LeavesTheLine ==
    ASSUME Orderly, NEW c \in Calls, Waits(c), UNCHANGED <<lane, queue>>,
           NEW p \in Place, at' = [at EXCEPT ![c] = p], p \notin {"queued", "granted"}
    PROVE  Gate!Leaves(lane[c], c)
<1>1. \A d \in Calls : at'[d] = IF d = c THEN p ELSE at[d]
  BY DEF Orderly, TypeOK
<1>2. lane[c] \in Lanes
  BY DEF Orderly, TypeOK
<1>3. \A d \in Calls : Waits(d)' <=> d # c /\ Waits(d)
  BY <1>1 DEF Waits
<1>4. \A d, e \in Calls : ComesBefore(d, e)' <=> c # d /\ c # e /\ ComesBefore(d, e)
  BY <1>1, <1>3 DEF ComesBefore, Waits
<1>5. Waiting' = [Waiting EXCEPT ![lane[c]] = @ \ {c}]
  BY <1>2, <1>3 DEF Waiting
<1>6. Ahead' = {q \in Ahead : c # q[1] /\ c # q[2]}
  BY <1>4 DEF Ahead
<1>7. c \in Waiting[lane[c]]
  BY <1>2 DEF Waiting
<1>8. QED
  BY <1>5, <1>6, <1>7 DEF Gate!Leaves

\* A release changes nothing before the turnstile: whom it grants was the first,
\* a place given up is no one's.  Behind it there is nobody then.
LEMMA ReleaseUnseen ==
    ASSUME Orderly, NEW c \in Calls, NEW p \in {"done", "gaveUp"},
           holder[lane[c]] = c, at[c] = "gaveUp" \/ Within(c),
           release(lane[c]), at' = Moved(c, p), lane' = lane
    PROVE  /\ Waiting' = Waiting /\ Ahead' = Ahead
           /\ LetIn' = [LetIn EXCEPT ![lane[c]] = None]
<1> DEFINE l == lane[c]
<1>1. /\ l \in Lanes /\ queue \in [Lanes -> Seq(Calls)] /\ lane \in [Calls -> Lanes]
      /\ holder \in [Lanes -> Calls \cup {None}] /\ c # None
      /\ queue' \in [Lanes -> Seq(Calls)] /\ holder' \in [Lanes -> Calls \cup {None}]
  BY NoneIsNoCall, ReleaseType DEF Orderly, TypeOK
<1>2. \A d \in Calls : lane[d] \in Lanes
  BY <1>1
<1>3. \A d \in Calls :
          IF d = c THEN at'[d] = p
          ELSE IF at[d] = "queued" /\ holder'[l] = d THEN at'[d] = "granted"
          ELSE at'[d] = at[d]
  BY ReleaseGrants
<1>4. \A d \in Calls : at[d] = "granted" => lane[d] # l
  BY ReleaseGrants
<1>5. \A d \in Calls : Waits(d)' = Waits(d)
  BY <1>3 DEF Waits, Within, Inside
<1>6. holder'[l] # None => lane[holder'[l]] = l /\ holder'[l] \in Calls
  BY <1>1, ReleaseHands DEF Orderly
<1>7. \A d, e \in Calls : ComesBefore(d, e)' = ComesBefore(d, e)
  <2>1. TAKE d, e \in Calls
  <2>2. CASE lane[d] # l
    <3>1. queue'[lane[d]] = queue[lane[d]]
      BY <1>1, <1>2, <2>2, ReleaseShifts
    <3>2. lane[e] = lane[d] => at'[e] = at[e] /\ at'[d] = at[d]
      BY <1>3, <1>6, <2>2, NoneIsNoCall
    <3>3. QED
      BY <1>5, <3>1, <3>2 DEF ComesBefore
  <2>3. CASE lane[d] = l /\ ~(Waits(d) /\ lane[e] = l /\ at[e] = "queued")
    <3>1. at'[e] = "queued" => at[e] = "queued"
      BY <1>3
    <3>2. QED
      BY <1>5, <2>3, <3>1 DEF ComesBefore
  <2>4. CASE lane[d] = l /\ Waits(d) /\ lane[e] = l /\ at[e] = "queued"
    <3> DEFINE Before(q) == \E i, j \in DOMAIN q : i < j /\ q[i] = d /\ q[j] = e
    <3>1. at[d] = "queued"
      BY <1>4, <2>4 DEF Waits
    <3>2. PICK j \in DOMAIN queue[l] : queue[l][j] = e
      BY <1>1, <2>4 DEF Orderly, Line
    <3>3. PICK i \in DOMAIN queue[l] : queue[l][i] = d
      BY <1>1, <2>4, <3>1 DEF Orderly, Line
    <3>4. \A m, n \in DOMAIN queue[l] : queue[l][m] = queue[l][n] => m = n
      BY <1>1 DEF Orderly, Line
    <3>5. /\ holder'[l] = queue[l][1] /\ queue[l][1] \in Calls /\ 1 \in DOMAIN queue[l]
          /\ \A m \in DOMAIN queue'[l] : m + 1 \in DOMAIN queue[l]
                                         /\ queue'[l][m] = queue[l][m + 1]
          /\ \A m \in DOMAIN queue[l] : m # 1 => m - 1 \in DOMAIN queue'[l]
      <4>1. DOMAIN queue[l] # {}
        BY <3>2
      <4>2. queue[l] # <<>>
        BY <4>1
      <4>3. QED
        BY <1>1, <4>2, ReleaseShifts
    <3>6. DOMAIN queue[l] \subseteq Nat \ {0} /\ DOMAIN queue'[l] \subseteq Nat \ {0}
      <4>1. queue[l] \in Seq(Calls) /\ queue'[l] \in Seq(Calls)
        BY <1>1
      <4>2. QED
        BY <4>1
    <3>7. ComesBefore(d, e) <=> i < j
      BY <2>4, <3>1, <3>2, <3>3, <3>4 DEF ComesBefore
    <3>8. CASE j = 1
      <4>1. at'[e] # "queued"
        BY <1>3, <2>4, <3>2, <3>5, <3>8
      <4>2. ~(i < j)
        BY <3>3, <3>6, <3>8
      <4>3. QED
        BY <3>7, <4>1, <4>2 DEF ComesBefore
    <3>9. CASE j # 1
      <4>1. e # holder'[l] /\ e # c /\ at'[e] = "queued"
        BY <1>3, <2>4, <3>2, <3>4, <3>5, <3>9 DEF Within, Inside
      <4>2. Waits(d)' /\ lane'[d] = l /\ lane'[e] = l
        BY <1>5, <2>4
      <4>3. CASE i = 1
        <5>1. at'[d] = "granted"
          BY <1>3, <3>1, <3>3, <3>5, <4>3 DEF Within, Inside
        <5>2. i < j
          BY <3>2, <3>6, <3>9, <4>3
        <5>3. QED
          BY <3>7, <4>1, <4>2, <5>1, <5>2 DEF ComesBefore
      <4>4. CASE i # 1
        <5>1. d # holder'[l] /\ d # c /\ at'[d] = "queued"
          BY <1>3, <3>1, <3>3, <3>4, <3>5, <4>4 DEF Within, Inside
        <5>2. /\ i - 1 \in DOMAIN queue'[l] /\ queue'[l][i - 1] = d
              /\ j - 1 \in DOMAIN queue'[l] /\ queue'[l][j - 1] = e
          BY <3>2, <3>3, <3>5, <3>6, <3>9, <4>4
        <5>3. \A m \in DOMAIN queue'[l] : /\ queue'[l][m] = d => m + 1 = i
                                          /\ queue'[l][m] = e => m + 1 = j
          BY <3>2, <3>3, <3>4, <3>5
        <5>4. (\E m, n \in DOMAIN queue'[l] : m < n /\ queue'[l][m] = d /\ queue'[l][n] = e)
                <=> i < j
          BY <3>2, <3>3, <3>6, <5>2, <5>3
        <5>5. QED
          BY <3>7, <4>1, <4>2, <5>1, <5>4 DEF ComesBefore
      <4>5. QED
        BY <4>3, <4>4
    <3>10. QED
      BY <3>8, <3>9
  <2>5. QED
    BY <2>2, <2>3, <2>4
<1>8. Waiting' = Waiting /\ Ahead' = Ahead
  BY <1>5, <1>7, Unseen
<1>9. LetIn' = [LetIn EXCEPT ![l] = None]
  <2>1. SUFFICES ASSUME NEW k \in Lanes
                 PROVE  LetIn'[k] = IF k = l THEN None ELSE LetIn[k]
    BY DEF LetIn
  <2>2. CASE k = l
    <3>1. holder'[l] # None => holder'[l] # c
      <4>1. queue[l] # <<>> => 1 \in DOMAIN queue[l] /\ queue[l][1] # holder[l]
        <5>1. queue[l] # <<>> => 1 \in DOMAIN queue[l]
          BY <1>1, ReleaseShifts
        <5>2. QED
          BY <1>1, <5>1 DEF Orderly, Line
      <4>2. QED
        BY <1>1, <4>1, ReleaseShifts
    <3>2. holder'[l] # None => at[holder'[l]] \in {"queued", "gaveUp"}
      <4>1. queue[l] # <<>> => at[queue[l][1]] \in {"queued", "gaveUp"}
        <5>1. queue[l] # <<>> => 1 \in DOMAIN queue[l]
          BY <1>1, ReleaseShifts
        <5>2. QED
          BY <1>1, <5>1 DEF Orderly, Line
      <4>2. QED
        BY <1>1, <4>1, ReleaseShifts
    <3>3. holder'[l] # None => ~Within(holder[l])' /\ at'[holder'[l]] \in {"granted", "gaveUp"}
      BY <1>3, <1>6, <3>1, <3>2 DEF Within, Inside
    <3>4. QED
      BY <1>1, <2>2, <3>3 DEF LetIn
  <2>3. CASE k # l
    <3>1. holder'[k] = holder[k]
      BY <1>1, <2>3, ReleaseShifts
    <3>2. holder[k] # None => holder[k] \in Calls /\ lane[holder[k]] = k
      BY <1>1 DEF Orderly, QueuesKnown
    <3>3. holder[k] # None => at'[holder[k]] = at[holder[k]]
      BY <1>3, <1>6, <2>3, <3>2
    <3>4. QED
      BY <2>3, <3>1, <3>3 DEF LetIn, Within
  <2>4. QED
    BY <2>2, <2>3
<1>10. QED
  BY <1>8, <1>9

LEMMA ArriveQueues ==
    ASSUME Orderly, NEW c \in Calls, Arrive(c)
    PROVE  Gate!Queue(dialogLatchMutex(c), c)
<1> DEFINE l == dialogLatchMutex(c)
<1>1. l \in Lanes /\ lane' = [lane EXCEPT ![c] = l] /\ at[c] = "idle" /\ acquire(c, l)
  BY DEF Arrive, dialogLatchMutex, Lanes
<1> HIDE DEF l
<1>2. /\ \A k \in Lanes : queue[k] \in Seq(Calls) /\ holder[k] \in Calls \cup {None}
      /\ \A k \in Lanes : Len(queue[k]) \in Nat /\ DOMAIN queue[k] = 1..Len(queue[k])
      /\ holder \in [Lanes -> Calls \cup {None}] /\ queue \in [Lanes -> Seq(Calls)]
      /\ at \in [Calls -> Place] /\ lane \in [Calls -> Lanes] /\ c # None
  BY NoneIsNoCall DEF Orderly, TypeOK
<1>3. \A k \in Lanes : holder[k] # c /\ \A i \in DOMAIN queue[k] : queue[k][i] # c
  BY <1>1, <1>2 DEF Orderly, Line, Inside
<1>4. \A d \in Calls : d # c => at'[d] = at[d] /\ lane'[d] = lane[d]
  BY <1>1, <1>2 DEF acquire
<1>5. lane'[c] = l /\ at'[c] \in {"queued", "granted"}
  BY <1>1, <1>2 DEF acquire
<1>6. \A d \in Calls : Waits(d)' <=> d = c \/ Waits(d)
  BY <1>4, <1>5 DEF Waits
<1>7. ~Waits(c)
  BY <1>1 DEF Waits
<1>8. Waiting' = [Waiting EXCEPT ![l] = @ \cup {c}]
  BY <1>1, <1>4, <1>5, <1>6, <1>7 DEF Waiting
<1>9. \A k \in Lanes : c \notin Waiting[k]
  BY <1>7 DEF Waiting
<1>10. Ahead' = Ahead \cup (Waiting[l] \X {c})
  <2>1. SUFFICES ASSUME NEW d \in Calls, NEW e \in Calls
                 PROVE  ComesBefore(d, e)' <=>
                          \/ ComesBefore(d, e)
                          \/ e = c /\ Waits(d) /\ lane[d] = l
    <3>1. \A d, e \in Calls : ComesBefore(d, e)' <=>
                                ComesBefore(d, e) \/ (e = c /\ Waits(d) /\ lane[d] = l)
      BY <2>1
    <3>2. \A d, e \in Calls : <<d, e>> \in Waiting[l] \X {c} <=>
                                e = c /\ Waits(d) /\ lane[d] = l
      BY <1>1 DEF Waiting
    <3>3. Waiting[l] \X {c} \subseteq Calls \X Calls
      BY <1>1 DEF Waiting
    <3>4. QED
      BY <3>1, <3>2, <3>3 DEF Ahead
  <2>2. CASE /\ holder[l] = None /\ at' = [at EXCEPT ![c] = "granted"] /\ UNCHANGED queue
    <3>1. queue[l] = <<>> /\ DOMAIN queue[l] = {}
      BY <1>1, <2>2 DEF Orderly, Line
    <3>2. \A a \in Calls : lane[a] = l => ~Waits(a)
      <4>1. \A a \in Calls : lane[a] = l => at[a] # "queued"
        BY <1>1, <3>1 DEF Orderly, Line
      <4>2. \A a \in Calls : lane[a] = l => at[a] # "granted"
        BY <1>2, <2>2, NoneIsNoCall DEF Orderly, InsideHolds
      <4>3. QED
        BY <4>1, <4>2 DEF Waits
    <3>3. at'[c] = "granted"
      BY <1>2, <2>2
    <3>4. CASE e = c
      BY <1>7, <3>2, <3>3, <3>4, <1>1 DEF ComesBefore
    <3>5. CASE e # c /\ d = c
      BY <1>4, <1>5, <1>7, <3>2, <3>5 DEF ComesBefore, Waits
    <3>6. CASE e # c /\ d # c
      BY <1>4, <1>6, <2>2, <3>6 DEF ComesBefore
    <3>7. QED
      BY <3>4, <3>5, <3>6
  <2>3. CASE /\ queue' = [queue EXCEPT ![l] = Append(queue[l], c)]
             /\ at' = [at EXCEPT ![c] = "queued"]
    <3> DEFINE n == Len(queue[l])
               q == Append(queue[l], c)
    <3>1. /\ at'[c] = "queued"
          /\ \A k \in Lanes : queue'[k] = IF k = l THEN q ELSE queue[k]
      BY <1>1, <1>2, <2>3
    <3>2. /\ n \in Nat /\ DOMAIN queue[l] = 1..n /\ DOMAIN q = 1..(n + 1)
          /\ q[n + 1] = c /\ n + 1 \notin 1..n
          /\ \A i \in 1..n : q[i] = queue[l][i] /\ i < n + 1
      BY <1>1, <1>2
    <3>3. \A i \in DOMAIN q : q[i] = c => i = n + 1
      BY <1>1, <1>3, <3>2
    <3> HIDE DEF n, q
    <3>4. CASE e = c /\ d # c
      <4>1. at[e] # "queued" /\ lane'[d] = lane[d] /\ at'[d] = at[d] /\ (Waits(d)' <=> Waits(d))
        BY <1>1, <1>4, <1>6, <3>4
      <4>2. Waits(d) /\ lane[d] = l => ComesBefore(d, e)'
        <5>1. HAVE Waits(d) /\ lane[d] = l
        <5>2. CASE at[d] = "granted"
          BY <1>5, <3>1, <3>4, <4>1, <5>1, <5>2 DEF ComesBefore
        <5>3. CASE at[d] = "queued"
          <6>1. PICK i \in DOMAIN queue[l] : queue[l][i] = d
            BY <1>1, <5>1, <5>3 DEF Orderly, Line
          <6>2. i \in DOMAIN q /\ n + 1 \in DOMAIN q /\ i < n + 1 /\ q[i] = d /\ q[n + 1] = e
            BY <3>2, <3>4, <6>1
          <6>3. queue'[lane'[d]] = q /\ Waits(d)' /\ at'[e] = "queued" /\ lane'[d] = lane'[e]
            BY <1>1, <1>5, <3>1, <3>4, <4>1, <5>1
          <6>4. QED
            BY <6>2, <6>3 DEF ComesBefore
        <5>4. QED
          BY <5>1, <5>2, <5>3 DEF Waits
      <4>3. ComesBefore(d, e)' => Waits(d) /\ lane[d] = l
        BY <1>5, <3>4, <4>1 DEF ComesBefore
      <4>4. QED
        BY <3>4, <4>1, <4>2, <4>3 DEF ComesBefore
    <3>5. CASE d = c
      <4>1. ~ComesBefore(d, e) /\ ~Waits(d)
        BY <1>7, <3>5 DEF ComesBefore
      <4>2. ~ComesBefore(d, e)'
        <5>1. SUFFICES ASSUME lane'[e] = l,
                              NEW i \in DOMAIN q, NEW j \in DOMAIN q, i < j, q[i] = c
                       PROVE  FALSE
          BY <1>1, <1>5, <3>1, <3>5 DEF ComesBefore
        <5>2. i = n + 1
          BY <3>3, <5>1
        <5>3. QED
          BY <3>2, <5>1, <5>2
      <4>3. QED
        BY <4>1, <4>2
    <3>6. CASE d # c /\ e # c
      <4>1. /\ at'[d] = at[d] /\ at'[e] = at[e] /\ lane'[d] = lane[d] /\ lane'[e] = lane[e]
            /\ (Waits(d)' <=> Waits(d)) /\ lane[d] \in Lanes
        BY <1>2, <1>4, <1>6, <3>6
      <4>2. (\E i, j \in DOMAIN queue'[lane[d]] :
                 i < j /\ queue'[lane[d]][i] = d /\ queue'[lane[d]][j] = e)
            <=> (\E i, j \in DOMAIN queue[lane[d]] :
                     i < j /\ queue[lane[d]][i] = d /\ queue[lane[d]][j] = e)
        <5>1. CASE lane[d] # l
          BY <3>1, <4>1, <5>1
        <5>2. CASE lane[d] = l
          <6>1. \A i \in DOMAIN q : q[i] # c => i \in DOMAIN queue[l] /\ q[i] = queue[l][i]
            BY <3>2
          <6>2. \A i \in DOMAIN queue[l] : i \in DOMAIN q /\ q[i] = queue[l][i]
            BY <3>2
          <6>3. queue'[lane[d]] = q
            BY <3>1, <4>1, <5>2
          <6>4. QED
            BY <3>6, <5>2, <6>1, <6>2, <6>3
        <5>3. QED
          BY <5>1, <5>2
      <4>3. QED
        BY <3>6, <4>1, <4>2 DEF ComesBefore
    <3>7. QED
      BY <3>4, <3>5, <3>6
  <2>4. QED
    BY <1>1, <2>2, <2>3 DEF acquire
<1>11. LetIn' = LetIn
  <2>1. SUFFICES ASSUME NEW k \in Lanes
                 PROVE  LetIn'[k] = LetIn[k]
    BY DEF LetIn
  <2>2. CASE holder'[k] = holder[k]
    BY <1>2, <1>3, <1>4, <2>2 DEF LetIn, Within
  <2>3. CASE holder'[k] # holder[k]
    <3>1. holder[k] = None /\ holder'[k] = c
      BY <1>1, <1>2, <2>3 DEF acquire
    <3>2. ~Within(c)'
      BY <1>5 DEF Within, Inside
    <3>3. QED
      BY <3>1, <3>2 DEF LetIn
  <2>4. QED
    BY <2>2, <2>3
<1>12. QED
  BY <1>8, <1>9, <1>10, <1>11 DEF Gate!Queue, l

\* The funnel does for its mutexes what the turnstiles promise: calls go in one by
\* one, in the order they came, those that gave up are passed over, and whoever
\* releases does so only from inside or on behalf of nobody (acquireWithinCeiling).
THEOREM ImplementsGate == Spec => GateSpec
<1>1. Init => Gate!Init
  BY NoneIsNoCall DEF Init, Gate!Init, Waiting, Ahead, LetIn, Waits, ComesBefore
<1>2. ASSUME Orderly, [Next]_vars PROVE [Gate!Next]_<<Waiting, Ahead, LetIn>>
  <2> USE <1>2
  <2>1. ASSUME NEW c \in Calls, Refuse(c) PROVE UNCHANGED <<Waiting, Ahead, LetIn>>
    <3>1. /\ at[c] = "idle" /\ \A d \in Calls : at'[d] = IF d = c THEN "done" ELSE at[d]
          /\ UNCHANGED <<lane, holder, queue>>
      BY <2>1 DEF Refuse, Orderly, TypeOK
    <3>2. \A d \in Calls : Waits(d)' = Waits(d) /\ Within(d)' = Within(d)
                           /\ (at'[d] = "queued" <=> at[d] = "queued")
                           /\ (at'[d] = "granted" <=> at[d] = "granted")
      BY <3>1 DEF Waits, Within, Inside
    <3>3. \A d, e \in Calls : ComesBefore(d, e)' = ComesBefore(d, e)
      BY <3>1, <3>2 DEF ComesBefore
    <3>4. \A k \in Lanes : holder[k] \in Calls \cup {None}
      BY DEF Orderly, TypeOK
    <3>5. LetIn' = LetIn
      BY <3>1, <3>2, <3>4 DEF LetIn
    <3>6. QED
      BY <3>1, <3>2, <3>3, <3>5, Unseen
  <2>2. ASSUME NEW c \in Calls, Arrive(c) PROVE Gate!Next
    BY <2>2, ArriveQueues DEF Gate!Next, dialogLatchMutex, Lanes
  <2>3. ASSUME NEW c \in Calls, Expire(c) PROVE Gate!Next
    <3>1. /\ at[c] = "queued" /\ at' = [at EXCEPT ![c] = "gaveUp"]
          /\ UNCHANGED <<lane, holder, queue>>
      BY <2>3 DEF Expire
    <3>2. Gate!Leaves(lane[c], c)
      BY <3>1, LeavesTheLine DEF Waits, Place
    <3>3. \A d \in Calls : Within(d)' = Within(d)
      BY <3>1 DEF Within, Inside, Orderly, TypeOK
    <3>4. \A k \in Lanes : holder[k] \in Calls \cup {None}
      BY DEF Orderly, TypeOK
    <3>5. LetIn' = LetIn
      BY <3>1, <3>3, <3>4 DEF LetIn
    <3>6. lane[c] \in Lanes
      BY DEF Orderly, TypeOK
    <3>7. QED
      BY <3>2, <3>5, <3>6 DEF Gate!Next, Gate!TurnAway
  <2>4. ASSUME NEW c \in Calls, Start(c) PROVE Gate!Next
    <3>1. PICK p \in {"gap", "ensure"} : at' = [at EXCEPT ![c] = p]
      BY <2>4 DEF Start
    <3>2. at[c] = "granted" /\ UNCHANGED <<lane, holder, queue>>
      BY <2>4 DEF Start
    <3>3. Gate!Leaves(lane[c], c)
      BY <3>1, <3>2, LeavesTheLine DEF Waits, Place, Inside
    <3>4. /\ holder[lane[c]] = c /\ lane[c] \in Lanes /\ c # None
          /\ \A k \in Lanes : holder[k] \in Calls \cup {None}
          /\ \A k \in Lanes : holder[k] # None => lane[holder[k]] = k
      BY <3>2, NoneIsNoCall DEF Orderly, InsideHolds, TypeOK, QueuesKnown
    <3>5. \A d \in Calls : at'[d] = IF d = c THEN p ELSE at[d]
      BY <3>1 DEF Orderly, TypeOK
    <3>6. Within(c)' /\ ~Within(c) /\ \A d \in Calls : d # c => Within(d)' = Within(d)
      BY <3>1, <3>2, <3>5 DEF Within, Inside
    <3>7. LetIn' = [LetIn EXCEPT ![lane[c]] = c]
      BY <3>2, <3>4, <3>6 DEF LetIn
    <3>8. LetIn[lane[c]] = None
      BY <3>4, <3>6 DEF LetIn
    <3>9. \A d \in Waiting[lane[c]] : <<d, c>> \notin Ahead
      BY <3>2 DEF Ahead, ComesBefore
    <3>10. QED
      BY <3>3, <3>4, <3>7, <3>8, <3>9 DEF Gate!Next, Gate!GoIn
  <2>5. ASSUME NEW c \in Calls,
               \/ holdNavigationGap(c) \/ ensureBrowserConnected(c) \/ Connected(c)
               \/ CheckContext(c) \/ Built(c) \/ ReturnContext(c)
        PROVE  UNCHANGED <<Waiting, Ahead, LetIn>>
    <3>1. PICK p \in Inside : at' = [at EXCEPT ![c] = p]
      BY <2>5 DEF holdNavigationGap, ensureBrowserConnected, Connected, CheckContext, Built,
         ReturnContext, Inside
    <3>2. Within(c) /\ UNCHANGED <<lane, holder, queue>>
      BY <2>5 DEF holdNavigationGap, ensureBrowserConnected, Connected, CheckContext, Built,
         ReturnContext, Inside, Within
    <3>3. \A d \in Calls : at'[d] = IF d = c THEN p ELSE at[d]
      BY <3>1 DEF Orderly, TypeOK
    <3>4. \A d \in Calls : Waits(d)' = Waits(d) /\ Within(d)' = Within(d)
                           /\ (at'[d] = "queued" <=> at[d] = "queued")
                           /\ (at'[d] = "granted" <=> at[d] = "granted")
      BY <3>2, <3>3 DEF Waits, Within, Inside
    <3>5. \A d, e \in Calls : ComesBefore(d, e)' = ComesBefore(d, e)
      BY <3>2, <3>4 DEF ComesBefore
    <3>6. \A k \in Lanes : holder[k] \in Calls \cup {None}
      BY DEF Orderly, TypeOK
    <3>7. LetIn' = LetIn
      BY <3>2, <3>4, <3>6 DEF LetIn
    <3>8. QED
      BY <3>2, <3>4, <3>5, <3>7, Unseen
  <2>6. ASSUME NEW c \in Calls, LateGuard(c) PROVE UNCHANGED <<Waiting, Ahead, LetIn>>
    <3>1. /\ Waiting' = Waiting /\ Ahead' = Ahead
          /\ LetIn' = [LetIn EXCEPT ![lane[c]] = None]
      BY <2>6, ReleaseUnseen DEF LateGuard
    <3>2. LetIn[lane[c]] = None
      BY <2>6 DEF LateGuard, LetIn, Orderly, TypeOK, Within, Inside
    <3>3. QED
      BY <3>1, <3>2 DEF LetIn
  <2>7. ASSUME NEW c \in Calls, Done(c) \/ Fail(c) PROVE Gate!Next
    <3>1. Within(c) /\ \E navigated \in BOOLEAN : Finish(c, navigated)
      BY <2>7 DEF Done, Fail, Within, Inside
    <3>2. holder[lane[c]] = c /\ lane[c] \in Lanes /\ c # None
      BY <3>1, NoneIsNoCall DEF Orderly, InsideHolds, TypeOK
    <3>3. release(lane[c]) /\ at' = Moved(c, "done") /\ lane' = lane
      BY <3>1 DEF Finish
    <3>4. /\ Waiting' = Waiting /\ Ahead' = Ahead
          /\ LetIn' = [LetIn EXCEPT ![lane[c]] = None]
      BY <3>1, <3>2, <3>3, ReleaseUnseen
    <3>5. LetIn[lane[c]] # None
      BY <3>1, <3>2 DEF LetIn
    <3>6. QED
      BY <3>2, <3>4, <3>5 DEF Gate!Next, Gate!GoOut
  <2>8. CASE UNCHANGED funnelVars
    BY <2>8 DEF funnelVars, Waiting, Ahead, LetIn, Waits, ComesBefore, Within
  <2>9. QED
    BY <2>1, <2>2, <2>3, <2>4, <2>5, <2>6, <2>7, <2>8
    DEF Next, Move, GapPasses, LinkDrops, AllDone, vars
<1>3. QED
  BY <1>1, <1>2, AlwaysOrderly, PTL DEF Spec, GateSpec, Gate!Spec
=============================================================================
