-------------------------- MODULE CallFilesProofs --------------------------
(***************************************************************************)
(* Proofs about CallFiles, for any finite set of calls and any browsers    *)
(* and names.                                                              *)
(*                                                                         *)
(* A step of the front takes one name for one file, gives the names of a   *)
(* set of files back, or leaves the names alone (NameStep).  Everything    *)
(* about names is proved of these three kinds of steps: a name's holders   *)
(* are counted, all its holders are of the browser that leased it          *)
(* (NamesInOrder), and what is claimed was not claimed before, because the *)
(* files of a call are planned in turn (InTurn).                           *)
(*                                                                         *)
(* The recording that runs and the staging files outlive a call.  The      *)
(* front learns of a recording only by answers it reads later, so what it  *)
(* has planned follows what the daemon records with the answers in between *)
(* (Followed, Mirrored).                                                   *)
(***************************************************************************)
EXTENDS CallFiles, FiniteSetTheorems, TLAPS

\* What callers ask for: a call writes at most two files.
Requests ==
    /\ kind \in [Calls -> Kinds]
    /\ browser \in [Calls -> Browsers]
    /\ \A c \in Calls :
         /\ \E n \in 0..2 : DOMAIN wants[c] = 1..n
         /\ kind[c] = "start" => DOMAIN wants[c] = 1..1

HoldersOf(n) == {f \in claimed : NameOf(f) = n}

\* A name's holders are counted, and all of the browser that has it.
NamesInOrder ==
    /\ \A n \in Names :
         /\ claims[n].holders = Cardinality(HoldersOf(n))
         /\ claims[n].session = None <=> HoldersOf(n) = {}
    /\ \A f \in claimed : IsNamed(f) /\ claims[NameOf(f)].session = BrowserOf(f)

\* The files of a call are claimed in turn.
InTurn ==
    \A c \in Calls :
        /\ at[c] = "away" => next[c] = 1
        /\ at[c] \in {"away", "planning"} => \A f \in claimed : f[1] = c => f[2] < next[c]

IInv == TypeOK /\ Requests /\ NamesInOrder /\ InTurn

-----------------------------------------------------------------------------
(* Sets of files *)

LEMMA FilesAreFinite == IsFiniteSet(Files) /\ Cardinality(Files) \in Nat
<1>1. IsFiniteSet(1..2)
  <2>1. \A a, b \in Int : IsFiniteSet(a..b)
    BY FS_Interval
  <2>2. 1 \in Int /\ 2 \in Int
    OBVIOUS
  <2>3. QED
    BY <2>1, <2>2, Zenon
<1>2. QED
  BY <1>1, CallsAreFinite, FS_Product, FS_CardinalityType DEF Files

LEMMA HoldersAreFew ==
    ASSUME claimed \subseteq Files, NEW n
    PROVE  /\ IsFiniteSet(HoldersOf(n)) /\ Cardinality(HoldersOf(n)) \in Nat
           /\ Cardinality(HoldersOf(n)) <= Cardinality(Files)
<1>1. HoldersOf(n) \in SUBSET Files
  BY DEF HoldersOf
<1>2. QED
  BY <1>1, FilesAreFinite, FS_Subset, FS_CardinalityType

LEMMA TwoFiles ==
    ASSUME Requests, NEW c \in Calls
    PROVE  DOMAIN wants[c] \subseteq 1..2
BY DEF Requests

\* Every file a call wants is one of Files.
LEMMA WantedAreFiles ==
    ASSUME Requests, NEW c \in Calls
    PROVE  Wanted(c) \subseteq Files
BY TwoFiles DEF Wanted, Files

LEMMA RecordingIsFile ==
    ASSUME TypeOK, NEW b \in Browsers
    PROVE  Recording(b) \subseteq Files
BY DEF TypeOK, Recording

-----------------------------------------------------------------------------
(* Steps that touch names *)

\* A release takes its files out of the holders of every name.
LEMMA Release ==
    ASSUME TypeOK, NamesInOrder, NEW S, releaseOutputNames(S), request' = request
    PROVE  claims' \in [Names -> Claim] /\ claimed' \subseteq Files /\ NamesInOrder'
<1> DEFINE Let(n) == {f \in S \cap claimed : NameOf(f) = n}
<1> DEFINE Kept(n) == HoldersOf(n) \ Let(n)
<1>1. ASSUME NEW n \in Names
      PROVE  /\ HoldersOf(n)' = Kept(n)
             /\ Cardinality(Kept(n)) = Cardinality(HoldersOf(n)) - HeldOf(S, n)
             /\ Cardinality(Kept(n)) \in Nat /\ HeldOf(S, n) \in Nat
             /\ Cardinality(HoldersOf(n)) \in Nat
             /\ (Cardinality(Kept(n)) = 0 <=> Kept(n) = {})
             /\ Cardinality(Kept(n)) <= Cardinality(Files)
  <2>1. HoldersOf(n)' = Kept(n)
    BY DEF HoldersOf, releaseOutputNames, NameOf, request
  <2>2. IsFiniteSet(HoldersOf(n)) /\ Cardinality(HoldersOf(n)) \in Nat
    BY HoldersAreFew DEF TypeOK
  <2>3. Let(n) \in SUBSET HoldersOf(n)
    BY DEF HoldersOf
  <2>4. IsFiniteSet(Let(n)) /\ Cardinality(Let(n)) \in Nat
    BY <2>2, <2>3, FS_Subset, FS_CardinalityType
  <2>5. HoldersOf(n) \cap Let(n) = Let(n)
    BY <2>3
  <2>6. /\ IsFiniteSet(Kept(n))
        /\ Cardinality(Kept(n)) = Cardinality(HoldersOf(n)) - Cardinality(Let(n))
    <3>1. /\ IsFiniteSet(HoldersOf(n) \ Let(n))
          /\ Cardinality(HoldersOf(n) \ Let(n))
               = Cardinality(HoldersOf(n)) - Cardinality(HoldersOf(n) \cap Let(n))
      BY <2>2, FS_Difference
    <3>2. QED
      BY <2>5, <3>1
  <2>7. Kept(n) \in SUBSET Files
    BY DEF HoldersOf, TypeOK
  <2>8. Cardinality(Kept(n)) \in Nat /\ Cardinality(Kept(n)) <= Cardinality(Files)
    BY <2>6, <2>7, FilesAreFinite, FS_Subset, FS_CardinalityType
  <2>9. Cardinality(Kept(n)) = 0 <=> Kept(n) = {}
    BY <2>6, FS_EmptySet
  <2>10. QED
    BY <2>1, <2>2, <2>4, <2>6, <2>8, <2>9 DEF HeldOf
<1>2. ASSUME NEW n \in Names
      PROVE  /\ claims'[n] \in Claim
             /\ claims'[n].holders = Cardinality(Kept(n))
             /\ claims'[n].session = None <=> Kept(n) = {}
             /\ Kept(n) # {} => claims'[n].session = claims[n].session
  <2>1. /\ claims[n] \in Claim /\ claims[n].holders = Cardinality(HoldersOf(n))
        /\ claims[n].session = None <=> HoldersOf(n) = {}
    BY DEF TypeOK, NamesInOrder
  <2>2. CASE claims[n].holders <= HeldOf(S, n)
    <3>1. Cardinality(Kept(n)) = 0
      BY <1>1, <2>1, <2>2
    <3>2. claims'[n] = Free
      BY <2>2 DEF releaseOutputNames
    <3>3. QED
      BY <1>1, <3>1, <3>2, FilesAreFinite DEF Free, Claim
  <2>3. CASE ~(claims[n].holders <= HeldOf(S, n))
    <3>1. claims'[n] = [claims[n] EXCEPT !.holders = claims[n].holders - HeldOf(S, n)]
      BY <2>3 DEF releaseOutputNames
    <3>2. Kept(n) # {} /\ HoldersOf(n) # {}
      <4>1. Cardinality(Kept(n)) # 0
        BY <1>1, <2>1, <2>3
      <4>2. Kept(n) # {}
        BY <1>1, <4>1
      <4>3. QED
        BY <4>2
    <3>3. claims'[n].holders = Cardinality(Kept(n)) /\ claims'[n].session = claims[n].session
      BY <1>1, <2>1, <3>1 DEF Claim
    <3>4. claims'[n] \in Claim
      BY <1>1, <2>1, <3>1, <3>3, FilesAreFinite DEF Claim
    <3>5. QED
      BY <2>1, <3>2, <3>3, <3>4
  <2>4. QED
    BY <2>2, <2>3
<1>3. claims' \in [Names -> Claim]
  BY <1>2 DEF releaseOutputNames
<1>4. claimed' = claimed \ S
  BY DEF releaseOutputNames
<1>5. ASSUME NEW f \in claimed' PROVE IsNamed(f)' /\ claims'[NameOf(f)'].session = BrowserOf(f)'
  <2>1. /\ f \in claimed /\ f \notin S /\ NameOf(f)' = NameOf(f) /\ BrowserOf(f)' = BrowserOf(f)
        /\ NameOf(f) \in Names /\ claims[NameOf(f)].session = BrowserOf(f)
    BY <1>4 DEF NamesInOrder, IsNamed, NameOf, BrowserOf, request
  <2>2. f \in Kept(NameOf(f))
    BY <2>1 DEF HoldersOf
  <2>3. QED
    BY <1>2, <2>1, <2>2 DEF IsNamed
<1>6. QED
  BY <1>1, <1>2, <1>3, <1>4, <1>5 DEF NamesInOrder, TypeOK

\* A claim adds one holder, of the browser that has the name by then.
LEMMA ClaimOne ==
    ASSUME TypeOK, Requests, NamesInOrder, NEW f \in Files \ claimed, IsNamed(f), MayClaim(f),
           claimOutputName(f), request' = request
    PROVE  claims' \in [Names -> Claim] /\ claimed' \subseteq Files /\ NamesInOrder'
<1> PICK n \in Names : n = NameOf(f)
  BY DEF IsNamed
<1>1. n = NameOf(f) /\ BrowserOf(f) \in Browsers /\ BrowserOf(f) # None
  BY NoneIsNone DEF IsNamed, BrowserOf, Requests, Files
<1>2. claims' = [claims EXCEPT ![n] = [session |-> BrowserOf(f), holders |-> claims[n].holders + 1]]
  BY DEF claimOutputName
<1>3. claimed' = claimed \cup {f} /\ claimed' \subseteq Files
  BY DEF claimOutputName, TypeOK
<1>4. \A g : NameOf(g)' = NameOf(g) /\ BrowserOf(g)' = BrowserOf(g)
  BY DEF NameOf, BrowserOf, request
<1>5. HoldersOf(n)' = HoldersOf(n) \cup {f}
  BY <1>3, <1>4 DEF HoldersOf
<1>6. \A m \in Names : m # n => HoldersOf(m)' = HoldersOf(m)
  BY <1>3, <1>4 DEF HoldersOf
<1>7. f \notin HoldersOf(n)
  BY DEF HoldersOf
<1>8. Cardinality(HoldersOf(n)') = Cardinality(HoldersOf(n)) + 1 /\ HoldersOf(n)' # {}
  <2>1. IsFiniteSet(HoldersOf(n))
    BY HoldersAreFew DEF TypeOK
  <2>2. Cardinality(HoldersOf(n) \cup {f}) = Cardinality(HoldersOf(n)) + 1
    BY <1>7, <2>1, FS_AddElement
  <2>3. QED
    BY <1>5, <2>2
<1>9. Cardinality(HoldersOf(n)') \in 0..Cardinality(Files)
  <2>1. HoldersOf(n)' \in SUBSET Files
    BY <1>3 DEF HoldersOf
  <2>2. QED
    BY <2>1, FilesAreFinite, FS_Subset, FS_CardinalityType
<1>10. claims[n].holders = Cardinality(HoldersOf(n))
  BY <1>1 DEF NamesInOrder
<1>11. claims'[n] \in Claim /\ claims'[n].holders = Cardinality(HoldersOf(n)')
       /\ claims'[n].session = BrowserOf(f)
  BY <1>1, <1>2, <1>8, <1>9, <1>10 DEF Claim, TypeOK
<1>12. \A m \in Names : m # n => claims'[m] = claims[m]
  BY <1>2 DEF TypeOK
<1>13. claims' \in [Names -> Claim]
  BY <1>2, <1>11, <1>12 DEF TypeOK
<1>14. ASSUME NEW g \in claimed' PROVE IsNamed(g)' /\ claims'[NameOf(g)'].session = BrowserOf(g)'
  <2>1. CASE g = f
    BY <1>1, <1>4, <1>11, <2>1 DEF IsNamed
  <2>2. CASE g \in claimed /\ NameOf(g) = n
    <3>1. claims[n].session = BrowserOf(g) /\ IsNamed(g) /\ claims[n].session # None
      BY <1>1, <2>2 DEF NamesInOrder, HoldersOf
    <3>2. BrowserOf(g) = BrowserOf(f)
      BY <3>1 DEF MayClaim
    <3>3. QED
      BY <1>1, <1>4, <1>11, <2>2, <3>2 DEF IsNamed
  <2>3. CASE g \in claimed /\ NameOf(g) # n
    BY <1>4, <1>12, <2>3 DEF NamesInOrder, IsNamed
  <2>4. QED
    BY <1>3, <2>1, <2>2, <2>3
<1>15. ASSUME NEW m \in Names
       PROVE  /\ claims'[m].holders = Cardinality(HoldersOf(m)')
              /\ claims'[m].session = None <=> HoldersOf(m)' = {}
  <2>1. CASE m = n
    BY <1>1, <1>8, <1>11, <2>1
  <2>2. CASE m # n
    BY <1>6, <1>12, <2>2 DEF NamesInOrder
  <2>3. QED
    BY <2>1, <2>2
<1>16. QED
  BY <1>3, <1>13, <1>14, <1>15 DEF NamesInOrder

\* Of the steps of the model, which touch names, and how.
NameStep ==
    \/ UNCHANGED <<claimed, claims>>
    \/ \E S \in SUBSET Files : releaseOutputNames(S)
    \/ \E f \in Files \ claimed : /\ IsNamed(f) /\ MayClaim(f) /\ claimOutputName(f)
                                   /\ at[f[1]] = "planning" /\ f[2] = next[f[1]]

LEMMA Forgets ==
    ASSUME TypeOK, NEW b \in Browsers, forgetRecording(b)
    PROVE  NameStep
BY RecordingIsFile DEF forgetRecording, NameStep

LEMMA Steps ==
    ASSUME IInv, [Next]_vars
    PROVE  request' = request /\ NameStep
<1> USE DEF IInv
<1>1. ASSUME NEW c \in Calls, PlanOutputFile(c) PROVE request' = request /\ NameStep
  <2> DEFINE f == <<c, next[c]>>
  <2>1. f \in Files
    BY <1>1, TwoFiles DEF PlanOutputFile, Files
  <2>2. f \notin claimed
    <3>1. \A g \in claimed : g[1] = c => g[2] < next[c]
      BY <1>1 DEF PlanOutputFile, InTurn
    <3>2. f[1] = c /\ f[2] = next[c] /\ ~(next[c] < next[c])
      BY DEF TypeOK
    <3>3. QED
      BY <3>1, <3>2
  <2>3. CASE IsNamed(f)
    <3>1. MayClaim(f) /\ claimOutputName(f) /\ at[c] = "planning" /\ request' = request
      BY <1>1, <2>3 DEF PlanOutputFile, request
    <3>2. QED
      BY <2>1, <2>2, <2>3, <3>1 DEF NameStep
  <2>4. CASE ~IsNamed(f)
    BY <1>1, <2>4 DEF PlanOutputFile, NameStep, request
  <2>5. QED
    BY <2>3, <2>4
<1>2. ASSUME NEW c \in Calls, Arrive(c) \/ PlanFails(c) \/ Send(c) \/ Drive(c) \/ DescribeFile(c)
      PROVE  request' = request /\ NameStep
  BY <1>2 DEF Arrive, PlanFails, Send, Drive, DriveWrite, DriveStart, DriveStop, CarriedOut,
              DescribeFile, NameStep, planVars, request
<1>3. ASSUME NEW c \in Calls, Unplan(c) \/ Conclude(c) \/ Settle(c)
      PROVE  request' = request /\ NameStep
  <2>1. Taken(c) \in SUBSET Files /\ Wanted(c) \in SUBSET Files
    BY WantedAreFiles DEF Taken
  <2>2. QED
    BY <1>3, <2>1 DEF Unplan, Conclude, Settle, NameStep, request
<1>4. ASSUME NEW c \in Calls, CallFails(c) PROVE NameStep
  BY <1>4, Forgets DEF CallFails, Requests, NameStep, planVars
<1>5. ASSUME NEW c \in Calls, Unreachable(c) \/ Deadline(c) \/ ReadFailure(c)
      PROVE  request' = request /\ NameStep
  BY <1>4, <1>5 DEF Unreachable, Deadline, ReadFailure, Read, request
<1>6. ASSUME NEW c \in Calls, ReadWritten(c) \/ ReadStopped(c) \/ TakeRecording(c)
      PROVE  request' = request /\ NameStep
  BY <1>6, Forgets DEF ReadWritten, ReadStopped, Read, TakeRecording, Requests, NameStep, planVars,
                       request
<1>7. ASSUME NEW c \in Calls, ReadStarted(c) PROVE request' = request /\ NameStep
  BY <1>7, WantedAreFiles DEF ReadStarted, Read, Park, NameStep, request
<1>8. ASSUME NEW f \in Files, Unlink(f) \/ WriteFile(f) PROVE request' = request /\ NameStep
  BY <1>8 DEF Unlink, WriteFile, planVars, NameStep, request
<1>9. ASSUME NEW b \in Browsers, DaemonReplaced(b) PROVE request' = request /\ NameStep
  BY <1>9, Forgets DEF DaemonReplaced, request
<1>10. CASE AllOver \/ UNCHANGED vars
  BY <1>10 DEF AllOver, vars, planVars, NameStep, request
<1>11. QED
  BY <1>1, <1>2, <1>3, <1>5, <1>6, <1>7, <1>8, <1>9, <1>10 DEF Next, FrontStep

-----------------------------------------------------------------------------
(* The invariant is inductive *)

LEMMA NamesKept ==
    ASSUME IInv, [Next]_vars
    PROVE  claims' \in [Names -> Claim] /\ claimed' \subseteq Files /\ NamesInOrder'
<1> USE DEF IInv
<1>1. request' = request /\ NameStep
  BY Steps
<1>2. CASE UNCHANGED <<claimed, claims>>
  <2>1. /\ claims' = claims /\ claimed' = claimed
        /\ \A g : NameOf(g)' = NameOf(g) /\ BrowserOf(g)' = BrowserOf(g)
    BY <1>1, <1>2 DEF NameOf, BrowserOf, request
  <2>2. \A n : HoldersOf(n)' = HoldersOf(n)
    BY <2>1 DEF HoldersOf
  <2>3. QED
    BY <2>1, <2>2 DEF TypeOK, NamesInOrder, IsNamed
<1>3. CASE \E S \in SUBSET Files : releaseOutputNames(S)
  BY <1>1, <1>3, Release
<1>4. CASE \E f \in Files \ claimed : IsNamed(f) /\ MayClaim(f) /\ claimOutputName(f)
  BY <1>1, <1>4, ClaimOne
<1>5. QED
  BY <1>1, <1>2, <1>3, <1>4 DEF NameStep

\* What every step but PlanOutputFile keeps: no claim is added, and a call that is
\* still to be planned, or being planned, stands where it stood.
NoClaim ==
    /\ claimed' \subseteq claimed
    /\ \A c \in Calls : at'[c] \in {"away", "planning"} =>
          next'[c] = next[c] /\ (at'[c] = "away" => at[c] = "away")
                            /\ (at'[c] = "planning" => at[c] \in {"away", "planning"})

LEMMA NoClaims ==
    ASSUME TypeOK, [Next]_vars, ~\E c \in Calls : PlanOutputFile(c)
    PROVE  NoClaim
<1> USE DEF TypeOK, releaseOutputNames, forgetRecording, planVars
<1>1. ASSUME NEW c \in Calls, Arrive(c) \/ PlanFails(c) \/ Send(c) PROVE NoClaim
  BY <1>1 DEF Arrive, PlanFails, Send, NoClaim
<1>2. ASSUME NEW c \in Calls, Drive(c) PROVE NoClaim
  BY <1>2 DEF Drive, DriveWrite, DriveStart, DriveStop, CarriedOut, NoClaim
<1>3. ASSUME NEW c \in Calls, DescribeFile(c) PROVE NoClaim
  <2>1. at[c] = "describing" /\ UNCHANGED claimed
    BY <1>3 DEF DescribeFile
  <2>2. at' = at \/ at' = [at EXCEPT ![c] = "settling"]
    BY <1>3 DEF DescribeFile
  <2>3. next' = next \/ next' = [next EXCEPT ![c] = next[c] + 1]
    BY <1>3 DEF DescribeFile
  <2>4. QED
    BY <2>1, <2>2, <2>3 DEF NoClaim
<1>4. ASSUME NEW c \in Calls, Unplan(c) \/ Conclude(c) \/ Settle(c) PROVE NoClaim
  BY <1>4 DEF Unplan, Conclude, Settle, NoClaim
<1>5. ASSUME NEW c \in Calls, Unreachable(c) \/ Deadline(c) \/ ReadFailure(c) PROVE NoClaim
  BY <1>5 DEF Unreachable, Deadline, ReadFailure, Read, CallFails, NoClaim
<1>6. ASSUME NEW c \in Calls, ReadWritten(c) \/ ReadStopped(c) \/ TakeRecording(c) PROVE NoClaim
  BY <1>6 DEF ReadWritten, ReadStopped, Read, TakeRecording, NoClaim
<1>7. ASSUME NEW c \in Calls, ReadStarted(c) PROVE NoClaim
  BY <1>7 DEF ReadStarted, Read, Park, NoClaim
<1>8. ASSUME NEW f \in Files, Unlink(f) \/ WriteFile(f) PROVE NoClaim
  BY <1>8 DEF Unlink, WriteFile, NoClaim
<1>9. ASSUME NEW b \in Browsers, DaemonReplaced(b) PROVE NoClaim
  BY <1>9 DEF DaemonReplaced, NoClaim
<1>10. CASE AllOver \/ UNCHANGED vars
  BY <1>10 DEF AllOver, vars, NoClaim
<1>11. QED
  BY <1>1, <1>2, <1>3, <1>4, <1>5, <1>6, <1>7, <1>8, <1>9, <1>10 DEF Next, FrontStep

LEMMA InTurnKept ==
    ASSUME IInv, [Next]_vars
    PROVE  InTurn'
<1> USE DEF IInv
<1>1. CASE \E c \in Calls : PlanOutputFile(c)
  <2> PICK c \in Calls : PlanOutputFile(c)
    BY <1>1
  <2>1. /\ at[c] = "planning" /\ at' = at /\ next[c] \in Nat
        /\ next' = [next EXCEPT ![c] = next[c] + 1]
        /\ claimed' \subseteq claimed \cup {<<c, next[c]>>}
    BY DEF PlanOutputFile, claimOutputName, TypeOK
  <2>2. \A d \in Calls : at'[d] = "away" => next'[d] = 1
    BY <2>1 DEF InTurn, TypeOK
  <2>3. ASSUME NEW d \in Calls, at'[d] \in {"away", "planning"}, NEW f \in claimed', f[1] = d
        PROVE  f[2] < next'[d]
    <3>1. CASE f = <<c, next[c]>>
      BY <2>1, <2>3, <3>1 DEF TypeOK
    <3>2. CASE f \in claimed
      <4>1. f \in Files /\ f[2] \in Nat /\ f[2] < next[d] /\ next[d] \in Nat
        BY <2>1, <2>3, <3>2 DEF InTurn, TypeOK, Files
      <4>2. next'[d] = next[d] \/ next'[d] = next[d] + 1
        BY <2>1 DEF TypeOK
      <4>3. QED
        BY <4>1, <4>2
    <3>3. QED
      BY <2>1, <2>3, <3>1, <3>2
  <2>4. QED
    BY <2>2, <2>3 DEF InTurn
<1>2. CASE ~\E c \in Calls : PlanOutputFile(c)
  <2>1. NoClaim
    BY <1>2, NoClaims
  <2>2. QED
    BY <2>1 DEF NoClaim, InTurn
<1>3. QED
  BY <1>1, <1>2

LEMMA TypeKept ==
    ASSUME IInv, [Next]_vars
    PROVE  TypeOK'
<1> USE DEF IInv, TypeOK
<1>1. claims' \in [Names -> Claim] /\ claimed' \subseteq Files
  BY NamesKept
<1> DEFINE Done ==
      /\ at' \in [Calls -> Stage] /\ next' \in [Calls -> 1..3]
      /\ recordings' \in [Browsers -> Files \cup {None}] /\ taking' \in [Calls -> Files \cup {None}]
      /\ inDaemon' \subseteq Calls /\ answers' \in [Browsers -> Seq(Calls)] /\ ok' \subseteq Calls
      /\ recorder' \in [Browsers -> Files \cup {None}] /\ staged' \subseteq Files
      /\ content' \in [Names -> Files \cup {None}] /\ promoted' \subseteq Files
      /\ doomed' \subseteq Files /\ astray' \subseteq Calls /\ unreached' \subseteq Calls
      /\ crossed' \subseteq Browsers
<1>2. \A c \in Calls : browser[c] \in Browsers
  BY DEF Requests
<1>3. ASSUME NEW b \in Browsers, forgetRecording(b)
      PROVE  recordings' \in [Browsers -> Files \cup {None}] /\ doomed' \subseteq Files
  BY <1>3 DEF forgetRecording, Recording
<1>4. ASSUME NEW f \in Files, promoteFile(f)
      PROVE  /\ staged' \subseteq Files /\ promoted' \subseteq Files
             /\ content' \in [Names -> Files \cup {None}]
  BY <1>4 DEF promoteFile
<1>5. ASSUME NEW c \in Calls, Arrive(c) \/ PlanFails(c) \/ Send(c) PROVE Done
  <2>1. CASE Arrive(c)
    <3>1. crossed' \subseteq Browsers
      BY <1>2, <2>1 DEF Arrive
    <3>2. QED
      BY <2>1, <3>1 DEF Arrive, planVars, daemonVars, diskVars, Stage
  <2>2. CASE PlanFails(c)
    BY <2>2 DEF PlanFails, planVars, daemonVars, diskVars, history, Stage
  <2>3. CASE Send(c)
    BY <2>3 DEF Send, planVars, diskVars, history, Stage
  <2>4. QED
    BY <1>5, <2>1, <2>2, <2>3
<1>6. ASSUME NEW c \in Calls, PlanOutputFile(c) PROVE Done
  <2>1. next[c] \in 1..2
    BY <1>6, TwoFiles DEF PlanOutputFile
  <2>2. next' \in [Calls -> 1..3]
    BY <1>6, <2>1 DEF PlanOutputFile
  <2>3. QED
    BY <1>6, <2>2 DEF PlanOutputFile, daemonVars, diskVars, history
<1>7. ASSUME NEW c \in Calls, Unplan(c) \/ Conclude(c) \/ Settle(c) PROVE Done
  BY <1>7 DEF Unplan, Conclude, Settle, daemonVars, diskVars, history, Stage
<1>8. ASSUME NEW c \in Calls, CallFails(c)
      PROVE  /\ at' \in [Calls -> Stage] /\ doomed' \subseteq Files
             /\ recordings' \in [Browsers -> Files \cup {None}]
  BY <1>2, <1>3, <1>8 DEF CallFails, planVars, Stage
<1>9. ASSUME NEW c \in Calls, Unreachable(c) \/ Deadline(c) PROVE Done
  BY <1>8, <1>9 DEF Unreachable, Deadline, Unreached, daemonVars, diskVars
<1>10. ASSUME NEW c \in Calls, Read(c) PROVE answers' \in [Browsers -> Seq(Calls)]
  BY <1>2, <1>10 DEF Read
<1>11. ASSUME NEW c \in Calls, ReadFailure(c) \/ ReadWritten(c) PROVE Done
  BY <1>8, <1>10, <1>11 DEF ReadFailure, ReadWritten, Read, planVars, diskVars, history, Stage
<1>12. ASSUME NEW c \in Calls, ReadStarted(c) PROVE Done
  <2>1. recordings' = recordings \/ recordings' = [recordings EXCEPT ![browser[c]] = <<c, 1>>]
    BY <1>12 DEF ReadStarted, Park
  <2>2. <<c, 1>> \in Files
    BY DEF Files
  <2>3. recordings' \in [Browsers -> Files \cup {None}] /\ at' \in [Calls -> Stage]
    BY <1>2, <1>12, <2>1, <2>2 DEF ReadStarted, Stage
  <2>4. QED
    BY <1>10, <1>12, <2>3 DEF ReadStarted, Read, diskVars, history
<1>13. ASSUME NEW c \in Calls, ReadStopped(c) PROVE Done
  BY <1>2, <1>3, <1>10, <1>13 DEF ReadStopped, Read, planVars, diskVars, history, Stage
<1>14. ASSUME NEW c \in Calls, TakeRecording(c) PROVE Done
  <2>1. /\ recordings' \in [Browsers -> Files \cup {None}] /\ doomed' \subseteq Files
    BY <1>2, <1>3, <1>14 DEF TakeRecording
  <2>2. /\ staged' \subseteq Files /\ promoted' \subseteq Files
        /\ content' \in [Names -> Files \cup {None}]
    BY <1>4, <1>14 DEF TakeRecording, promoteFile, diskVars
  <2>3. QED
    BY <1>14, <2>1, <2>2 DEF TakeRecording, daemonVars, history, Stage
<1>15. ASSUME NEW c \in Calls, DescribeFile(c) PROVE Done
  <2>1. next[c] \in 1..2
    BY <1>15, TwoFiles DEF DescribeFile
  <2>2. next' \in [Calls -> 1..3] /\ at' \in [Calls -> Stage]
    <3>1. at' = at \/ at' = [at EXCEPT ![c] = "settling"]
      BY <1>15 DEF DescribeFile
    <3>2. next' = next \/ next' = [next EXCEPT ![c] = next[c] + 1]
      BY <1>15 DEF DescribeFile
    <3>3. at' \in [Calls -> Stage]
      BY <3>1 DEF Stage
    <3>4. next[c] + 1 \in 1..3
      BY <2>1
    <3>5. next' \in [Calls -> 1..3]
      BY <3>2, <3>4
    <3>6. QED
      BY <3>3, <3>5
  <2>3. /\ staged' \subseteq Files /\ promoted' \subseteq Files
        /\ content' \in [Names -> Files \cup {None}]
    BY <1>4, <1>15 DEF DescribeFile, promoteFile, diskVars
  <2>4. QED
    BY <1>15, <2>2, <2>3 DEF DescribeFile, planVars, daemonVars, history
<1>16. ASSUME NEW c \in Calls, Drive(c) PROVE Done
  <2>1. PICK fine \in BOOLEAN : DriveWrite(c, fine) \/ DriveStart(c, fine) \/ DriveStop(c, fine)
    BY <1>16 DEF Drive
  <2>2. CarriedOut(c, fine)
    BY <2>1 DEF DriveWrite, DriveStart, DriveStop
  <2>3. answers' \in [Browsers -> Seq(Calls)]
    BY <1>2, <2>2 DEF CarriedOut
  <2>4. inDaemon' \subseteq Calls /\ ok' \subseteq Calls
    BY <2>2 DEF CarriedOut
  <2>5. Wanted(c) \subseteq Files /\ <<c, 1>> \in Files
    BY WantedAreFiles DEF Files
  <2>6. /\ recorder' \in [Browsers -> Files \cup {None}] /\ staged' \subseteq Files
        /\ astray' \subseteq Calls /\ unreached' \subseteq Calls
    BY <1>2, <2>1, <2>5 DEF DriveWrite, DriveStart, DriveStop, Unreached
  <2>7. QED
    BY <2>2, <2>3, <2>4, <2>6 DEF CarriedOut, planVars
<1>17. ASSUME NEW f \in Files, Unlink(f) \/ WriteFile(f) PROVE Done
  BY <1>17 DEF Unlink, WriteFile, planVars, daemonVars, history
<1>18. ASSUME NEW b \in Browsers, DaemonReplaced(b) PROVE Done
  BY <1>3, <1>18 DEF DaemonReplaced, CrossesStop, diskVars
<1>19. CASE AllOver \/ UNCHANGED vars
  BY <1>19 DEF AllOver, vars, planVars, daemonVars, diskVars, history
<1>20. Done
  BY <1>5, <1>6, <1>7, <1>9, <1>11, <1>12, <1>13, <1>14, <1>15, <1>16, <1>17, <1>18, <1>19
     DEF Next, FrontStep
<1>21. QED
  BY <1>1, <1>20

LEMMA Starts == Init => IInv
<1> SUFFICES ASSUME Init PROVE IInv
  OBVIOUS
<1>1. Requests
  <2>1. ASSUME NEW c \in Calls
        PROVE  /\ \E n \in 0..2 : DOMAIN wants[c] = 1..n
               /\ kind[c] = "start" => DOMAIN wants[c] = 1..1
    <3>1. wants[c] \in NameLists(kind[c]) /\ kind[c] \in AllKinds
      BY KindsAreKinds DEF Init
    <3>2. CASE kind[c] = "pair"
      <4>1. DOMAIN wants[c] = 1..2
        BY <3>1, <3>2 DEF NameLists
      <4>2. QED
        BY <3>2, <4>1
    <3>3. CASE kind[c] \in {"write", "start"}
      <4>1. DOMAIN wants[c] = 1..1
        BY <3>1, <3>3 DEF NameLists
      <4>2. QED
        BY <3>3, <4>1
    <3>4. CASE kind[c] = "stop"
      <4>1. DOMAIN wants[c] = 1..0
        BY <3>1, <3>4 DEF NameLists
      <4>2. QED
        BY <3>4, <4>1
    <3>5. QED
      BY <3>1, <3>2, <3>3, <3>4 DEF AllKinds
  <2>2. QED
    BY <2>1 DEF Init, Requests
<1>2. \A n \in Names : HoldersOf(n) = {} /\ Cardinality(HoldersOf(n)) = 0
  BY FS_EmptySet DEF Init, HoldersOf
<1>3. TypeOK
  <2>1. Free \in Claim
    BY FilesAreFinite DEF Free, Claim
  <2>2. QED
    BY <2>1 DEF Init, TypeOK, Stage
<1>4. NamesInOrder
  BY <1>2 DEF Init, NamesInOrder, Free
<1>5. InTurn
  BY DEF Init, InTurn
<1>6. QED
  BY <1>1, <1>3, <1>4, <1>5 DEF IInv

LEMMA Inductive == Spec => []IInv
<1>1. IInv /\ [Next]_vars => IInv'
  <2> SUFFICES ASSUME IInv, [Next]_vars PROVE IInv'
    OBVIOUS
  <2>1. Requests'
    BY Steps DEF IInv, Requests, request
  <2>2. QED
    BY <2>1, NamesKept, InTurnKept, TypeKept DEF IInv
<1>2. QED
  BY <1>1, Starts, PTL DEF Spec

-----------------------------------------------------------------------------

\* Every variable keeps its type.
THEOREM TypeCorrect == Spec => []TypeOK
BY Inductive, PTL DEF IInv

\* A name is counted once for every file that holds it, and free with the last.
THEOREM HoldersCounted == Spec => []HoldersAreCounted
<1>1. IInv => HoldersAreCounted
  <2> SUFFICES ASSUME IInv, NEW n \in Names
               PROVE  /\ claims[n].holders = Cardinality(HoldersOf(n))
                      /\ claims[n].session = None <=> claims[n].holders = 0
    BY DEF HoldersAreCounted, HoldersOf
  <2>1. /\ claims[n].holders = Cardinality(HoldersOf(n))
        /\ claims[n].session = None <=> HoldersOf(n) = {}
    BY DEF IInv, NamesInOrder
  <2>2. Cardinality(HoldersOf(n)) = 0 <=> HoldersOf(n) = {}
    BY HoldersAreFew, FS_EmptySet DEF IInv, TypeOK
  <2>3. QED
    BY <2>1, <2>2
<1>2. QED
  BY <1>1, Inductive, PTL

-----------------------------------------------------------------------------
(* The leases *)

\* What Leases sees of the claims.
Lessee == [n \in Names |-> claims[n].session]
Users == [n \in Names |-> {<<BrowserOf(f), f>> : f \in HoldersOf(n)}]

LEMMA LeasesStart == ASSUME Init PROVE Leases!Init
<1>1. \A n \in Names : claims[n].session = None
  BY DEF Init, Free
<1>2. claimed = {}
  BY DEF Init
<1>3. QED
  BY <1>1, <1>2 DEF Leases!Init

\* A claim takes a lease, a release lets go of some, and the rest stutters.
LEMMA LeasesStep ==
    ASSUME IInv, NamesInOrder', [Next]_vars
    PROVE  [Leases!Next]_<<Lessee, Users>>
<1>1. request' = request /\ NameStep
  BY Steps
<1>2. \A f : BrowserOf(f)' = BrowserOf(f) /\ NameOf(f)' = NameOf(f)
  BY <1>1 DEF BrowserOf, NameOf, request
<1>3. CASE UNCHANGED <<claimed, claims>>
  <2>1. \A n : HoldersOf(n)' = HoldersOf(n)
    BY <1>2, <1>3 DEF HoldersOf
  <2>2. QED
    BY <1>2, <1>3, <2>1 DEF Lessee, Users
<1>4. CASE \E S \in SUBSET Files : releaseOutputNames(S)
  <2> PICK S \in SUBSET Files : releaseOutputNames(S)
    BY <1>4
  <2>1. \A n \in Names : Users'[n] \subseteq Users[n]
    BY <1>2 DEF Users, HoldersOf, releaseOutputNames
  <2>2. \A n \in Names : Users'[n] \subseteq Browsers \X Files
    BY <1>2 DEF Users, HoldersOf, IInv, TypeOK, Requests, BrowserOf, releaseOutputNames, Files
  <2>3. \A n \in Names : Users'[n] = {} <=> HoldersOf(n)' = {}
    BY DEF Users
  <2>4. ASSUME NEW n \in Names PROVE Lessee'[n] = IF Users'[n] = {} THEN None ELSE Lessee[n]
    <3>1. CASE HoldersOf(n)' = {}
      BY <2>3, <3>1 DEF Lessee, NamesInOrder
    <3>2. CASE HoldersOf(n)' # {}
      <4>1. PICK f \in claimed' : NameOf(f)' = n
        BY <3>2 DEF HoldersOf
      <4>2. f \in claimed /\ NameOf(f) = n
        BY <1>2, <4>1 DEF releaseOutputNames
      <4>3. claims'[n].session = BrowserOf(f) /\ claims[n].session = BrowserOf(f)
        BY <1>2, <4>1, <4>2 DEF IInv, NamesInOrder
      <4>4. QED
        BY <2>3, <3>2, <4>3 DEF Lessee
    <3>3. QED
      BY <3>1, <3>2
  <2>5. Users' \in [Names -> SUBSET (Browsers \X Files)]
    <3>1. Users' = [n \in Names |-> Users'[n]]
      BY DEF Users
    <3>2. QED
      BY <2>2, <3>1
  <2>6. Lessee' = [n \in Names |-> IF Users'[n] = {} THEN None ELSE Lessee[n]]
    BY <2>4 DEF Lessee
  <2>7. Leases!LetGo
    BY <2>1, <2>5, <2>6 DEF Leases!LetGo, Lessee, Users, HoldersOf
  <2>8. QED
    BY <2>7 DEF Leases!Next
<1>5. CASE \E f \in Files \ claimed : IsNamed(f) /\ MayClaim(f) /\ claimOutputName(f)
  <2> PICK f \in Files \ claimed : IsNamed(f) /\ MayClaim(f) /\ claimOutputName(f)
    BY <1>5
  <2> PICK m \in Names : m = NameOf(f)
    BY DEF IsNamed
  <2> PICK b \in Browsers : b = BrowserOf(f)
    BY DEF IInv, Requests, BrowserOf, Files
  <2>1. /\ claimed' = claimed \cup {f}
        /\ claims' = [claims EXCEPT ![m] = [session |-> b, holders |-> claims[m].holders + 1]]
    BY DEF claimOutputName
  <2>2. Lessee' = [Lessee EXCEPT ![m] = b]
    BY <2>1 DEF Lessee, IInv, TypeOK
  <2>3. HoldersOf(m)' = HoldersOf(m) \cup {f}
    BY <1>2, <2>1 DEF HoldersOf
  <2>4. \A n \in Names : n # m => HoldersOf(n)' = HoldersOf(n)
    BY <1>2, <2>1 DEF HoldersOf
  <2>5. ASSUME NEW n \in Names
        PROVE  Users'[n] = IF n = m THEN Users[m] \cup {<<b, f>>} ELSE Users[n]
    <3>1. Users'[n] = {<<BrowserOf(g), g>> : g \in HoldersOf(n)'}
      BY <1>2 DEF Users
    <3>2. CASE n = m
      <4>1. HoldersOf(n)' = HoldersOf(m) \cup {f}
        BY <2>3, <3>2
      <4>2. QED
        BY <3>1, <3>2, <4>1 DEF Users
    <3>3. CASE n # m
      BY <2>4, <3>1, <3>3 DEF Users
    <3>4. QED
      BY <3>2, <3>3
  <2>6. Users' = [Users EXCEPT ![m] = Users[m] \cup {<<b, f>>}]
    BY <2>5 DEF Users
  <2>7. <<b, f>> \notin Users[m]
    BY DEF Users, HoldersOf
  <2>8. Lessee[m] \in {None, b}
    BY DEF Lessee, MayClaim
  <2>9. Leases!Take(b, f, m)
    BY <2>2, <2>6, <2>7, <2>8 DEF Leases!Take, Lessee, Users, HoldersOf
  <2>10. QED
    BY <2>9 DEF Leases!Next
<1>6. QED
  BY <1>1, <1>3, <1>4, <1>5 DEF NameStep

\* The claims implement the leases: what the front does to a name is at every
\* step a take, a letting-go or nothing.
THEOREM ImplementsLeases == Spec => LeaseSpec
<1>1. Init => Leases!Init
  BY LeasesStart
<1>2. IInv /\ IInv' /\ [Next]_vars => [Leases!Next]_<<Lessee, Users>>
  BY LeasesStep DEF IInv
<1>3. IInv /\ IInv' /\ [Next]_vars =>
        [Leases!Next]_<<[n \in Names |-> claims[n].session],
                        [n \in Names |-> {<<BrowserOf(f), f>> : f \in {g \in claimed : NameOf(g) = n}}]>>
  BY <1>2 DEF Lessee, Users, HoldersOf
<1>4. QED
  BY <1>1, <1>3, Inductive, PTL DEF Spec, LeaseSpec, Leases!Spec

-----------------------------------------------------------------------------
(* Answers name their own browser's file                                   *)
(*                                                                         *)
(* A file is renamed onto a name only while it holds it, and all holders   *)
(* of a name are of one browser.  So it has to be shown that calls hold    *)
(* their names until they are described (Held), recordings until they are  *)
(* forgotten (Parked), and that no recording is forgotten under the stop   *)
(* that describes it (Described), which is where `crossed` comes in.       *)

\* A call holds the names of its files until it is described.
Held ==
    \A c \in Calls :
        /\ at[c] = "planning" => \A f \in Taken(c) : IsNamed(f) => f \in claimed
        /\ at[c] \in {"driving", "describing"} => \A f \in Wanted(c) : IsNamed(f) => f \in claimed

\* A recording holds its name, and its call is over.
Parked ==
    \A b \in Browsers : recordings[b] # None =>
        /\ at[recordings[b][1]] = "over"
        /\ BrowserOf(recordings[b]) = b
        /\ IsNamed(recordings[b]) => recordings[b] \in claimed

\* Screencast calls that do not cross go one by one.
OneScreencast ==
    crossed = {} =>
        \A c, d \in Calls : /\ Screencast(c) /\ Screencast(d) /\ browser[c] = browser[d]
                            /\ Busy(c) /\ Busy(d)
                            => c = d

\* What a stop describes is the recording that is parked.
Described ==
    \A c \in Calls : at[c] = "taking" =>
        /\ kind[c] = "stop" /\ taking[c] # None
        /\ crossed = {} => recordings[browser[c]] = taking[c]

\* Files are written and promoted for calls that are past their plan.
PlannedFirst ==
    /\ \A c \in inDaemon : at[c] \notin {"away", "planning"}
    /\ \A f \in staged \cup promoted : at[f[1]] \notin {"away", "planning"}

AInv == IInv /\ Held /\ Parked /\ OneScreencast /\ Described /\ PlannedFirst
             /\ AnswersNameTheirOwnBrowsersFile

LEMMA ParkedFile ==
    ASSUME TypeOK, NEW b \in Browsers, recordings[b] # None
    PROVE  recordings[b] \in Files /\ recordings[b][1] \in Calls
BY DEF TypeOK, Files

\* Whatever lets go of its name belongs to a call that is over by then, and is
\* no recording any more.
LetsGo == \A f \in claimed \ claimed' : at'[f[1]] = "over" /\ \A b \in Browsers : recordings'[b] # f

LEMMA ForgettingLetsGo ==
    ASSUME TypeOK, Parked, NEW b \in Browsers, forgetRecording(b),
           \A c \in Calls : at[c] = "over" => at'[c] = "over"
    PROVE  LetsGo
<1> SUFFICES ASSUME NEW f \in claimed \ claimed'
             PROVE  at'[f[1]] = "over" /\ \A d \in Browsers : recordings'[d] # f
  BY DEF LetsGo
<1>1. f = recordings[b] /\ recordings[b] # None
  BY DEF forgetRecording, releaseOutputNames, Recording
<1>2. at'[f[1]] = "over"
  BY <1>1, ParkedFile DEF Parked
<1>3. recordings'[b] # f
  BY <1>1 DEF forgetRecording, TypeOK
<1>4. ASSUME NEW d \in Browsers, d # b PROVE recordings'[d] # f
  BY <1>1, <1>4 DEF forgetRecording, Parked, TypeOK
<1>5. QED
  BY <1>2, <1>3, <1>4

\* A call that is still to be over lets go of its own names.
LEMMA EndingLetsGo ==
    ASSUME TypeOK, Parked, NEW c \in Calls, at[c] # "over", NEW S \in SUBSET Wanted(c),
           releaseOutputNames(S), at' = [at EXCEPT ![c] = "over"], UNCHANGED recordings
    PROVE  LetsGo
<1> SUFFICES ASSUME NEW f \in claimed \ claimed'
             PROVE  at'[f[1]] = "over" /\ \A d \in Browsers : recordings'[d] # f
  BY DEF LetsGo
<1>1. f \in S /\ f[1] = c
  BY DEF releaseOutputNames, Wanted
<1>2. at'[f[1]] = "over"
  BY <1>1 DEF TypeOK
<1>3. f # None
  BY NoneIsNone DEF TypeOK, Files
<1>4. \A d \in Browsers : recordings[d] # f
  BY <1>1, <1>3 DEF Parked
<1>5. QED
  BY <1>2, <1>4

LEMMA LettingGo ==
    ASSUME AInv, [Next]_vars
    PROVE  LetsGo
<1> USE DEF AInv, IInv
<1>1. ASSUME NEW c \in Calls, Arrive(c) \/ PlanFails(c) \/ Send(c) \/ PlanOutputFile(c) PROVE LetsGo
  BY <1>1 DEF Arrive, PlanFails, Send, PlanOutputFile, claimOutputName, planVars, LetsGo
<1>2. ASSUME NEW c \in Calls, Unplan(c) \/ Conclude(c) \/ Settle(c) PROVE LetsGo
  <2>1. Taken(c) \in SUBSET Wanted(c) /\ Wanted(c) \in SUBSET Wanted(c)
    BY DEF Taken
  <2>2. at[c] # "over" /\ at' = [at EXCEPT ![c] = "over"] /\ UNCHANGED recordings
    BY <1>2 DEF Unplan, Conclude, Settle
  <2>3. releaseOutputNames(Taken(c)) \/ releaseOutputNames(Wanted(c))
    BY <1>2 DEF Unplan, Conclude, Settle
  <2>4. QED
    BY <2>1, <2>2, <2>3, EndingLetsGo
<1>3. ASSUME NEW c \in Calls, CallFails(c) PROVE LetsGo
  <2>1. CASE UNCHANGED planVars
    BY <2>1 DEF planVars, LetsGo
  <2>2. CASE forgetRecording(browser[c]) /\ at' = [at EXCEPT ![c] = "over"]
    BY <2>2, ForgettingLetsGo DEF Requests, TypeOK
  <2>3. QED
    BY <1>3, <2>1, <2>2 DEF CallFails
<1>4. ASSUME NEW c \in Calls, Unreachable(c) \/ Deadline(c) \/ ReadFailure(c) PROVE LetsGo
  BY <1>3, <1>4 DEF Unreachable, Deadline, ReadFailure
<1>5. ASSUME NEW c \in Calls, ReadWritten(c) \/ ReadStopped(c) \/ TakeRecording(c) PROVE LetsGo
  <2>1. CASE UNCHANGED planVars
    BY <2>1 DEF planVars, LetsGo
  <2>2. CASE forgetRecording(browser[c]) /\ at' = [at EXCEPT ![c] = "over"]
    BY <2>2, ForgettingLetsGo DEF Requests, TypeOK
  <2>3. QED
    BY <1>5, <2>1, <2>2 DEF ReadWritten, ReadStopped, TakeRecording
<1>6. ASSUME NEW c \in Calls, ReadStarted(c) PROVE LetsGo
  <2>1. CASE UNCHANGED claimed
    BY <2>1 DEF LetsGo
  <2>2. CASE releaseOutputNames(Wanted(c)) /\ UNCHANGED recordings
    <3>1. at[c] # "over" /\ at' = [at EXCEPT ![c] = "over"]
      BY <1>6 DEF ReadStarted, Read
    <3>2. QED
      BY <2>2, <3>1, EndingLetsGo
  <2>3. QED
    BY <1>6, <2>1, <2>2 DEF ReadStarted, Park
<1>7. ASSUME NEW c \in Calls, DescribeFile(c) \/ Drive(c) PROVE LetsGo
  BY <1>7 DEF DescribeFile, Drive, DriveWrite, DriveStart, DriveStop, CarriedOut, planVars, LetsGo
<1>8. ASSUME NEW f \in Files, Unlink(f) \/ WriteFile(f) PROVE LetsGo
  BY <1>8 DEF Unlink, WriteFile, planVars, LetsGo
<1>9. ASSUME NEW b \in Browsers, DaemonReplaced(b) PROVE LetsGo
  BY <1>9, ForgettingLetsGo DEF DaemonReplaced
<1>10. CASE AllOver \/ UNCHANGED vars
  BY <1>10 DEF AllOver, vars, planVars, LetsGo
<1>11. QED
  BY <1>1, <1>2, <1>4, <1>5, <1>6, <1>7, <1>8, <1>9, <1>10 DEF Next, FrontStep

\* What holds of every step: files end for good, nobody but an arriving call
\* gets busy, and a call goes on towards its end.
Onward ==
    \A c \in Calls :
        /\ at[c] = "over" => at'[c] = "over"
        /\ at'[c] \in {"away", "planning"} => at[c] \in {"away", "planning"}
        /\ at[c] \notin {"away", "over"} => at'[c] # "away"

LEMMA GoingOn ==
    ASSUME TypeOK, [Next]_vars
    PROVE  Onward /\ crossed \subseteq crossed'
<1> USE DEF TypeOK, Onward, history
<1>1. ASSUME NEW c \in Calls, Arrive(c) \/ PlanFails(c) \/ Send(c) \/ PlanOutputFile(c) \/ Unplan(c)
      PROVE  Onward /\ crossed \subseteq crossed'
  BY <1>1 DEF Arrive, PlanFails, Send, PlanOutputFile, Unplan
<1>2. ASSUME NEW c \in Calls, Conclude(c) \/ Settle(c) \/ TakeRecording(c) \/ Drive(c)
      PROVE  Onward /\ crossed \subseteq crossed'
  BY <1>2 DEF Conclude, Settle, TakeRecording, Drive, DriveWrite, DriveStart, DriveStop, CarriedOut
<1>3. ASSUME NEW c \in Calls, Unreachable(c) \/ Deadline(c) \/ ReadFailure(c)
      PROVE  Onward /\ crossed \subseteq crossed'
  BY <1>3 DEF Unreachable, Deadline, ReadFailure, Read, CallFails
<1>4. ASSUME NEW c \in Calls, ReadWritten(c) \/ ReadStarted(c) \/ ReadStopped(c)
      PROVE  Onward /\ crossed \subseteq crossed'
  BY <1>4 DEF ReadWritten, ReadStarted, ReadStopped, Read
<1>5. ASSUME NEW c \in Calls, DescribeFile(c) PROVE Onward /\ crossed \subseteq crossed'
  BY <1>5 DEF DescribeFile
<1>6. ASSUME NEW f \in Files, Unlink(f) \/ WriteFile(f) PROVE Onward /\ crossed \subseteq crossed'
  BY <1>6 DEF Unlink, WriteFile
<1>7. ASSUME NEW b \in Browsers, DaemonReplaced(b) PROVE Onward /\ crossed \subseteq crossed'
  BY <1>7 DEF DaemonReplaced, CrossesStop
<1>8. CASE AllOver \/ UNCHANGED vars
  BY <1>8 DEF AllOver, vars
<1>9. QED
  BY <1>1, <1>2, <1>3, <1>4, <1>5, <1>6, <1>7, <1>8 DEF Next, FrontStep

\* Who is described or driven was so before, but for the call that is sent.
Stays ==
    \A c \in Calls :
        /\ at'[c] = "planning" => at[c] = "planning" /\ next'[c] = next[c]
        /\ at'[c] \in {"driving", "describing"} => at[c] \in {"driving", "describing"}

LEMMA Staying ==
    ASSUME TypeOK, [Next]_vars, ~\E c \in Calls : Arrive(c) \/ PlanOutputFile(c) \/ Send(c)
    PROVE  Stays
<1> USE DEF TypeOK, Stays
<1>1. ASSUME NEW c \in Calls, PlanFails(c) \/ Unplan(c) \/ Drive(c) PROVE Stays
  BY <1>1 DEF PlanFails, Unplan, Drive, DriveWrite, DriveStart, DriveStop, CarriedOut
<1>2. ASSUME NEW c \in Calls, Conclude(c) \/ Settle(c) \/ TakeRecording(c) PROVE Stays
  BY <1>2 DEF Conclude, Settle, TakeRecording
<1>3. ASSUME NEW c \in Calls, Unreachable(c) \/ Deadline(c) \/ ReadFailure(c) PROVE Stays
  BY <1>3 DEF Unreachable, Deadline, ReadFailure, Read, CallFails
<1>4. ASSUME NEW c \in Calls, ReadWritten(c) \/ ReadStarted(c) \/ ReadStopped(c) PROVE Stays
  BY <1>4 DEF ReadWritten, ReadStarted, ReadStopped, Read
<1>5. ASSUME NEW c \in Calls, DescribeFile(c) PROVE Stays
  <2>1. at[c] = "describing"
    BY <1>5 DEF DescribeFile
  <2>2. at' = at \/ at' = [at EXCEPT ![c] = "settling"]
    BY <1>5 DEF DescribeFile
  <2>3. next' = next \/ next' = [next EXCEPT ![c] = next[c] + 1]
    BY <1>5 DEF DescribeFile
  <2>4. QED
    BY <2>1, <2>2, <2>3
<1>6. ASSUME NEW f \in Files, Unlink(f) \/ WriteFile(f) PROVE Stays
  BY <1>6 DEF Unlink, WriteFile
<1>7. ASSUME NEW b \in Browsers, DaemonReplaced(b) PROVE Stays
  BY <1>7 DEF DaemonReplaced
<1>8. CASE AllOver \/ UNCHANGED vars
  BY <1>8 DEF AllOver, vars
<1>9. QED
  BY <1>1, <1>2, <1>3, <1>4, <1>5, <1>6, <1>7, <1>8 DEF Next, FrontStep

LEMMA HeldKept ==
    ASSUME AInv, [Next]_vars
    PROVE  Held'
<1> USE DEF AInv, IInv
<1>1. request' = request /\ LetsGo
  BY Steps, LettingGo
<1>2. \A f : NameOf(f)' = NameOf(f) /\ (IsNamed(f)' <=> IsNamed(f))
  BY <1>1 DEF NameOf, IsNamed, request
<1>3. \A d : Wanted(d)' = Wanted(d)
  BY <1>1 DEF Wanted, request
<1>4. ASSUME NEW d \in Calls, at'[d] \in {"planning", "driving", "describing"},
             NEW f \in Wanted(d), f \in claimed
      PROVE  f \in claimed'
  BY <1>1, <1>4 DEF LetsGo, Wanted
<1>5. ASSUME NEW c \in Calls, Arrive(c) PROVE Held'
  <2>1. /\ at[c] = "away" /\ at' = [at EXCEPT ![c] = "planning"] /\ next' = next
    BY <1>5 DEF Arrive
  <2>2. Taken(c)' = {}
    <3>1. next'[c] = 1
      BY <2>1 DEF InTurn
    <3>2. \A f \in Wanted(c)' : f[2] \in 1..2
      BY <1>3, TwoFiles DEF Wanted
    <3>3. QED
      BY <3>1, <3>2 DEF Taken
  <2>3. \A d \in Calls : d # c => at'[d] = at[d] /\ Taken(d)' = Taken(d)
    BY <1>3, <2>1 DEF Taken, TypeOK
  <2>4. at'[c] = "planning"
    BY <2>1 DEF TypeOK
  <2>5. Taken(c) \subseteq Wanted(c) /\ \A d : Taken(d) \subseteq Wanted(d)
    BY DEF Taken
  <2>6. QED
    BY <1>2, <1>3, <1>4, <2>2, <2>3, <2>4, <2>5 DEF Held
<1>6. ASSUME NEW c \in Calls, PlanOutputFile(c) PROVE Held'
  <2> DEFINE f == <<c, next[c]>>
  <2>1. /\ at[c] = "planning" /\ at' = at /\ next' = [next EXCEPT ![c] = next[c] + 1]
        /\ next[c] \in 1..3
    BY <1>6 DEF PlanOutputFile, TypeOK
  <2>2. IsNamed(f) => f \in claimed'
    BY <1>6 DEF PlanOutputFile, claimOutputName
  <2>3. claimed \subseteq claimed'
    BY <1>6 DEF PlanOutputFile, claimOutputName
  <2>4. \A d \in Calls : d # c => Taken(d)' = Taken(d)
    BY <1>3, <2>1 DEF Taken, TypeOK
  <2>5. ASSUME NEW g \in Taken(c)' PROVE g \in Taken(c) \/ g = f
    <3>1. g \in Wanted(c) /\ g[2] < next'[c] /\ next'[c] = next[c] + 1
      BY <1>3, <2>1 DEF Taken, TypeOK
    <3>2. g = <<c, g[2]>> /\ g[2] \in 1..2
      BY <3>1, TwoFiles DEF Wanted
    <3>3. g[2] < next[c] \/ g[2] = next[c]
      BY <2>1, <3>1, <3>2
    <3>4. QED
      BY <3>1, <3>2, <3>3 DEF Taken
  <2>6. ASSUME NEW d \in Calls, at'[d] = "planning", NEW g \in Taken(d)', IsNamed(g) PROVE g \in claimed'
    <3>1. CASE d = c
      BY <2>1, <2>2, <2>3, <2>5, <2>6, <3>1 DEF Held
    <3>2. CASE d # c
      BY <2>1, <2>3, <2>4, <2>6, <3>2 DEF Held
    <3>3. QED
      BY <3>1, <3>2
  <2>7. QED
    BY <1>2, <1>3, <2>1, <2>3, <2>6 DEF Held
<1>7. ASSUME NEW c \in Calls, Send(c) PROVE Held'
  <2>1. /\ at[c] = "planning" /\ at' = [at EXCEPT ![c] = "driving"] /\ next[c] \notin DOMAIN wants[c]
        /\ next' = [next EXCEPT ![c] = 1] /\ claimed' = claimed
    BY <1>7 DEF Send, planVars
  <2>2. Wanted(c) \subseteq Taken(c)
    <3>1. PICK n \in 0..2 : DOMAIN wants[c] = 1..n
      BY DEF Requests
    <3>2. next[c] \in 1..3 /\ next[c] \notin 1..n
      BY <2>1, <3>1 DEF TypeOK
    <3>3. \A i \in 1..n : i < next[c]
      BY <3>2
    <3>4. QED
      BY <3>1, <3>3 DEF Taken, Wanted
  <2>3. \A f \in Wanted(c) : IsNamed(f) => f \in claimed
    BY <2>1, <2>2 DEF Held
  <2>4. \A d \in Calls : d # c => at'[d] = at[d] /\ Taken(d)' = Taken(d)
    BY <1>3, <2>1 DEF Taken, TypeOK
  <2>5. at'[c] = "driving"
    BY <2>1 DEF TypeOK
  <2>6. QED
    BY <1>2, <1>3, <2>1, <2>3, <2>4, <2>5 DEF Held
<1>8. CASE ~\E c \in Calls : Arrive(c) \/ PlanOutputFile(c) \/ Send(c)
  <2>1. Stays
    BY <1>8, Staying
  <2>2. \A d \in Calls : at'[d] = "planning" => Taken(d)' = Taken(d)
    BY <1>3, <2>1 DEF Stays, Taken
  <2>3. \A d : Taken(d) \subseteq Wanted(d)
    BY DEF Taken
  <2>4. QED
    BY <1>2, <1>3, <1>4, <2>1, <2>2, <2>3 DEF Held, Stays
<1>9. QED
  BY <1>5, <1>6, <1>7, <1>8

LEMMA ParkedKept ==
    ASSUME AInv, [Next]_vars
    PROVE  Parked'
<1> USE DEF AInv, IInv
<1>1. request' = request /\ LetsGo /\ Onward
  BY Steps, LettingGo, GoingOn
<1>2. \A f : BrowserOf(f)' = BrowserOf(f) /\ (IsNamed(f)' <=> IsNamed(f))
  BY <1>1 DEF BrowserOf, NameOf, IsNamed, request
<1>3. ASSUME NEW b \in Browsers, recordings'[b] # None, recordings'[b] = recordings[b]
      PROVE  /\ at'[recordings'[b][1]] = "over" /\ BrowserOf(recordings'[b]) = b
             /\ IsNamed(recordings'[b]) => recordings'[b] \in claimed'
  BY <1>1, <1>3, ParkedFile DEF Parked, Onward, LetsGo
<1>4. ASSUME \A b \in Browsers : recordings'[b] = None \/ recordings'[b] = recordings[b] PROVE Parked'
  BY <1>2, <1>3, <1>4 DEF Parked
<1>5. ASSUME NEW c \in Calls, ReadStarted(c) PROVE Parked'
  <2>1. CASE UNCHANGED recordings
    BY <1>4, <2>1
  <2>2. CASE recordings' = [recordings EXCEPT ![browser[c]] = <<c, 1>>] /\ UNCHANGED claimed
    <3>1. at[c] = "driving" /\ at' = [at EXCEPT ![c] = "over"] /\ kind[c] = "start"
      BY <1>5 DEF ReadStarted, Read
    <3>2. <<c, 1>> \in Wanted(c)
      BY <3>1 DEF Requests, Wanted
    <3>3. IsNamed(<<c, 1>>) => <<c, 1>> \in claimed'
      BY <2>2, <3>1, <3>2 DEF Held
    <3>4. at'[c] = "over" /\ BrowserOf(<<c, 1>>) = browser[c]
      BY <3>1 DEF TypeOK, BrowserOf
    <3>5. ASSUME NEW b \in Browsers, b # browser[c] PROVE recordings'[b] = recordings[b]
      BY <2>2, <3>5 DEF TypeOK
    <3>6. recordings'[browser[c]] = <<c, 1>>
      BY <2>2 DEF TypeOK, Requests
    <3>7. QED
      BY <1>2, <1>3, <3>3, <3>4, <3>5, <3>6 DEF Parked
  <2>3. QED
    BY <1>5, <2>1, <2>2 DEF ReadStarted, Park
<1>6. ASSUME NEW b \in Browsers, forgetRecording(b) PROVE Parked'
  BY <1>4, <1>6 DEF forgetRecording, TypeOK
<1>7. ASSUME NEW c \in Calls, CallFails(c) PROVE Parked'
  BY <1>4, <1>6, <1>7 DEF CallFails, planVars, Requests
<1>8. ASSUME NEW c \in Calls, Unreachable(c) \/ Deadline(c) \/ ReadFailure(c) PROVE Parked'
  BY <1>7, <1>8 DEF Unreachable, Deadline, ReadFailure
<1>9. ASSUME NEW c \in Calls, ReadWritten(c) \/ ReadStopped(c) \/ TakeRecording(c) PROVE Parked'
  BY <1>4, <1>6, <1>9 DEF ReadWritten, ReadStopped, TakeRecording, planVars, Requests
<1>10. ASSUME NEW c \in Calls, Arrive(c) \/ PlanFails(c) \/ Send(c) \/ PlanOutputFile(c) \/ Unplan(c)
       PROVE  Parked'
  BY <1>4, <1>10 DEF Arrive, PlanFails, Send, PlanOutputFile, Unplan, planVars
<1>11. ASSUME NEW c \in Calls, Conclude(c) \/ Settle(c) \/ DescribeFile(c) \/ Drive(c) PROVE Parked'
  BY <1>4, <1>11 DEF Conclude, Settle, DescribeFile, Drive, DriveWrite, DriveStart, DriveStop,
                     CarriedOut, planVars
<1>12. ASSUME NEW f \in Files, Unlink(f) \/ WriteFile(f) PROVE Parked'
  BY <1>4, <1>12 DEF Unlink, WriteFile, planVars
<1>13. ASSUME NEW b \in Browsers, DaemonReplaced(b) PROVE Parked'
  BY <1>6, <1>13 DEF DaemonReplaced
<1>14. CASE AllOver \/ UNCHANGED vars
  BY <1>4, <1>14 DEF AllOver, vars, planVars
<1>15. QED
  BY <1>5, <1>8, <1>9, <1>10, <1>11, <1>12, <1>13, <1>14 DEF Next, FrontStep

\* Files come into being for calls that are carried out, or from such files.
FilesCome ==
    /\ inDaemon' \subseteq inDaemon \cup {c \in Calls : at'[c] \notin {"away", "planning"}}
    /\ \A f \in staged' \cup promoted' : f \in staged \cup promoted \/ f[1] \in inDaemon

LEMMA FilesComing ==
    ASSUME TypeOK, [Next]_vars
    PROVE  FilesCome
<1> USE DEF TypeOK, FilesCome
<1>1. ASSUME NEW c \in Calls, Send(c) PROVE FilesCome
  BY <1>1 DEF Send, diskVars
<1>2. ASSUME NEW c \in Calls, Arrive(c) \/ PlanFails(c) \/ PlanOutputFile(c) \/ Unplan(c) PROVE FilesCome
  BY <1>2 DEF Arrive, PlanFails, PlanOutputFile, Unplan, daemonVars, diskVars
<1>3. ASSUME NEW c \in Calls, Conclude(c) \/ Settle(c) PROVE FilesCome
  BY <1>3 DEF Conclude, Settle, daemonVars, diskVars
<1>4. ASSUME NEW c \in Calls, TakeRecording(c) \/ DescribeFile(c) PROVE FilesCome
  BY <1>4 DEF TakeRecording, DescribeFile, promoteFile, daemonVars, diskVars
<1>5. ASSUME NEW c \in Calls, Unreachable(c) \/ Deadline(c) PROVE FilesCome
  BY <1>5 DEF Unreachable, Deadline, daemonVars, diskVars
<1>6. ASSUME NEW c \in Calls, ReadFailure(c) \/ ReadWritten(c) \/ ReadStarted(c) \/ ReadStopped(c)
      PROVE  FilesCome
  BY <1>6 DEF ReadFailure, ReadWritten, ReadStarted, ReadStopped, Read, diskVars
<1>7. ASSUME NEW c \in Calls, Drive(c) PROVE FilesCome
  BY <1>7 DEF Drive, DriveWrite, DriveStart, DriveStop, CarriedOut, Wanted
<1>8. ASSUME NEW f \in Files, Unlink(f) \/ WriteFile(f) PROVE FilesCome
  BY <1>8 DEF Unlink, WriteFile, daemonVars
<1>9. ASSUME NEW b \in Browsers, DaemonReplaced(b) PROVE FilesCome
  BY <1>9 DEF DaemonReplaced, diskVars
<1>10. CASE AllOver \/ UNCHANGED vars
  BY <1>10 DEF AllOver, vars, daemonVars, diskVars
<1>11. QED
  BY <1>1, <1>2, <1>3, <1>4, <1>5, <1>6, <1>7, <1>8, <1>9, <1>10 DEF Next, FrontStep

LEMMA PlannedFirstKept ==
    ASSUME AInv, [Next]_vars
    PROVE  PlannedFirst'
<1> USE DEF AInv, IInv
<1>1. Onward /\ FilesCome
  BY GoingOn, FilesComing
<1>2. \A f \in staged' \cup promoted' : f[1] \in Calls
  BY TypeKept DEF TypeOK, Files
<1>3. inDaemon \subseteq Calls
  BY DEF TypeOK
<1>4. QED
  BY <1>1, <1>2, <1>3 DEF PlannedFirst, Onward, FilesCome

\* Only an arriving call gets busy.
Wakes ==
    \A c \in Calls :
        /\ at[c] = "away" /\ at'[c] # "away" => Arrive(c)
        /\ c \in inDaemon' \ inDaemon => at[c] = "planning"

LEMMA Waking ==
    ASSUME TypeOK, [Next]_vars
    PROVE  Wakes
<1> USE DEF TypeOK, Wakes
<1>1. ASSUME NEW c \in Calls, Arrive(c) PROVE Wakes
  <2>1. at' = [at EXCEPT ![c] = "planning"] /\ inDaemon' = inDaemon
    BY <1>1 DEF Arrive, daemonVars
  <2>2. QED
    BY <1>1, <2>1
<1>2. ASSUME NEW c \in Calls, Send(c) \/ PlanFails(c) \/ PlanOutputFile(c) \/ Unplan(c) PROVE Wakes
  BY <1>2 DEF Send, PlanFails, PlanOutputFile, Unplan, daemonVars
<1>3. ASSUME NEW c \in Calls, Conclude(c) \/ Settle(c) \/ TakeRecording(c) PROVE Wakes
  BY <1>3 DEF Conclude, Settle, TakeRecording, daemonVars
<1>4. ASSUME NEW c \in Calls, DescribeFile(c) PROVE Wakes
  BY <1>4 DEF DescribeFile, daemonVars
<1>5. ASSUME NEW c \in Calls, Unreachable(c) \/ Deadline(c) \/ ReadFailure(c) PROVE Wakes
  BY <1>5 DEF Unreachable, Deadline, ReadFailure, Read, CallFails, daemonVars
<1>6. ASSUME NEW c \in Calls, ReadWritten(c) \/ ReadStarted(c) \/ ReadStopped(c) PROVE Wakes
  BY <1>6 DEF ReadWritten, ReadStarted, ReadStopped, Read
<1>7. ASSUME NEW c \in Calls, Drive(c) PROVE Wakes
  BY <1>7 DEF Drive, DriveWrite, DriveStart, DriveStop, CarriedOut
<1>8. ASSUME NEW f \in Files, Unlink(f) \/ WriteFile(f) PROVE Wakes
  BY <1>8 DEF Unlink, WriteFile, daemonVars
<1>9. ASSUME NEW b \in Browsers, DaemonReplaced(b) PROVE Wakes
  BY <1>9 DEF DaemonReplaced
<1>10. CASE AllOver \/ UNCHANGED vars
  BY <1>10 DEF AllOver, vars, daemonVars
<1>11. QED
  BY <1>1, <1>2, <1>3, <1>4, <1>5, <1>6, <1>7, <1>8, <1>9, <1>10 DEF Next, FrontStep

LEMMA OneScreencastKept ==
    ASSUME AInv, [Next]_vars
    PROVE  OneScreencast'
<1> USE DEF AInv, IInv
<1>1. request' = request /\ crossed \subseteq crossed' /\ Onward /\ Wakes
  BY Steps, GoingOn, Waking
<1>2. \A c : (Screencast(c)' <=> Screencast(c)) /\ browser'[c] = browser[c]
  BY <1>1 DEF Screencast, request
<1>3. ASSUME NEW c \in Calls, Busy(c)' PROVE Busy(c) \/ Arrive(c)
  BY <1>1, <1>3 DEF Onward, Wakes, Busy
<1>4. ASSUME NEW c \in Calls, Arrive(c), crossed' = {}, NEW d \in Calls, Screencast(c), Screencast(d),
             browser[d] = browser[c]
      PROVE  ~Busy(d)
  BY <1>4 DEF Arrive
<1>5. ASSUME NEW c \in Calls, NEW d \in Calls, Arrive(c), Arrive(d) PROVE c = d
  BY <1>5 DEF Arrive, TypeOK
<1>6. SUFFICES ASSUME crossed' = {}, NEW c \in Calls, NEW d \in Calls, Screencast(c), Screencast(d),
                      browser[c] = browser[d], Busy(c)', Busy(d)'
               PROVE  c = d
  BY <1>2 DEF OneScreencast
<1>7. CASE Busy(c) /\ Busy(d)
  BY <1>1, <1>6, <1>7 DEF OneScreencast
<1>8. CASE Arrive(c)
  BY <1>3, <1>4, <1>5, <1>6, <1>8
<1>9. CASE Arrive(d)
  BY <1>3, <1>4, <1>5, <1>6, <1>9
<1>10. QED
  BY <1>3, <1>6, <1>7, <1>8, <1>9

\* While a stop describes a recording, its browser's parked recording changes
\* with the end of a stop, or by a new daemon, which leaves its trace in `crossed`.
LEMMA RecordingsChange ==
    ASSUME AInv, [Next]_vars, NEW b \in Browsers, recordings[b] # None,
           recordings'[b] # recordings[b],
           \E d \in Calls : at[d] = "taking" /\ browser[d] = b
    PROVE  \/ crossed' # {}
           \/ \E c \in Calls : kind[c] = "stop" /\ browser[c] = b /\ Busy(c) /\ at'[c] = "over"
<1> DEFINE Ends(c) == kind[c] = "stop" /\ browser[c] = b /\ Busy(c) /\ at'[c] = "over"
<1> USE DEF AInv, IInv, TypeOK
<1>1. ASSUME NEW c \in Calls, CallFails(c), at[c] \in {"planning", "driving"} PROVE Ends(c)
  BY <1>1 DEF CallFails, planVars, forgetRecording, Busy
<1>2. ASSUME NEW c \in Calls, Unreachable(c) \/ Deadline(c) \/ ReadFailure(c) PROVE Ends(c)
  BY <1>1, <1>2 DEF Unreachable, Deadline, ReadFailure, Read
<1>3. ASSUME NEW c \in Calls, TakeRecording(c) PROVE Ends(c)
  BY <1>3 DEF TakeRecording, forgetRecording, Busy, Described
<1>4. ASSUME NEW c \in Calls, ReadWritten(c) \/ ReadStarted(c) \/ ReadStopped(c) PROVE FALSE
  BY <1>4 DEF ReadWritten, ReadStarted, ReadStopped, Park, forgetRecording, planVars
<1>5. ASSUME NEW d \in Browsers, DaemonReplaced(d) PROVE crossed' # {}
  <2>1. d = b
    BY <1>5 DEF DaemonReplaced, forgetRecording
  <2>2. QED
    BY <1>5, <2>1 DEF DaemonReplaced, CrossesStop
<1>6. ASSUME NEW c \in Calls, Arrive(c) \/ PlanFails(c) \/ Send(c) \/ PlanOutputFile(c) \/ Unplan(c)
      PROVE  FALSE
  BY <1>6 DEF Arrive, PlanFails, Send, PlanOutputFile, Unplan, planVars
<1>7. ASSUME NEW c \in Calls, Conclude(c) \/ Settle(c) \/ DescribeFile(c) \/ Drive(c) PROVE FALSE
  BY <1>7 DEF Conclude, Settle, DescribeFile, Drive, DriveWrite, DriveStart, DriveStop,
              CarriedOut, planVars
<1>8. ASSUME NEW f \in Files, Unlink(f) \/ WriteFile(f) PROVE FALSE
  BY <1>8 DEF Unlink, WriteFile, planVars
<1>9. CASE AllOver \/ UNCHANGED vars
  BY <1>9 DEF AllOver, vars, planVars
<1>10. QED
  BY <1>2, <1>3, <1>4, <1>5, <1>6, <1>7, <1>8, <1>9 DEF Next, FrontStep

\* What a stop describes is noted once, when it reads its answer.
Notes ==
    \A c \in Calls : at'[c] = "taking" =>
        \/ at[c] = "taking" /\ taking'[c] = taking[c]
        \/ /\ at[c] = "driving" /\ kind[c] = "stop" /\ taking'[c] = recordings[browser[c]]
           /\ recordings[browser[c]] # None /\ UNCHANGED recordings

LEMMA Noting ==
    ASSUME TypeOK, [Next]_vars
    PROVE  Notes
<1> USE DEF TypeOK, Notes
<1>1. ASSUME NEW c \in Calls, ReadStopped(c) PROVE Notes
  BY <1>1 DEF ReadStopped, Read, planVars
<1>2. ASSUME NEW c \in Calls, Arrive(c) \/ PlanFails(c) \/ Send(c) \/ PlanOutputFile(c) \/ Unplan(c)
      PROVE  Notes
  BY <1>2 DEF Arrive, PlanFails, Send, PlanOutputFile, Unplan
<1>3. ASSUME NEW c \in Calls, Conclude(c) \/ Settle(c) \/ TakeRecording(c) PROVE Notes
  BY <1>3 DEF Conclude, Settle, TakeRecording
<1>4. ASSUME NEW c \in Calls, Unreachable(c) \/ Deadline(c) \/ ReadFailure(c) PROVE Notes
  BY <1>4 DEF Unreachable, Deadline, ReadFailure, Read, CallFails
<1>5. ASSUME NEW c \in Calls, ReadWritten(c) \/ ReadStarted(c) PROVE Notes
  BY <1>5 DEF ReadWritten, ReadStarted, Read
<1>6. ASSUME NEW c \in Calls, DescribeFile(c) \/ Drive(c) PROVE Notes
  BY <1>6 DEF DescribeFile, Drive, DriveWrite, DriveStart, DriveStop, CarriedOut
<1>7. ASSUME NEW f \in Files, Unlink(f) \/ WriteFile(f) PROVE Notes
  BY <1>7 DEF Unlink, WriteFile
<1>8. ASSUME NEW b \in Browsers, DaemonReplaced(b) PROVE Notes
  BY <1>8 DEF DaemonReplaced
<1>9. CASE AllOver \/ UNCHANGED vars
  BY <1>9 DEF AllOver, vars
<1>10. QED
  BY <1>1, <1>2, <1>3, <1>4, <1>5, <1>6, <1>7, <1>8, <1>9 DEF Next, FrontStep

LEMMA DescribedKept ==
    ASSUME AInv, [Next]_vars
    PROVE  Described'
<1> USE DEF AInv, IInv
<1>1. request' = request /\ crossed \subseteq crossed' /\ Notes
  BY Steps, GoingOn, Noting
<1>2. \A c \in Calls : browser'[c] = browser[c] /\ kind'[c] = kind[c] /\ browser[c] \in Browsers
  BY <1>1 DEF request, Requests
<1>3. ASSUME NEW d \in Calls, at'[d] = "taking" PROVE kind[d] = "stop" /\ taking'[d] # None
  BY <1>1, <1>3 DEF Notes, Described
<1>4. ASSUME NEW d \in Calls, at'[d] = "taking", crossed' = {}
      PROVE  recordings'[browser[d]] = taking'[d]
  <2>1. CASE UNCHANGED recordings /\ taking'[d] = recordings[browser[d]]
    BY <2>1
  <2>2. CASE at[d] = "taking" /\ taking'[d] = taking[d]
    <3>1. kind[d] = "stop" /\ recordings[browser[d]] = taking[d] /\ recordings[browser[d]] # None
      BY <1>1, <1>4, <2>2 DEF Described
    <3>2. ASSUME NEW c \in Calls, kind[c] = "stop", browser[c] = browser[d], Busy(c), at'[c] = "over"
          PROVE  FALSE
      <4>1. Busy(d) /\ Screencast(c) /\ Screencast(d)
        BY <2>2, <3>1, <3>2 DEF Busy, Screencast
      <4>2. c = d
        BY <1>1, <1>4, <3>2, <4>1 DEF OneScreencast
      <4>3. QED
        BY <1>4, <3>2, <4>2
    <3>3. recordings'[browser[d]] = recordings[browser[d]]
      BY <1>2, <1>4, <2>2, <3>1, <3>2, RecordingsChange
    <3>4. QED
      BY <2>2, <3>1, <3>3
  <2>3. QED
    BY <1>1, <1>4, <2>1, <2>2 DEF Notes
<1>5. QED
  BY <1>2, <1>3, <1>4 DEF Described

\* Nothing is promoted but what was staged, by a call that holds its name: the
\* one that described it, or the stop of the recording.
Promotes ==
    \/ UNCHANGED <<content, promoted>>
    \/ \E f \in staged :
         /\ promoteFile(f)
         /\ \/ at[f[1]] = "describing" /\ f \in Wanted(f[1]) /\ f[1] \in Calls
            \/ \E c \in Calls : at[c] = "taking" /\ taking[c] = f

LEMMA Promoting ==
    ASSUME TypeOK, [Next]_vars
    PROVE  Promotes
<1>1. ASSUME NEW c \in Calls, DescribeFile(c) PROVE Promotes
  <2>1. CASE promoteFile(<<c, next[c]>>)
    <3>1. /\ at[c] = "describing" /\ <<c, next[c]>> \in Wanted(c) /\ <<c, next[c]>> \in staged
          /\ <<c, next[c]>>[1] = c
      BY <1>1, <2>1 DEF DescribeFile, Wanted, promoteFile
    <3>2. QED
      BY <2>1, <3>1 DEF Promotes
  <2>2. CASE UNCHANGED <<content, promoted>>
    BY <2>2 DEF Promotes
  <2>3. QED
    BY <1>1, <2>1, <2>2 DEF DescribeFile, diskVars
<1>2. ASSUME NEW c \in Calls, TakeRecording(c) PROVE Promotes
  BY <1>2 DEF TakeRecording, Promotes, promoteFile, diskVars
<1>3. ASSUME NEW c \in Calls, Arrive(c) \/ PlanFails(c) \/ Send(c) \/ PlanOutputFile(c) \/ Unplan(c)
      PROVE  Promotes
  BY <1>3 DEF Arrive, PlanFails, Send, PlanOutputFile, Unplan, diskVars, Promotes
<1>4. ASSUME NEW c \in Calls, Conclude(c) \/ Settle(c) \/ Drive(c) PROVE Promotes
  BY <1>4 DEF Conclude, Settle, Drive, DriveWrite, DriveStart, DriveStop, CarriedOut, diskVars, Promotes
<1>5. ASSUME NEW c \in Calls, \/ Unreachable(c) \/ Deadline(c) \/ ReadFailure(c)
                              \/ ReadWritten(c) \/ ReadStarted(c) \/ ReadStopped(c)
      PROVE  Promotes
  BY <1>5 DEF Unreachable, Deadline, ReadFailure, ReadWritten, ReadStarted, ReadStopped, Read,
              diskVars, Promotes
<1>6. ASSUME NEW f \in Files, Unlink(f) \/ WriteFile(f) PROVE Promotes
  BY <1>6 DEF Unlink, WriteFile, Promotes
<1>7. ASSUME NEW b \in Browsers, DaemonReplaced(b) PROVE Promotes
  BY <1>7 DEF DaemonReplaced, diskVars, Promotes
<1>8. CASE AllOver \/ UNCHANGED vars
  BY <1>8 DEF AllOver, vars, diskVars, Promotes
<1>9. QED
  BY <1>1, <1>2, <1>3, <1>4, <1>5, <1>6, <1>7, <1>8 DEF Next, FrontStep

LEMMA AnswersKept ==
    ASSUME AInv, [Next]_vars
    PROVE  AnswersNameTheirOwnBrowsersFile'
<1> USE DEF AInv, IInv
<1>1. request' = request /\ crossed \subseteq crossed' /\ NameStep /\ Promotes
  BY Steps, GoingOn, Promoting
<1>2. SUFFICES ASSUME crossed = {}, NEW f \in promoted' \cap claimed'
               PROVE  browser[content'[NameOf(f)][1]] = browser[f[1]]
  BY <1>1 DEF AnswersNameTheirOwnBrowsersFile, BrowserOf, NameOf, request
<1>3. f \in promoted \cup staged
  BY <1>1 DEF Promotes, promoteFile
<1>4. f \in claimed
  <2>1. at[f[1]] # "planning"
    BY <1>3 DEF PlannedFirst
  <2>2. QED
    BY <1>1, <2>1 DEF NameStep, releaseOutputNames, claimOutputName
<1>5. NameOf(f) \in Names /\ claims[NameOf(f)].session = browser[f[1]]
  BY <1>4 DEF NamesInOrder, IsNamed, BrowserOf
<1>6. f \in promoted => browser[content[NameOf(f)][1]] = browser[f[1]]
  BY <1>2, <1>4 DEF AnswersNameTheirOwnBrowsersFile, BrowserOf
<1>7. CASE UNCHANGED <<content, promoted>>
  BY <1>6, <1>7
<1>8. ASSUME NEW g \in staged, promoteFile(g),
             \/ at[g[1]] = "describing" /\ g \in Wanted(g[1]) /\ g[1] \in Calls
             \/ \E c \in Calls : at[c] = "taking" /\ taking[c] = g
      PROVE  browser[content'[NameOf(f)][1]] = browser[f[1]]
  <2>1. IsNamed(g) => g \in claimed
    <3>1. CASE at[g[1]] = "describing" /\ g \in Wanted(g[1]) /\ g[1] \in Calls
      BY <3>1 DEF Held
    <3>2. CASE \E c \in Calls : at[c] = "taking" /\ taking[c] = g
      <4> PICK c \in Calls : at[c] = "taking" /\ taking[c] = g
        BY <3>2
      <4>1. recordings[browser[c]] = g /\ g # None /\ browser[c] \in Browsers
        BY <1>2 DEF Described, Requests
      <4>2. QED
        BY <4>1 DEF Parked
    <3>3. QED
      BY <1>8, <3>1, <3>2
  <2>2. promoted' = promoted \cup {g} /\ content' = [content EXCEPT ![NameOf(g)] = g]
    BY <1>8 DEF promoteFile
  <2>3. CASE NameOf(g) = NameOf(f)
    <3>1. claims[NameOf(f)].session = browser[g[1]]
      BY <1>5, <2>1, <2>3 DEF NamesInOrder, IsNamed, BrowserOf
    <3>2. content'[NameOf(f)] = g
      BY <1>5, <2>2, <2>3 DEF TypeOK
    <3>3. QED
      BY <1>5, <3>1, <3>2
  <2>4. CASE NameOf(g) # NameOf(f)
    <3>1. f \in promoted
      BY <2>2, <2>4
    <3>2. content'[NameOf(f)] = content[NameOf(f)]
      BY <1>5, <2>2, <2>4 DEF TypeOK
    <3>3. QED
      BY <1>6, <3>1, <3>2
  <2>5. QED
    BY <2>3, <2>4
<1>9. QED
  BY <1>1, <1>7, <1>8 DEF Promotes

\* While a call holds the name of a file it has written, that name holds a file of
\* its own browser, unless screencast calls of a browser crossed.
THEOREM AnswersAreTheirOwn == Spec => []AnswersNameTheirOwnBrowsersFile
<1>1. Init => AInv
  BY Starts DEF Init, AInv, Held, Parked, OneScreencast, Described, PlannedFirst, Busy,
                AnswersNameTheirOwnBrowsersFile
<1>2. AInv /\ IInv' /\ [Next]_vars => AInv'
  BY HeldKept, ParkedKept, OneScreencastKept, DescribedKept, PlannedFirstKept, AnswersKept DEF AInv
<1>3. QED
  BY <1>1, <1>2, Inductive, PTL DEF Spec, AInv

-----------------------------------------------------------------------------
(* Recordings and staging files *)

\* A call the daemon is done with and the front is not.
Past(c) == (at[c] = "driving" /\ c \notin inDaemon) \/ at[c] = "taking"
Early == {"away", "planning", "unplanning"}

\* A caller chooses the names of what is written for it, and a stop writes none.
NamesAreChosen ==
    \A c \in Calls :
        /\ kind[c] \in {"write", "pair"} => \A i \in DOMAIN wants[c] : wants[c][i] \in Names
        /\ kind[c] = "stop" => DOMAIN wants[c] = {}

\* Files are written for calls that were sent, a recording's with its answer.
StagedWhenSent ==
    /\ \A c \in inDaemon : at[c] \notin Early
    /\ \A f \in staged :
         /\ f \in Wanted(f[1]) /\ IsNamed(f)
         /\ at[f[1]] \notin Early
         /\ kind[f[1]] = "start" => f[1] \notin inDaemon

\* A call is carried out once, and its answer is there as long as it waits.
CarriedOutOnce ==
    /\ \A c \in ok : c \notin inDaemon /\ at[c] \notin Early
    /\ \A b \in Browsers : \A i \in DOMAIN answers[b] :
         answers[b][i] \notin inDaemon /\ at[answers[b][i]] \notin Early
    /\ \A c \in Calls : at[c] = "driving" =>
         c \in inDaemon \/ \E i \in DOMAIN answers[browser[c]] : answers[browser[c]][i] = c

\* A daemon works for calls that wait for it, until one was given up on.
WaitedFor == astray = {} => \A c \in inDaemon : at[c] = "driving"

\* Only stops take a recording; what a call described is not staged any more.
StopsTake == \A c \in Calls : at[c] = "taking" => kind[c] = "stop"

DescribedFiles ==
    \A c \in Calls :
        /\ at[c] = "driving" => next[c] = 1
        /\ at[c] = "describing" => /\ kind[c] \in {"write", "pair"}
                                   /\ astray = {} => \A f \in Taken(c) : f \notin staged

Base == /\ IInv /\ NamesAreChosen /\ StagedWhenSent /\ CarriedOutOnce /\ WaitedFor
        /\ StopsTake /\ DescribedFiles

-----------------------------------------------------------------------------
(* Where calls and their files are *)

LEMMA NamesAreChosenFirst == Init => NamesAreChosen
<1> SUFFICES ASSUME Init, NEW c \in Calls
             PROVE  /\ kind[c] \in {"write", "pair"} =>
                         \A i \in DOMAIN wants[c] : wants[c][i] \in Names
                    /\ kind[c] = "stop" => DOMAIN wants[c] = {}
  BY DEF NamesAreChosen
<1>1. wants[c] \in NameLists(kind[c])
  BY DEF Init
<1>2. CASE kind[c] = "write"
  <2>1. wants[c] \in {<<n>> : n \in Names}
    BY <1>1, <1>2 DEF NameLists
  <2>2. QED
    BY <1>2, <2>1
<1>3. CASE kind[c] = "pair"
  <2>1. wants[c] \in Names \X Names
    BY <1>1, <1>3 DEF NameLists
  <2>2. QED
    BY <1>3, <2>1
<1>4. CASE kind[c] = "stop"
  <2>1. wants[c] = <<>>
    BY <1>1, <1>4 DEF NameLists
  <2>2. QED
    BY <1>4, <2>1
<1>5. QED
  BY <1>2, <1>3, <1>4

\* What calls ask for does not change.
LEMMA SameRequests ==
    ASSUME IInv, [Next]_vars
    PROVE  /\ kind' = kind /\ browser' = browser /\ wants' = wants
           /\ \A c : Wanted(c)' = Wanted(c)
           /\ \A f : NameOf(f)' = NameOf(f) /\ (IsNamed(f)' <=> IsNamed(f))
           /\ \A c : Screencast(c)' <=> Screencast(c)
  BY Steps DEF request, Wanted, NameOf, IsNamed, Screencast

LEMMA StagedWhenSentKept ==
    ASSUME IInv, NamesAreChosen, StagedWhenSent, [Next]_vars
    PROVE  StagedWhenSent'
<1> USE DEF TypeOK, IInv, Early
<1> DEFINE Goal == /\ \A c \in inDaemon' : at'[c] \notin Early
                   /\ \A f \in staged' : /\ f \in Wanted(f[1]) /\ IsNamed(f)
                                         /\ at'[f[1]] \notin Early
                                         /\ kind[f[1]] = "start" => f[1] \notin inDaemon'
<1> SUFFICES Goal
  BY SameRequests DEF StagedWhenSent
<1>1. ASSUME staged' \subseteq staged, inDaemon' \subseteq inDaemon,
             \A d \in Calls : at'[d] \in Early => at[d] \in Early
      PROVE  Goal
  BY <1>1 DEF StagedWhenSent, Files
<1>2. ASSUME NEW c \in Calls, Arrive(c) \/ PlanOutputFile(c) \/ PlanFails(c) \/ Unplan(c)
      PROVE  Goal
  <2>1. UNCHANGED <<staged, inDaemon>>
    BY <1>2 DEF Arrive, PlanOutputFile, PlanFails, Unplan, diskVars, daemonVars
  <2>2. \A d \in Calls : at'[d] \in Early => at[d] \in Early
    BY <1>2 DEF Arrive, PlanOutputFile, PlanFails, Unplan
  <2>3. QED
    BY <1>1, <2>1, <2>2
<1>3. ASSUME NEW c \in Calls, Send(c) PROVE Goal
  <2>1. at[c] = "planning" /\ at' = [at EXCEPT ![c] = "driving"] /\ staged' = staged
        /\ inDaemon' = inDaemon \cup {c}
    BY <1>3 DEF Send, diskVars
  <2>2. \A f \in staged : f[1] # c /\ f[1] \in Calls
    BY <2>1 DEF StagedWhenSent, Files
  <2>3. QED
    BY <2>1, <2>2 DEF StagedWhenSent
<1>4. ASSUME NEW c \in Calls, Unreachable(c) \/ Deadline(c) \/ ReadFailure(c) PROVE Goal
  <2>1. UNCHANGED <<staged, inDaemon>>
    BY <1>4 DEF Unreachable, Deadline, ReadFailure, Read, diskVars, daemonVars
  <2>2. \A d \in Calls : at'[d] \in Early => at[d] \in Early
    BY <1>4 DEF Unreachable, Deadline, ReadFailure, Read, CallFails
  <2>3. QED
    BY <1>1, <2>1, <2>2
<1>5. ASSUME NEW c \in Calls, ReadWritten(c) \/ ReadStarted(c) \/ ReadStopped(c) PROVE Goal
  <2>1. UNCHANGED <<staged, inDaemon>>
    BY <1>5 DEF ReadWritten, ReadStarted, ReadStopped, Read, diskVars
  <2>2. \A d \in Calls : at'[d] \in Early => at[d] \in Early
    BY <1>5 DEF ReadWritten, ReadStarted, ReadStopped, Read
  <2>3. QED
    BY <1>1, <2>1, <2>2
<1>6. ASSUME NEW c \in Calls, Conclude(c) \/ Settle(c) \/ DescribeFile(c) \/ TakeRecording(c)
      PROVE  Goal
  <2>1. staged' \subseteq staged /\ inDaemon' = inDaemon
    BY <1>6 DEF Conclude, Settle, DescribeFile, TakeRecording, promoteFile, diskVars, daemonVars
  <2>2. \A d \in Calls : at'[d] \in Early => at[d] \in Early
    BY <1>6 DEF Conclude, Settle, DescribeFile, TakeRecording
  <2>3. QED
    BY <1>1, <2>1, <2>2
<1>7. ASSUME NEW c \in Calls, NEW fine \in BOOLEAN, DriveWrite(c, fine) \/ DriveStop(c, fine)
      PROVE  Goal
  <2>1. staged' = staged /\ inDaemon' \subseteq inDaemon /\ at' = at
    BY <1>7 DEF DriveWrite, DriveStop, CarriedOut
  <2>2. QED
    BY <1>1, <2>1
<1>8. ASSUME NEW c \in Calls, NEW fine \in BOOLEAN, DriveStart(c, fine) PROVE Goal
  <2>1. c \in inDaemon /\ inDaemon' = inDaemon \ {c} /\ at' = at
        /\ staged' \subseteq staged \cup {f \in Wanted(c) : IsNamed(f)}
    BY <1>8 DEF DriveStart, CarriedOut
  <2>2. \A f \in Wanted(c) : f[1] = c
    BY DEF Wanted
  <2>3. QED
    BY <2>1, <2>2 DEF StagedWhenSent
<1>9. ASSUME NEW f \in Files, WriteFile(f) PROVE Goal
  <2>1. f[1] \in inDaemon /\ kind[f[1]] \in {"write", "pair"} /\ f \in Wanted(f[1])
        /\ staged' = staged \cup {f} /\ UNCHANGED <<inDaemon, at>>
    BY <1>9 DEF WriteFile, daemonVars
  <2>2. IsNamed(f)
    BY <2>1 DEF NamesAreChosen, IsNamed, NameOf, Wanted
  <2>3. QED
    BY <2>1, <2>2 DEF StagedWhenSent
<1>10. ASSUME NEW f \in Files, Unlink(f) PROVE Goal
  <2>1. staged' \subseteq staged /\ UNCHANGED <<inDaemon, at>>
    BY <1>10 DEF Unlink, daemonVars
  <2>2. QED
    BY <1>1, <2>1
<1>11. ASSUME NEW b \in Browsers, DaemonReplaced(b) PROVE Goal
  <2>1. staged' = staged /\ inDaemon' \subseteq inDaemon /\ at' = at
    BY <1>11 DEF DaemonReplaced, diskVars
  <2>2. QED
    BY <1>1, <2>1
<1>12. CASE AllOver \/ UNCHANGED vars
  <2>1. UNCHANGED <<staged, inDaemon, at>>
    BY <1>12 DEF AllOver, vars, diskVars, daemonVars
  <2>2. QED
    BY <1>1, <2>1
<1>13. QED
  BY <1>2, <1>3, <1>4, <1>5, <1>6, <1>7, <1>8, <1>9, <1>10, <1>11, <1>12 DEF Next, FrontStep, Drive

LEMMA CarriedOutOnceKept ==
    ASSUME IInv, StagedWhenSent, CarriedOutOnce, [Next]_vars
    PROVE  CarriedOutOnce'
<1> USE DEF TypeOK, IInv, Early
<1>0. /\ browser' = browser /\ browser \in [Calls -> Browsers]
      /\ \A b \in Browsers : answers[b] \in Seq(Calls)
  BY SameRequests DEF Requests
<1>1. ASSUME ok' = ok, answers' = answers, inDaemon' \subseteq inDaemon,
             \A d \in Calls : at'[d] \in Early => at[d] \in Early,
             \A d \in Calls : at'[d] = "driving" =>
               at[d] = "driving" /\ (d \in inDaemon => d \in inDaemon')
      PROVE  CarriedOutOnce'
  <2>1. \A b \in Browsers : \A i \in DOMAIN answers[b] : answers[b][i] \in Calls
    BY <1>0
  <2>2. QED
    BY <1>0, <1>1, <2>1 DEF CarriedOutOnce
<1>2. ASSUME NEW c \in Calls,
             \/ Arrive(c) \/ PlanOutputFile(c) \/ PlanFails(c) \/ Unplan(c) \/ Conclude(c)
             \/ Settle(c) \/ DescribeFile(c) \/ TakeRecording(c)
      PROVE  CarriedOutOnce'
  <2>1. UNCHANGED <<ok, answers, inDaemon>>
    BY <1>2 DEF Arrive, PlanOutputFile, PlanFails, Unplan, Conclude, Settle, DescribeFile,
                TakeRecording, daemonVars
  <2>2. \A d \in Calls : (at'[d] \in Early => at[d] \in Early)
                          /\ (at'[d] = "driving" => at[d] = "driving")
    BY <1>2 DEF Arrive, PlanOutputFile, PlanFails, Unplan, Conclude, Settle, DescribeFile,
                TakeRecording
  <2>3. QED
    BY <1>1, <2>1, <2>2
<1>3. ASSUME NEW c \in Calls, Unreachable(c) \/ Deadline(c) PROVE CarriedOutOnce'
  <2>1. UNCHANGED <<ok, answers, inDaemon>>
    BY <1>3 DEF Unreachable, Deadline, daemonVars
  <2>2. \A d \in Calls : (at'[d] \in Early => at[d] \in Early)
                          /\ (at'[d] = "driving" => at[d] = "driving")
    BY <1>3 DEF Unreachable, Deadline, CallFails
  <2>3. QED
    BY <1>1, <2>1, <2>2
<1>4. ASSUME NEW c \in Calls, Send(c) PROVE CarriedOutOnce'
  <2>1. /\ at[c] = "planning" /\ at' = [at EXCEPT ![c] = "driving"]
        /\ inDaemon' = inDaemon \cup {c} /\ UNCHANGED <<ok, answers>>
    BY <1>4 DEF Send
  <2>2. c \notin ok /\ \A b \in Browsers : \A i \in DOMAIN answers[b] :
                         answers[b][i] # c /\ answers[b][i] \in Calls
    BY <1>0, <2>1 DEF CarriedOutOnce
  <2>3. QED
    BY <1>0, <2>1, <2>2 DEF CarriedOutOnce
<1>5. ASSUME NEW c \in Calls, NEW fine \in BOOLEAN, CarriedOut(c, fine) PROVE CarriedOutOnce'
  <2>1. /\ c \in inDaemon /\ inDaemon' = inDaemon \ {c} /\ at' = at /\ at[c] \notin Early
        /\ ok' \subseteq ok \cup {c}
    BY <1>5 DEF CarriedOut, StagedWhenSent
  <2>2. CASE at[c] = "driving"
    <3> DEFINE b == browser[c]
    <3>1. b \in Browsers /\ answers' = [answers EXCEPT ![b] = Append(answers[b], c)]
      BY <1>0, <1>5, <2>2 DEF CarriedOut
    <3>2. /\ DOMAIN answers'[b] = 1..(Len(answers[b]) + 1)
          /\ DOMAIN answers[b] = 1..Len(answers[b])
          /\ \A i \in DOMAIN answers[b] : answers'[b][i] = answers[b][i]
          /\ answers'[b][Len(answers[b]) + 1] = c
      BY <1>0, <3>1
    <3>3. Len(answers[b]) \in Nat
      BY <1>0, <3>1
    <3>4. \A i \in DOMAIN answers'[b] : answers'[b][i] = c \/ i \in DOMAIN answers[b]
      BY <3>2, <3>3
    <3>5. \A i \in DOMAIN answers'[b] : answers'[b][i] \notin inDaemon' /\ at[answers'[b][i]] \notin Early
      BY <2>1, <3>1, <3>2, <3>4 DEF CarriedOutOnce
    <3>6. \A d \in Browsers : d # b => answers'[d] = answers[d]
      BY <3>1
    <3>7. ASSUME NEW d \in Calls, at[d] = "driving"
          PROVE  d \in inDaemon' \/ \E i \in DOMAIN answers'[browser[d]] : answers'[browser[d]][i] = d
      <4>1. CASE d = c
        BY <3>2, <3>3, <4>1
      <4>2. CASE d # c /\ d \in inDaemon
        BY <2>1, <4>2
      <4>3. CASE d \notin inDaemon
        <5>1. PICK i \in DOMAIN answers[browser[d]] : answers[browser[d]][i] = d
          BY <3>7, <4>3 DEF CarriedOutOnce
        <5>2. CASE browser[d] = b
          <6>1. i \in DOMAIN answers'[b]
            BY <3>2, <3>3, <5>1, <5>2
          <6>2. QED
            BY <3>2, <5>1, <5>2, <6>1
        <5>3. CASE browser[d] # b
          BY <1>0, <3>6, <5>1, <5>3
        <5>4. QED
          BY <5>2, <5>3
      <4>4. QED
        BY <4>1, <4>2, <4>3
    <3>8. \A d \in Browsers : \A i \in DOMAIN answers'[d] :
             answers'[d][i] \notin inDaemon' /\ at[answers'[d][i]] \notin Early
      BY <2>1, <3>5, <3>6 DEF CarriedOutOnce
    <3>9. \A d \in ok' : d \notin inDaemon' /\ at[d] \notin Early
      BY <2>1 DEF CarriedOutOnce
    <3>10. QED
      BY <1>0, <2>1, <3>7, <3>8, <3>9 DEF CarriedOutOnce
  <2>3. CASE at[c] # "driving"
    <3>1. answers' = answers
      BY <1>5, <2>3 DEF CarriedOut
    <3>2. QED
      BY <1>0, <2>1, <2>3, <3>1 DEF CarriedOutOnce
  <2>4. QED
    BY <2>2, <2>3
<1>6. ASSUME NEW c \in Calls, Read(c), at'[c] \notin Early \cup {"driving"},
             \A d \in Calls : d # c => at'[d] = at[d]
      PROVE  CarriedOutOnce'
  <2> DEFINE b == browser[c]
  <2>1. /\ b \in Browsers /\ answers[b] # <<>> /\ Head(answers[b]) = c
        /\ answers' = [answers EXCEPT ![b] = Tail(answers[b])]
        /\ UNCHANGED <<inDaemon, ok>>
    BY <1>0, <1>6 DEF Read
  <2>2. /\ Len(answers[b]) \in Nat /\ Len(answers[b]) >= 1
        /\ DOMAIN answers[b] = 1..Len(answers[b]) /\ answers[b][1] = c
        /\ DOMAIN answers'[b] = 1..(Len(answers[b]) - 1)
        /\ \A i \in 1..(Len(answers[b]) - 1) : answers'[b][i] = answers[b][i + 1]
    BY <1>0, <2>1
  <2>3. \A d \in Browsers : d # b => answers'[d] = answers[d]
    BY <2>1
  <2>4. \A d \in Browsers : \A i \in DOMAIN answers'[d] :
           \E j \in DOMAIN answers[d] : answers'[d][i] = answers[d][j]
    <3>1. \A i \in DOMAIN answers'[b] : i + 1 \in DOMAIN answers[b] /\ answers'[b][i] = answers[b][i + 1]
      BY <2>2
    <3>2. QED
      BY <2>3, <3>1
  <2>5. \A d \in Calls : at'[d] \in Early => at[d] \in Early
    BY <1>6
  <2>6. \A d \in Browsers : \A i \in DOMAIN answers'[d] :
           answers'[d][i] \notin inDaemon' /\ at'[answers'[d][i]] \notin Early
    BY <1>0, <2>1, <2>4, <2>5, SMTT(30) DEF CarriedOutOnce
  <2>7. ASSUME NEW d \in Calls, at'[d] = "driving", d \notin inDaemon
        PROVE  \E i \in DOMAIN answers'[browser[d]] : answers'[browser[d]][i] = d
    <3>1. d # c /\ at[d] = "driving"
      BY <1>6, <2>7
    <3>2. PICK i \in DOMAIN answers[browser[d]] : answers[browser[d]][i] = d
      BY <2>7, <3>1 DEF CarriedOutOnce
    <3>3. CASE browser[d] = b
      <4>1. i # 1 /\ i - 1 \in 1..(Len(answers[b]) - 1) /\ (i - 1) + 1 = i
        BY <2>2, <3>1, <3>2, <3>3
      <4>2. QED
        BY <2>2, <3>2, <3>3, <4>1, ZenonT(60)
    <3>4. CASE browser[d] # b
      BY <1>0, <2>3, <3>2, <3>4
    <3>5. QED
      BY <3>3, <3>4
  <2>8. \A d \in ok' : d \notin inDaemon' /\ at'[d] \notin Early
    BY <2>1, <2>5 DEF CarriedOutOnce
  <2>9. \A d \in Calls : at'[d] = "driving" =>
           d \in inDaemon' \/ \E i \in DOMAIN answers'[browser'[d]] : answers'[browser'[d]][i] = d
    BY <1>0, <2>1, <2>7
  <2>10. QED
    BY <2>6, <2>8, <2>9 DEF CarriedOutOnce
<1>7. ASSUME NEW c \in Calls,
             ReadFailure(c) \/ ReadWritten(c) \/ ReadStarted(c) \/ ReadStopped(c)
      PROVE  CarriedOutOnce'
  <2>1. Read(c) /\ at'[c] \notin Early \cup {"driving"} /\ \A d \in Calls : d # c => at'[d] = at[d]
    BY <1>7 DEF ReadFailure, ReadWritten, ReadStarted, ReadStopped, CallFails
  <2>2. QED
    BY <1>6, <2>1
<1>8. ASSUME NEW c \in Calls, Drive(c) PROVE CarriedOutOnce'
  BY <1>5, <1>8 DEF Drive, DriveWrite, DriveStart, DriveStop
<1>9. ASSUME NEW f \in Files, Unlink(f) \/ WriteFile(f) PROVE CarriedOutOnce'
  BY <1>1, <1>9 DEF Unlink, WriteFile, daemonVars
<1>10. ASSUME NEW b \in Browsers, DaemonReplaced(b) PROVE CarriedOutOnce'
  <2>1. /\ UNCHANGED <<at, answers, ok>>
        /\ inDaemon' = {c \in inDaemon : browser[c] = b => at[c] = "driving"}
    BY <1>10 DEF DaemonReplaced
  <2>2. QED
    BY <1>1, <2>1
<1>11. CASE AllOver \/ UNCHANGED vars
  BY <1>1, <1>11 DEF AllOver, vars, daemonVars
<1>12. QED
  BY <1>2, <1>3, <1>4, <1>7, <1>8, <1>9, <1>10, <1>11 DEF Next, FrontStep

LEMMA WaitedForKept ==
    ASSUME IInv, WaitedFor, CarriedOutOnce, StagedWhenSent, [Next]_vars
    PROVE  WaitedFor' /\ astray \subseteq astray'
<1> USE DEF TypeOK, IInv, Early
<1>1. ASSUME astray' = astray, inDaemon' \subseteq inDaemon,
             \A d \in inDaemon' : at[d] = "driving" => at'[d] = "driving"
      PROVE  WaitedFor' /\ astray \subseteq astray'
  BY <1>1 DEF WaitedFor
<1>2. ASSUME NEW c \in Calls,
             \/ Arrive(c) \/ PlanOutputFile(c) \/ PlanFails(c) \/ Unplan(c) \/ Conclude(c)
             \/ Settle(c) \/ DescribeFile(c) \/ TakeRecording(c) \/ Unreachable(c)
      PROVE  WaitedFor' /\ astray \subseteq astray'
  <2>1. UNCHANGED <<astray, inDaemon>>
    BY <1>2 DEF Arrive, PlanOutputFile, PlanFails, Unplan, Conclude, Settle, DescribeFile,
                TakeRecording, Unreachable, daemonVars, history
  <2>2. at[c] # "driving" /\ \A d \in Calls : d # c => at'[d] = at[d]
    BY <1>2 DEF Arrive, PlanOutputFile, PlanFails, Unplan, Conclude, Settle, DescribeFile,
                TakeRecording, Unreachable, CallFails
  <2>3. QED
    BY <1>1, <2>1, <2>2
<1>3. ASSUME NEW c \in Calls, Send(c) PROVE WaitedFor' /\ astray \subseteq astray'
  BY <1>3 DEF Send, history, WaitedFor
<1>4. ASSUME NEW c \in Calls, Deadline(c) PROVE WaitedFor' /\ astray \subseteq astray'
  BY <1>4 DEF Deadline, WaitedFor
<1>5. ASSUME NEW c \in Calls,
             ReadFailure(c) \/ ReadWritten(c) \/ ReadStarted(c) \/ ReadStopped(c)
      PROVE  WaitedFor' /\ astray \subseteq astray'
  <2>1. Read(c) /\ \A d \in Calls : d # c => at'[d] = at[d]
    BY <1>5 DEF ReadFailure, ReadWritten, ReadStarted, ReadStopped, CallFails
  <2>2. UNCHANGED <<astray, inDaemon>> /\ browser[c] \in Browsers
    BY <2>1 DEF Read, history, Requests
  <2>3. c \notin inDaemon
    <3>1. answers[browser[c]] \in Seq(Calls) /\ answers[browser[c]] # <<>>
          /\ answers[browser[c]][1] = c
      BY <2>1, <2>2 DEF Read
    <3>2. 1 \in DOMAIN answers[browser[c]]
      BY <3>1
    <3>3. QED
      BY <2>2, <3>1, <3>2 DEF CarriedOutOnce
  <2>4. QED
    BY <1>1, <2>1, <2>2, <2>3
<1>6. ASSUME NEW c \in Calls, NEW fine \in BOOLEAN, CarriedOut(c, fine), astray \subseteq astray'
      PROVE  WaitedFor' /\ astray \subseteq astray'
  BY <1>6 DEF CarriedOut, WaitedFor
<1>7. ASSUME NEW c \in Calls, Drive(c) PROVE WaitedFor' /\ astray \subseteq astray'
  BY <1>6, <1>7 DEF Drive, DriveWrite, DriveStart, DriveStop
<1>8. ASSUME NEW f \in Files, Unlink(f) \/ WriteFile(f) PROVE WaitedFor' /\ astray \subseteq astray'
  BY <1>1, <1>8 DEF Unlink, WriteFile, daemonVars, history
<1>9. ASSUME NEW b \in Browsers, DaemonReplaced(b) PROVE WaitedFor' /\ astray \subseteq astray'
  BY <1>1, <1>9 DEF DaemonReplaced
<1>10. CASE AllOver \/ UNCHANGED vars
  BY <1>1, <1>10 DEF AllOver, vars, daemonVars, history
<1>11. QED
  BY <1>2, <1>3, <1>4, <1>5, <1>7, <1>8, <1>9, <1>10 DEF Next, FrontStep

LEMMA StopsTakeKept ==
    ASSUME IInv, StopsTake, [Next]_vars
    PROVE  StopsTake'
<1> USE DEF TypeOK, IInv
<1>1. Notes
  BY Noting
<1>2. QED
  BY <1>1, SameRequests DEF Notes, StopsTake

LEMMA NextIsNumber ==
    ASSUME TypeOK
    PROVE  \A c \in Calls : next[c] \in 1..3 /\ next[c] \in Nat
BY DEF TypeOK

LEMMA DescribedFilesKept ==
    ASSUME Base, [Next]_vars
    PROVE  DescribedFiles'
<1> USE DEF Base, TypeOK, IInv
<1>0. astray \subseteq astray' /\ UNCHANGED <<kind, wants>>
      /\ \A c : Wanted(c)' = Wanted(c)
  BY SameRequests, WaitedForKept
<1>1. ASSUME staged' \subseteq staged \cup {f \in Files : f[1] \in inDaemon},
             \A d \in Calls : at'[d] \in {"describing", "driving"} =>
               at'[d] = at[d] /\ next'[d] = next[d]
      PROVE  DescribedFiles'
  <2>1. ASSUME NEW c \in Calls, at'[c] = "describing", astray' = {}, NEW f \in Taken(c)'
        PROVE  f \notin staged'
    <3>1. f \in Taken(c) /\ f[1] = c
      BY <1>0, <1>1, <2>1 DEF Taken, Wanted
    <3>2. f \notin staged
      BY <1>0, <1>1, <2>1, <3>1 DEF DescribedFiles
    <3>3. c \notin inDaemon
      BY <1>0, <1>1, <2>1 DEF WaitedFor
    <3>4. QED
      BY <1>1, <3>1, <3>2, <3>3
  <2>2. QED
    BY <1>0, <1>1, <2>1 DEF DescribedFiles
<1>2. ASSUME NEW c \in Calls,
             \/ Arrive(c) \/ PlanOutputFile(c) \/ PlanFails(c) \/ Unplan(c) \/ Conclude(c)
             \/ Settle(c) \/ TakeRecording(c) \/ Unreachable(c) \/ Deadline(c)
      PROVE  DescribedFiles'
  <2>1. staged' \subseteq staged
    BY <1>2 DEF Arrive, PlanOutputFile, PlanFails, Unplan, Conclude, Settle, TakeRecording,
                promoteFile, Unreachable, Deadline, diskVars
  <2>2. \A d \in Calls : at'[d] \in {"describing", "driving"} =>
           at'[d] = at[d] /\ next'[d] = next[d]
    BY <1>2 DEF Arrive, PlanOutputFile, PlanFails, Unplan, Conclude, Settle, TakeRecording,
                Unreachable, Deadline, CallFails
  <2>3. QED
    BY <1>1, <2>1, <2>2
<1>3. ASSUME NEW c \in Calls, Send(c) PROVE DescribedFiles'
  <2>1. staged' = staged /\ at' = [at EXCEPT ![c] = "driving"]
        /\ next' = [next EXCEPT ![c] = 1] /\ astray' = astray
    BY <1>3 DEF Send, diskVars, history
  <2>2. \A d \in Calls : d # c => Taken(d)' = Taken(d)
    BY <1>0, <2>1 DEF Taken
  <2>3. QED
    BY <1>0, <2>1, <2>2 DEF DescribedFiles
<1>4. ASSUME NEW c \in Calls, ReadFailure(c) \/ ReadStarted(c) \/ ReadStopped(c)
      PROVE  DescribedFiles'
  <2>1. staged' = staged
    BY <1>4 DEF ReadFailure, ReadStarted, ReadStopped, Read, diskVars
  <2>2. \A d \in Calls : at'[d] \in {"describing", "driving"} =>
           at'[d] = at[d] /\ next'[d] = next[d]
    BY <1>4 DEF ReadFailure, ReadStarted, ReadStopped, Read, CallFails
  <2>3. QED
    BY <1>1, <2>1, <2>2
<1>5. ASSUME NEW c \in Calls, ReadWritten(c) PROVE DescribedFiles'
  <2>1. /\ at[c] = "driving" /\ at' = [at EXCEPT ![c] = "describing"]
        /\ kind[c] \in {"write", "pair"} /\ UNCHANGED <<next, staged, astray>>
    BY <1>5 DEF ReadWritten, Read, diskVars, history
  <2>2. next[c] = 1
    BY <2>1 DEF DescribedFiles
  <2>3. \A f \in Wanted(c) : ~(f[2] < 1)
    BY TwoFiles, SMTT(30) DEF Wanted
  <2>4. Taken(c)' = {}
    BY <1>0, <2>1, <2>2, <2>3 DEF Taken
  <2>5. \A d \in Calls : d # c => Taken(d)' = Taken(d)
    BY <1>0, <2>1 DEF Taken
  <2>6. QED
    BY <1>0, <2>1, <2>2, <2>4, <2>5 DEF DescribedFiles
<1>6. ASSUME NEW c \in Calls, DescribeFile(c) PROVE DescribedFiles'
  <2> DEFINE f == <<c, next[c]>>
  <2>1. /\ at[c] = "describing" /\ next[c] \in DOMAIN wants[c] /\ astray' = astray
        /\ kind[c] \in {"write", "pair"}
    BY <1>6 DEF DescribeFile, history, DescribedFiles
  <2>2. \/ at' = [at EXCEPT ![c] = "settling"] /\ UNCHANGED <<next, staged>>
        \/ /\ at' = at /\ next' = [next EXCEPT ![c] = next[c] + 1]
           /\ staged' = staged \ {f}
    BY <1>6 DEF DescribeFile, promoteFile, diskVars
  <2>3. CASE at' = [at EXCEPT ![c] = "settling"] /\ UNCHANGED <<next, staged>>
    BY <1>1, <2>3
  <2>4. CASE /\ at' = at /\ next' = [next EXCEPT ![c] = next[c] + 1]
             /\ staged' = staged \ {f}
    <3>1. \A d \in Calls : d # c => next'[d] = next[d] /\ Taken(d)' = Taken(d)
      BY <1>0, <2>4 DEF Taken
    <3>2. ASSUME NEW g \in Taken(c)' PROVE g \in Taken(c) \/ g = f
      <4>1. next'[c] = next[c] + 1 /\ next[c] \in Nat
        <5>1. next'[c] = next[c] + 1
          BY <2>4
        <5>2. QED
          BY <5>1, NextIsNumber
      <4>2. g \in Wanted(c) /\ g[2] < next[c] + 1
        BY <1>0, <3>2, <4>1 DEF Taken
      <4>3. PICK i \in DOMAIN wants[c] : g = <<c, i>> /\ i \in 1..2
        BY <4>2, TwoFiles DEF Wanted
      <4>4. i < next[c] \/ i = next[c]
        BY <4>1, <4>2, <4>3
      <4>5. QED
        BY <4>2, <4>3, <4>4 DEF Taken
    <3>3. astray' = {} => \A g \in Taken(c)' : g \notin staged'
      BY <2>1, <2>4, <3>2 DEF DescribedFiles
    <3>4. QED
      BY <1>0, <2>1, <2>4, <3>1, <3>3 DEF DescribedFiles
  <2>5. QED
    BY <2>2, <2>3, <2>4
<1>7. ASSUME NEW c \in Calls, Drive(c) PROVE DescribedFiles'
  <2>1. c \in inDaemon /\ UNCHANGED <<at, next>>
        /\ staged' \subseteq staged \cup Wanted(c)
    BY <1>7 DEF Drive, DriveWrite, DriveStart, DriveStop, CarriedOut
  <2>2. \A f \in Wanted(c) : f \in Files /\ f[1] = c
    BY WantedAreFiles DEF Wanted
  <2>3. QED
    BY <1>1, <2>1, <2>2
<1>8. ASSUME NEW f \in Files, Unlink(f) \/ WriteFile(f) PROVE DescribedFiles'
  <2>1. UNCHANGED <<at, next>> /\ staged' \subseteq staged \cup {g \in Files : g[1] \in inDaemon}
    BY <1>8 DEF Unlink, WriteFile
  <2>2. QED
    BY <1>1, <2>1
<1>9. ASSUME NEW b \in Browsers, DaemonReplaced(b) PROVE DescribedFiles'
  <2>1. UNCHANGED <<at, next, staged>>
    BY <1>9 DEF DaemonReplaced, diskVars
  <2>2. QED
    BY <1>1, <2>1
<1>10. CASE AllOver \/ UNCHANGED vars
  <2>1. UNCHANGED <<at, next, staged>>
    BY <1>10 DEF AllOver, vars, diskVars
  <2>2. QED
    BY <1>1, <2>1
<1>11. QED
  BY <1>2, <1>3, <1>4, <1>5, <1>6, <1>7, <1>8, <1>9, <1>10 DEF Next, FrontStep

LEMMA BaseInvariant == Spec => []Base
<1>1. Init => Base
  BY Starts, NamesAreChosenFirst DEF Init, Base, StagedWhenSent, CarriedOutOnce, WaitedFor,
     StopsTake, DescribedFiles
<1>2. Base /\ IInv' /\ [Next]_vars => Base'
  <2> SUFFICES ASSUME Base, IInv', [Next]_vars PROVE Base'
    OBVIOUS
  <2>1. NamesAreChosen'
    BY SameRequests DEF Base, NamesAreChosen
  <2>2. QED
    BY <2>1, StagedWhenSentKept, CarriedOutOnceKept, WaitedForKept, StopsTakeKept,
       DescribedFilesKept DEF Base
<1>3. QED
  BY <1>1, <1>2, Inductive, PTL DEF Spec, Base

-----------------------------------------------------------------------------
(* The recording *)

\* Screencast calls of a browser that do not cross go one by one.
OneAt(b) ==
    \A c, d \in Calls : /\ Screencast(c) /\ Screencast(d) /\ browser[c] = b /\ browser[d] = b
                        /\ Busy(c) /\ Busy(d)
                        => c = d

\* The calls of kind k at browser b whose answer is not dealt with.
Dealing(b, k) == {c \in Calls : kind[c] = k /\ browser[c] = b /\ Past(c)}

\* What is planned is recorded, but for a stop that is still being dealt with;
\* and a start whose recording is not to be parked has recorded nothing.
Followed(b) ==
    /\ recordings[b] # None => recorder[b] # None \/ Dealing(b, "stop") # {}
    /\ \A c \in Dealing(b, "start") :
         /\ c \in ok => recorder[b] # None
         /\ recordings[b] # None => <<c, 1>> \notin staged

\* As long as every stop got to the recorder, the two are the same but for the
\* one call that is being dealt with.
Mirrored(b) ==
    /\ recordings[b] = recorder[b] \/ Dealing(b, "start") \cup Dealing(b, "stop") # {}
    /\ \A c \in Dealing(b, "start") :
         IF c \in ok /\ recordings[b] = None THEN recorder[b] = <<c, 1>>
         ELSE recordings[b] = recorder[b]
    /\ \A c \in Dealing(b, "stop") : recorder[b] = None

Tracked(b) ==
    b \notin crossed =>
        /\ OneAt(b)
        /\ astray = {} => Followed(b)
        /\ astray = {} /\ unreached = {} => Mirrored(b)

LEMMA OneAtKept ==
    ASSUME Base, [Next]_vars, NEW b \in Browsers, OneAt(b), b \notin crossed'
    PROVE  OneAt(b)'
<1> USE DEF Base, IInv
<1>1. request' = request /\ crossed \subseteq crossed' /\ Onward /\ Wakes
  BY Steps, GoingOn, Waking
<1>2. \A c : (Screencast(c)' <=> Screencast(c)) /\ browser'[c] = browser[c]
  BY <1>1 DEF Screencast, request
<1>3. ASSUME NEW c \in Calls, Busy(c)' PROVE Busy(c) \/ Arrive(c)
  BY <1>1, <1>3 DEF Onward, Wakes, Busy
<1>4. ASSUME NEW c \in Calls, Arrive(c), NEW d \in Calls, Screencast(c), Screencast(d),
             browser[c] = b, browser[d] = b
      PROVE  ~Busy(d)
  BY <1>4 DEF Arrive, TypeOK
<1>5. ASSUME NEW c \in Calls, NEW d \in Calls, Arrive(c), Arrive(d) PROVE c = d
  BY <1>5 DEF Arrive, TypeOK
<1>6. SUFFICES ASSUME NEW c \in Calls, NEW d \in Calls, Screencast(c), Screencast(d),
                      browser[c] = b, browser[d] = b, Busy(c)', Busy(d)'
               PROVE  c = d
  BY <1>2 DEF OneAt
<1>7. CASE Busy(c) /\ Busy(d)
  BY <1>6, <1>7 DEF OneAt
<1>8. CASE Arrive(c)
  BY <1>3, <1>4, <1>5, <1>6, <1>8
<1>9. CASE Arrive(d)
  BY <1>3, <1>4, <1>5, <1>6, <1>9
<1>10. QED
  BY <1>3, <1>6, <1>7, <1>8, <1>9

\* Whoever is dealt with is busy.
LEMMA DealingIsBusy ==
    ASSUME NEW c \in Calls, Past(c)
    PROVE  Busy(c)
  BY DEF Past, Busy

\* A step that leaves alone what b records, what is planned for it, and its calls
\* that are dealt with.
Aside(b) ==
    /\ recordings'[b] = recordings[b] /\ recorder'[b] = recorder[b]
    /\ \A c \in Calls : Screencast(c) /\ browser[c] = b =>
         (Past(c)' <=> Past(c)) /\ (c \in ok' <=> c \in ok)
    /\ \A c \in Calls : kind[c] = "start" /\ browser[c] = b /\ <<c, 1>> \in staged' =>
         <<c, 1>> \in staged
    /\ unreached \subseteq unreached' /\ astray \subseteq astray'

LEMMA AsideKeeps ==
    ASSUME UNCHANGED <<kind, browser>>, NEW b \in Browsers, Aside(b)
    PROVE  /\ Followed(b) => Followed(b)'
           /\ Mirrored(b) => Mirrored(b)'
<1>1. Dealing(b, "start")' = Dealing(b, "start") /\ Dealing(b, "stop")' = Dealing(b, "stop")
  BY DEF Aside, Dealing, Screencast
<1>2. \A c \in Dealing(b, "start") : /\ kind[c] = "start" /\ browser[c] = b /\ c \in Calls
                                     /\ Screencast(c)
  BY DEF Dealing, Screencast
<1>3. \A c \in Dealing(b, "start") : (c \in ok' <=> c \in ok)
                                     /\ (<<c, 1>> \in staged' => <<c, 1>> \in staged)
  BY <1>2 DEF Aside
<1>4. recordings'[b] = recordings[b] /\ recorder'[b] = recorder[b]
  BY DEF Aside
<1>5. Followed(b) => Followed(b)'
  BY <1>1, <1>3, <1>4 DEF Followed
<1>6. Mirrored(b) => Mirrored(b)'
  BY <1>1, <1>3, <1>4 DEF Mirrored
<1>7. QED
  BY <1>5, <1>6

\* The steps that may change what is recorded for b, what is planned for it, or
\* which of its calls are dealt with.
Deals(b, c) ==
    /\ Screencast(c) /\ browser[c] = b
    /\ \/ Unreachable(c) \/ Deadline(c) \/ Drive(c) \/ TakeRecording(c)
       \/ ReadFailure(c) \/ ReadStarted(c) \/ ReadStopped(c)

\* Only c goes on.
Alone(c) == \A d \in Calls : d # c => /\ at'[d] = at[d] /\ (d \in inDaemon' <=> d \in inDaemon)
                                      /\ (d \in ok' <=> d \in ok)

LEMMA NotDealtWith ==
    ASSUME Base, NEW b \in Browsers, NEW c \in Calls, Alone(c),
           ~(Screencast(c) /\ browser[c] = b)
    PROVE  \A d \in Calls : Screencast(d) /\ browser[d] = b =>
             (Past(d)' <=> Past(d)) /\ (d \in ok' <=> d \in ok)
  BY DEF Alone, Past

LEMMA HistoryGrows ==
    ASSUME Base, [Next]_vars
    PROVE  unreached \subseteq unreached' /\ astray \subseteq astray' /\ crossed \subseteq crossed'
<1> USE DEF Base, IInv
<1>1. astray \subseteq astray' /\ crossed \subseteq crossed'
  BY WaitedForKept, GoingOn
<1>2. ASSUME NEW c \in Calls,
             \/ Arrive(c) \/ PlanOutputFile(c) \/ PlanFails(c) \/ Unplan(c) \/ Conclude(c)
             \/ Settle(c) \/ DescribeFile(c) \/ TakeRecording(c) \/ Send(c)
      PROVE  unreached \subseteq unreached'
  BY <1>2 DEF Arrive, PlanOutputFile, PlanFails, Unplan, Conclude, Settle, DescribeFile,
              TakeRecording, Send, history
<1>3. ASSUME NEW c \in Calls, Unreachable(c) \/ Deadline(c) PROVE unreached \subseteq unreached'
  BY <1>3 DEF Unreachable, Deadline, Unreached
<1>4. ASSUME NEW c \in Calls,
             ReadFailure(c) \/ ReadWritten(c) \/ ReadStarted(c) \/ ReadStopped(c)
      PROVE  unreached \subseteq unreached'
  BY <1>4 DEF ReadFailure, ReadWritten, ReadStarted, ReadStopped, Read, history
<1>5. ASSUME NEW c \in Calls, Drive(c) PROVE unreached \subseteq unreached'
  BY <1>5 DEF Drive, DriveWrite, DriveStart, DriveStop, Unreached
<1>6. ASSUME NEW f \in Files, Unlink(f) \/ WriteFile(f) PROVE unreached \subseteq unreached'
  BY <1>6 DEF Unlink, WriteFile, history
<1>7. ASSUME NEW b \in Browsers, DaemonReplaced(b) PROVE unreached \subseteq unreached'
  BY <1>7 DEF DaemonReplaced
<1>8. CASE AllOver \/ UNCHANGED vars
  BY <1>8 DEF AllOver, vars, history
<1>9. QED
  BY <1>1, <1>2, <1>3, <1>4, <1>5, <1>6, <1>7, <1>8 DEF Next, FrontStep

\* Who reads an answer is not at work any more.
LEMMA ReadIsCarriedOut ==
    ASSUME Base, NEW c \in Calls, Read(c)
    PROVE  c \notin inDaemon /\ at[c] = "driving" /\ inDaemon' = inDaemon /\ ok' = ok
<1> USE DEF Base, IInv, TypeOK
<1>1. browser[c] \in Browsers
  BY DEF Requests
<1>2. answers[browser[c]] \in Seq(Calls) /\ answers[browser[c]] # <<>>
      /\ answers[browser[c]][1] = c
  BY <1>1 DEF Read
<1>3. 1 \in DOMAIN answers[browser[c]]
  BY <1>2
<1>4. QED
  BY <1>1, <1>2, <1>3 DEF CarriedOutOnce, Read

LEMMA OthersAreAside ==
    ASSUME Base, [Next]_vars, NEW b \in Browsers, ~DaemonReplaced(b),
           ~\E c \in Calls : Deals(b, c)
    PROVE  Aside(b)
<1> USE DEF Base, TypeOK, IInv
<1>0. unreached \subseteq unreached' /\ astray \subseteq astray'
  BY HistoryGrows
<1> DEFINE Leaves == recordings'[b] = recordings[b] /\ recorder'[b] = recorder[b]
           Same == \A d \in Calls : Screencast(d) /\ browser[d] = b =>
                     (Past(d)' <=> Past(d)) /\ (d \in ok' <=> d \in ok)
           NoneNew == \A d \in Calls : kind[d] = "start" /\ browser[d] = b /\ <<d, 1>> \in staged' =>
                     <<d, 1>> \in staged
<1>1. ASSUME Leaves, Same, NoneNew PROVE Aside(b)
  BY <1>0, <1>1 DEF Aside
<1>2. ASSUME NEW c \in Calls,
             \/ Arrive(c) \/ PlanOutputFile(c) \/ PlanFails(c) \/ Unplan(c) \/ Conclude(c)
             \/ Settle(c) \/ DescribeFile(c) \/ Send(c)
      PROVE  Aside(b)
  <2>1. UNCHANGED <<recordings, recorder, ok>>
    BY <1>2 DEF Arrive, PlanOutputFile, PlanFails, Unplan, Conclude, Settle, DescribeFile, Send,
                planVars, daemonVars
  <2>2. staged' \subseteq staged
    BY <1>2 DEF Arrive, PlanOutputFile, PlanFails, Unplan, Conclude, Settle, DescribeFile, Send,
                promoteFile, diskVars
  <2>3. \A d \in Calls : d # c => at'[d] = at[d] /\ (d \in inDaemon' <=> d \in inDaemon)
    BY <1>2 DEF Arrive, PlanOutputFile, PlanFails, Unplan, Conclude, Settle, DescribeFile, Send,
                daemonVars
  <2>4. at[c] \notin {"driving", "taking"}
    BY <1>2 DEF Arrive, PlanOutputFile, PlanFails, Unplan, Conclude, Settle, DescribeFile, Send
  <2>5. at'[c] # "taking" /\ (at'[c] = "driving" => c \in inDaemon')
    <3>1. CASE Send(c)
      BY <3>1 DEF Send
    <3>2. CASE ~Send(c)
      BY <1>2, <3>2 DEF Arrive, PlanOutputFile, PlanFails, Unplan, Conclude, Settle, DescribeFile
    <3>3. QED
      BY <3>1, <3>2
  <2>6. Same
    BY <2>1, <2>3, <2>4, <2>5 DEF Past
  <2>7. QED
    BY <1>1, <2>1, <2>2, <2>6
<1>3. ASSUME NEW c \in Calls, Unreachable(c) \/ Deadline(c), ~(Screencast(c) /\ browser[c] = b)
      PROVE  Aside(b)
  <2>1. UNCHANGED <<recorder, inDaemon, ok, staged>>
    BY <1>3 DEF Unreachable, Deadline, daemonVars, diskVars
  <2>2. recordings'[b] = recordings[b]
    BY <1>3 DEF Unreachable, Deadline, CallFails, planVars, forgetRecording, Screencast
  <2>3. Alone(c)
    BY <1>3, <2>1 DEF Unreachable, Deadline, CallFails, Alone
  <2>4. QED
    BY <1>1, <1>3, <2>1, <2>2, <2>3, NotDealtWith
<1>4. ASSUME NEW c \in Calls, ReadFailure(c) \/ ReadWritten(c) \/ ReadStarted(c) \/ ReadStopped(c),
             ~(Screencast(c) /\ browser[c] = b)
      PROVE  Aside(b)
  <2>1. UNCHANGED <<recorder, inDaemon, ok, staged>>
    BY <1>4 DEF ReadFailure, ReadWritten, ReadStarted, ReadStopped, Read, diskVars
  <2>2. recordings'[b] = recordings[b]
    BY <1>4 DEF ReadFailure, ReadWritten, ReadStarted, ReadStopped, Park, CallFails, planVars,
                forgetRecording, Screencast
  <2>3. Alone(c)
    BY <1>4, <2>1 DEF ReadFailure, ReadWritten, ReadStarted, ReadStopped, CallFails, Alone
  <2>4. QED
    BY <1>1, <1>4, <2>1, <2>2, <2>3, NotDealtWith
<1>5. ASSUME NEW c \in Calls, TakeRecording(c), ~(Screencast(c) /\ browser[c] = b)
      PROVE  Aside(b)
  <2>1. UNCHANGED <<recorder, inDaemon, ok>> /\ staged' \subseteq staged
    BY <1>5 DEF TakeRecording, promoteFile, daemonVars, diskVars
  <2>2. kind[c] = "stop"
    BY <1>5 DEF TakeRecording, StopsTake
  <2>3. recordings'[b] = recordings[b]
    BY <1>5, <2>2 DEF TakeRecording, forgetRecording, Screencast
  <2>4. Alone(c)
    BY <1>5, <2>1 DEF TakeRecording, Alone
  <2>5. QED
    BY <1>1, <1>5, <2>1, <2>3, <2>4, NotDealtWith
<1>6. ASSUME NEW c \in Calls, Drive(c), ~(Screencast(c) /\ browser[c] = b) PROVE Aside(b)
  <2>1. UNCHANGED <<recordings, at>> /\ inDaemon' = inDaemon \ {c} /\ ok' \subseteq ok \cup {c}
        /\ ok \subseteq ok'
    BY <1>6 DEF Drive, DriveWrite, DriveStart, DriveStop, CarriedOut, planVars
  <2>2. recorder'[b] = recorder[b]
    BY <1>6 DEF Drive, DriveWrite, DriveStart, DriveStop, Screencast
  <2>3. Alone(c)
    BY <2>1 DEF Alone
  <2>4. staged' \subseteq staged \/ (kind[c] = "start" /\ staged' \subseteq staged \cup Wanted(c))
    BY <1>6 DEF Drive, DriveWrite, DriveStart, DriveStop
  <2>5. NoneNew
    BY <1>6, <2>4 DEF Wanted, Screencast
  <2>6. QED
    BY <1>1, <1>6, <2>1, <2>2, <2>3, <2>5, NotDealtWith
<1>7. ASSUME NEW f \in Files, Unlink(f) \/ WriteFile(f) PROVE Aside(b)
  <2>1. UNCHANGED <<recordings, recorder, at, inDaemon, ok>>
    BY <1>7 DEF Unlink, WriteFile, planVars, daemonVars
  <2>2. staged' \subseteq staged \/ (kind[f[1]] # "start" /\ staged' \subseteq staged \cup {f})
    BY <1>7 DEF Unlink, WriteFile
  <2>3. NoneNew
    BY <2>2
  <2>4. QED
    BY <1>1, <2>1, <2>3 DEF Past
<1>8. ASSUME NEW d \in Browsers, DaemonReplaced(d) PROVE Aside(b)
  <2>1. d # b /\ UNCHANGED <<at, ok, staged>>
    BY <1>8 DEF DaemonReplaced, diskVars
  <2>2. recordings'[b] = recordings[b] /\ recorder'[b] = recorder[b]
    BY <1>8, <2>1 DEF DaemonReplaced, forgetRecording
  <2>3. \A c \in Calls : browser[c] = b => (c \in inDaemon' <=> c \in inDaemon)
    BY <1>8, <2>1 DEF DaemonReplaced
  <2>4. QED
    BY <1>1, <2>1, <2>2, <2>3 DEF Past
<1>9. CASE AllOver \/ UNCHANGED vars
  BY <1>1, <1>9 DEF AllOver, vars, planVars, daemonVars, diskVars, Past
<1>10. \A c \in Calls : ReadWritten(c) => ~Screencast(c)
  BY DEF ReadWritten, Screencast
<1>11. \A c \in Calls :
         \/ Unreachable(c) \/ Deadline(c) \/ ReadFailure(c) \/ ReadWritten(c) \/ ReadStarted(c)
         \/ ReadStopped(c) \/ TakeRecording(c) \/ Drive(c)
         => Aside(b)
  BY <1>3, <1>4, <1>5, <1>6, <1>10 DEF Deals
<1>12. QED
  BY <1>2, <1>7, <1>8, <1>9, <1>11 DEF Next, FrontStep

\* While a screencast call of b is busy, no other is dealt with.
LEMMA Sole ==
    ASSUME NEW b \in Browsers, OneAt(b), NEW c \in Calls, Screencast(c), browser[c] = b, Busy(c)
    PROVE  \A d \in Calls : Screencast(d) /\ browser[d] = b /\ Past(d) => d = c
  BY DealingIsBusy DEF OneAt

\* When none is dealt with any more, the plan is what the daemon records.
LEMMA NoneDealtWith ==
    ASSUME UNCHANGED <<kind, browser>>, NEW b \in Browsers, NEW c \in Calls, Alone(c), ~Past(c)',
           \A d \in Calls : Screencast(d) /\ browser[d] = b /\ Past(d) => d = c
    PROVE  /\ (recordings'[b] # None => recorder'[b] # None) => Followed(b)'
           /\ recordings'[b] = recorder'[b] => Mirrored(b)'
<1>1. \A d \in Calls : Screencast(d) /\ browser[d] = b => ~Past(d)'
  BY DEF Alone, Past
<1>2. Dealing(b, "start")' = {} /\ Dealing(b, "stop")' = {}
  BY <1>1 DEF Dealing, Screencast
<1>3. QED
  BY <1>2 DEF Followed, Mirrored

\* A step keeps what is planned in line with what is recorded.
Keeps(b) == /\ astray' = {} => Followed(b)'
            /\ astray' = {} /\ unreached' = {} => Mirrored(b)'

Tracking(b) == /\ astray = {} => Followed(b)
               /\ astray = {} /\ unreached = {} => Mirrored(b)

LEMMA ForgottenIsNone ==
    ASSUME TypeOK, NEW b \in Browsers, forgetRecording(b)
    PROVE  recordings'[b] = None
  BY DEF TypeOK, forgetRecording

LEMMA GivingUpKeeps ==
    ASSUME Base, [Next]_vars, NEW b \in Browsers, OneAt(b), Tracking(b),
           NEW c \in Calls, Screencast(c), browser[c] = b,
           Unreachable(c) \/ Deadline(c) \/ ReadFailure(c)
    PROVE  Keeps(b)
<1> USE DEF Base, TypeOK, IInv
<1>0. unreached \subseteq unreached' /\ astray \subseteq astray' /\ UNCHANGED <<kind, browser>>
  BY HistoryGrows, SameRequests
<1>1. CASE Deadline(c)
  BY <1>1 DEF Deadline, Keeps
<1>2. CASE Unreachable(c)
  <2>1. at[c] = "planning" /\ UNCHANGED <<inDaemon, ok, recorder, staged>>
    BY <1>2 DEF Unreachable, daemonVars, diskVars
  <2>2. Busy(c) /\ Alone(c) /\ at'[c] \in {"over", "settling"}
    BY <1>2, <2>1 DEF Unreachable, CallFails, Busy, Alone
  <2>3. \A d \in Calls : Screencast(d) /\ browser[d] = b /\ Past(d) => d = c
    BY <2>2, Sole
  <2>4. ~Past(c) /\ ~Past(c)'
    BY <2>1, <2>2 DEF Past
  <2>5. CASE kind[c] = "stop"
    <3>1. recordings'[b] = None
      BY <1>2, <2>5, ForgottenIsNone DEF Unreachable, CallFails
    <3>2. unreached' = {} => recorder[b] = None
      BY <1>2, <2>5 DEF Unreachable, Unreached
    <3>3. QED
      BY <1>0, <2>1, <2>2, <2>3, <2>4, <3>1, <3>2, NoneDealtWith DEF Keeps
  <2>6. CASE kind[c] # "stop"
    <3>1. recordings' = recordings
      BY <1>2, <2>6 DEF Unreachable, CallFails, planVars
    <3>2. \A d \in Calls : Screencast(d) /\ browser[d] = b => (Past(d)' <=> Past(d))
      BY <2>2, <2>3, <2>4 DEF Alone, Past
    <3>3. Aside(b)
      BY <1>0, <2>1, <3>1, <3>2 DEF Aside
    <3>4. QED
      BY <1>0, <3>3, AsideKeeps DEF Keeps, Tracking
  <2>7. QED
    BY <2>5, <2>6
<1>3. CASE ReadFailure(c)
  <2>1. /\ c \notin inDaemon /\ c \notin ok /\ at[c] = "driving"
        /\ UNCHANGED <<inDaemon, ok, recorder, staged>>
    BY <1>3, ReadIsCarriedOut DEF ReadFailure, Read, diskVars
  <2>2. Busy(c) /\ Past(c) /\ Alone(c) /\ at'[c] \in {"over", "settling"}
    BY <1>3, <2>1 DEF ReadFailure, CallFails, Busy, Past, Alone
  <2>3. \A d \in Calls : Screencast(d) /\ browser[d] = b /\ Past(d) => d = c
    BY <2>2, Sole
  <2>4. ~Past(c)'
    BY <2>2 DEF Past
  <2>5. CASE kind[c] = "stop"
    <3>1. recordings'[b] = None
      BY <1>3, <2>5, ForgottenIsNone DEF ReadFailure, CallFails
    <3>2. astray' = {} /\ unreached' = {} => recorder[b] = None
      BY <1>0, <2>2, <2>5 DEF Tracking, Mirrored, Dealing
    <3>3. QED
      BY <1>0, <2>1, <2>2, <2>3, <2>4, <3>1, <3>2, NoneDealtWith DEF Keeps
  <2>6. CASE kind[c] = "start"
    <3>1. recordings' = recordings
      BY <1>3, <2>6 DEF ReadFailure, CallFails, planVars
    <3>2. Dealing(b, "stop") = {} /\ c \in Dealing(b, "start")
      BY <2>2, <2>3, <2>6 DEF Dealing, Screencast
    <3>3. astray' = {} => (recordings'[b] # None => recorder'[b] # None)
      BY <1>0, <2>1, <3>1, <3>2 DEF Tracking, Followed
    <3>4. astray' = {} /\ unreached' = {} => recordings'[b] = recorder'[b]
      BY <1>0, <2>1, <3>1, <3>2 DEF Tracking, Mirrored
    <3>5. QED
      BY <1>0, <2>2, <2>3, <2>4, <3>3, <3>4, NoneDealtWith DEF Keeps
  <2>7. QED
    BY <2>5, <2>6 DEF Screencast
<1>4. QED
  BY <1>1, <1>2, <1>3

LEMMA AnsweringKeeps ==
    ASSUME Base, [Next]_vars, NEW b \in Browsers, OneAt(b), Tracking(b),
           NEW c \in Calls, Screencast(c), browser[c] = b,
           ReadStarted(c) \/ ReadStopped(c) \/ TakeRecording(c)
    PROVE  Keeps(b)
<1> USE DEF Base, TypeOK, IInv
<1>0. unreached \subseteq unreached' /\ astray \subseteq astray' /\ UNCHANGED <<kind, browser>>
  BY HistoryGrows, SameRequests
<1>1. CASE ReadStarted(c)
  <2>1. /\ c \notin inDaemon /\ c \in ok /\ at[c] = "driving" /\ kind[c] = "start"
        /\ UNCHANGED <<inDaemon, ok, recorder>>
    BY <1>1, ReadIsCarriedOut DEF ReadStarted, Read
  <2>2. Busy(c) /\ Past(c) /\ Alone(c) /\ at'[c] = "over"
    BY <1>1, <2>1 DEF ReadStarted, Busy, Past, Alone
  <2>3. \A d \in Calls : Screencast(d) /\ browser[d] = b /\ Past(d) => d = c
    BY <2>2, Sole
  <2>4. ~Past(c)' /\ c \in Dealing(b, "start")
    BY <2>1, <2>2 DEF Past, Dealing
  <2>5. astray' = {} => recorder'[b] # None
    BY <1>0, <2>1, <2>4 DEF Tracking, Followed
  <2>6. astray' = {} /\ unreached' = {} => recordings'[b] = recorder'[b]
    <3>1. CASE recordings[b] = None
      <4>1. recordings'[b] = <<c, 1>>
        BY <1>1, <3>1 DEF ReadStarted, Park
      <4>2. QED
        BY <1>0, <2>1, <2>4, <3>1, <4>1 DEF Tracking, Mirrored
    <3>2. CASE recordings[b] # None
      <4>1. recordings'[b] = recordings[b]
        BY <1>1, <3>2 DEF ReadStarted, Park
      <4>2. QED
        BY <1>0, <2>1, <2>4, <3>2, <4>1 DEF Tracking, Mirrored
    <3>3. QED
      BY <3>1, <3>2
  <2>7. QED
    BY <1>0, <2>2, <2>3, <2>4, <2>5, <2>6, NoneDealtWith DEF Keeps
<1>2. CASE ReadStopped(c)
  <2>1. /\ c \notin inDaemon /\ at[c] = "driving" /\ kind[c] = "stop"
        /\ UNCHANGED <<inDaemon, ok, recorder, staged>>
    BY <1>2, ReadIsCarriedOut DEF ReadStopped, Read, diskVars
  <2>2. Busy(c) /\ Past(c) /\ Alone(c) /\ at'[c] \in {"over", "taking"}
    BY <1>2, <2>1 DEF ReadStopped, Busy, Past, Alone
  <2>3. \A d \in Calls : Screencast(d) /\ browser[d] = b /\ Past(d) => d = c
    BY <2>2, Sole
  <2>4. c \in Dealing(b, "stop")
    BY <2>1, <2>2 DEF Dealing
  <2>5. CASE recordings[b] # None
    <3>1. at'[c] = "taking" /\ recordings' = recordings
      BY <1>2, <2>5 DEF ReadStopped, planVars
    <3>2. \A d \in Calls : Past(d)' <=> Past(d)
      BY <2>2, <3>1 DEF Alone, Past
    <3>3. Aside(b)
      BY <1>0, <2>1, <3>1, <3>2 DEF Aside
    <3>4. QED
      BY <1>0, <3>3, AsideKeeps DEF Keeps, Tracking
  <2>6. CASE recordings[b] = None
    <3>1. at'[c] = "over" /\ recordings'[b] = None
      BY <1>2, <2>6, ForgottenIsNone DEF ReadStopped
    <3>2. ~Past(c)'
      BY <3>1 DEF Past
    <3>3. astray' = {} /\ unreached' = {} => recorder'[b] = None
      BY <1>0, <2>1, <2>4 DEF Tracking, Mirrored
    <3>4. QED
      BY <1>0, <2>2, <2>3, <3>1, <3>2, <3>3, NoneDealtWith DEF Keeps
  <2>7. QED
    BY <2>5, <2>6
<1>3. CASE TakeRecording(c)
  <2>1. at[c] = "taking" /\ UNCHANGED <<inDaemon, ok, recorder>>
    BY <1>3 DEF TakeRecording, daemonVars
  <2>2. Busy(c) /\ Past(c) /\ Alone(c) /\ at'[c] = "over" /\ kind[c] = "stop"
    BY <1>3, <2>1 DEF TakeRecording, Busy, Past, Alone, StopsTake
  <2>3. \A d \in Calls : Screencast(d) /\ browser[d] = b /\ Past(d) => d = c
    BY <2>2, Sole
  <2>4. c \in Dealing(b, "stop") /\ ~Past(c)'
    BY <2>1, <2>2 DEF Dealing, Past
  <2>5. recordings'[b] = None
    BY <1>3, ForgottenIsNone DEF TakeRecording
  <2>6. astray' = {} /\ unreached' = {} => recorder'[b] = None
    BY <1>0, <2>1, <2>4 DEF Tracking, Mirrored
  <2>7. QED
    BY <1>0, <2>2, <2>3, <2>4, <2>5, <2>6, NoneDealtWith DEF Keeps
<1>4. QED
  BY <1>1, <1>2, <1>3

LEMMA DrivingKeeps ==
    ASSUME Base, [Next]_vars, NEW b \in Browsers, OneAt(b), Tracking(b),
           NEW c \in Calls, Screencast(c), browser[c] = b, Drive(c)
    PROVE  Keeps(b)
<1> USE DEF Base, TypeOK, IInv
<1> SUFFICES ASSUME astray' = {}
             PROVE  Followed(b)' /\ (unreached' = {} => Mirrored(b)')
  BY DEF Keeps
<1>0. /\ unreached \subseteq unreached' /\ astray = {} /\ UNCHANGED <<kind, browser>>
      /\ \A d \in Calls : Screencast(d)' <=> Screencast(d)
  BY HistoryGrows, SameRequests
<1>1. PICK fine \in BOOLEAN : DriveStart(c, fine) \/ DriveStop(c, fine)
  BY DEF Drive, DriveWrite, Screencast
<1>2. /\ c \in inDaemon /\ inDaemon' = inDaemon \ {c} /\ UNCHANGED <<at, recordings>>
      /\ ok' = IF fine THEN ok \cup {c} ELSE ok
  BY <1>1 DEF DriveStart, DriveStop, CarriedOut, planVars
<1>3. at[c] = "driving" /\ c \notin ok
  BY <1>0, <1>2 DEF WaitedFor, CarriedOutOnce
<1>4. Busy(c) /\ ~Past(c) /\ Past(c)' /\ Alone(c)
  BY <1>2, <1>3 DEF Busy, Past, Alone
<1>5. \A d \in Calls : Screencast(d) /\ browser[d] = b => ~Past(d)
  BY <1>4, Sole
<1>6. Dealing(b, "start") = {} /\ Dealing(b, "stop") = {}
  BY <1>5 DEF Dealing, Screencast
<1>7. \A d \in Calls : Screencast(d) /\ browser[d] = b /\ Past(d)' => d = c
  BY <1>2, <1>5 DEF Past
<1>8. /\ recordings[b] # None => recorder[b] # None
      /\ unreached' = {} => recordings[b] = recorder[b]
  BY <1>0, <1>6 DEF Tracking, Followed, Mirrored
<1>9. CASE DriveStart(c, fine)
  <2>1. Dealing(b, "start")' = {c} /\ Dealing(b, "stop")' = {}
    BY <1>0, <1>4, <1>7, <1>9 DEF Dealing, DriveStart, Screencast
  <2>2. CASE recorder[b] = None /\ recorder' = [recorder EXCEPT ![b] = <<c, 1>>]
             /\ astray' = (IF fine THEN astray ELSE astray \cup {c})
    <3>1. c \in ok'
      BY <1>2, <2>2
    <3>2. recorder'[b] = <<c, 1>> /\ <<c, 1>> # None /\ recordings'[b] = None
      BY <1>2, <1>8, <2>2, NoneIsNone
    <3>3. QED
      BY <2>1, <3>1, <3>2 DEF Followed, Mirrored
  <2>3. CASE (recorder[b] # None \/ ~fine) /\ UNCHANGED <<recorder, staged>>
    <3>1. <<c, 1>> \notin staged'
      BY <1>2, <1>9, <2>3 DEF StagedWhenSent, DriveStart
    <3>2. c \in ok' => recorder'[b] # None
      BY <1>2, <1>3, <2>3
    <3>3. QED
      BY <1>2, <1>8, <2>1, <2>3, <3>1, <3>2 DEF Followed, Mirrored
  <2>4. QED
    BY <1>9, <2>2, <2>3 DEF DriveStart
<1>10. CASE DriveStop(c, fine)
  <2>1. Dealing(b, "start")' = {} /\ Dealing(b, "stop")' = {c}
    BY <1>0, <1>4, <1>7, <1>10 DEF Dealing, DriveStop, Screencast
  <2>2. unreached' = {} => recorder'[b] = None
    <3>1. recorder' = [recorder EXCEPT ![b] = None] \/ (Unreached(c) /\ recorder' = recorder)
      BY <1>10 DEF DriveStop
    <3>2. QED
      BY <1>10, <3>1 DEF Unreached, DriveStop
  <2>3. QED
    BY <2>1, <2>2 DEF Followed, Mirrored
<1>11. QED
  BY <1>1, <1>9, <1>10

LEMMA ReplacingKeeps ==
    ASSUME Base, [Next]_vars, NEW b \in Browsers, DaemonReplaced(b), b \notin crossed'
    PROVE  Keeps(b)
<1> USE DEF Base, TypeOK, IInv
<1>1. /\ answers[b] = <<>> /\ UNCHANGED <<kind, browser, at>>
      /\ inDaemon' = {c \in inDaemon : browser[c] = b => at[c] = "driving"}
      /\ recorder'[b] = None /\ recordings'[b] = None
  BY ForgottenIsNone, SameRequests DEF DaemonReplaced
<1>2. \A c \in Calls : browser[c] = b => at[c] # "taking"
  BY DEF DaemonReplaced, CrossesStop
<1>3. \A c \in Calls : browser[c] = b /\ at[c] = "driving" => c \in inDaemon
  BY <1>1 DEF CarriedOutOnce
<1>4. \A c \in Calls : browser[c] = b => ~Past(c)'
  BY <1>1, <1>2, <1>3 DEF Past
<1>5. Dealing(b, "start")' = {} /\ Dealing(b, "stop")' = {}
  BY <1>1, <1>4 DEF Dealing
<1>6. QED
  BY <1>1, <1>5 DEF Keeps, Followed, Mirrored

LEMMA TrackedKept ==
    ASSUME Base, [Next]_vars, NEW b \in Browsers, Tracked(b)
    PROVE  Tracked(b)'
<1> SUFFICES ASSUME b \notin crossed' PROVE OneAt(b)' /\ Keeps(b)
  BY DEF Tracked, Keeps
<1>1. b \notin crossed
  BY HistoryGrows
<1>2. OneAt(b) /\ Tracking(b)
  BY <1>1 DEF Tracked, Tracking
<1>3. OneAt(b)'
  BY <1>2, OneAtKept
<1>4. CASE DaemonReplaced(b)
  BY <1>3, <1>4, ReplacingKeeps
<1>5. ASSUME NEW c \in Calls, Deals(b, c) PROVE Keeps(b)
  BY <1>2, <1>5, GivingUpKeeps, AnsweringKeeps, DrivingKeeps DEF Deals
<1>6. CASE ~DaemonReplaced(b) /\ ~\E c \in Calls : Deals(b, c)
  <2>1. Aside(b) /\ UNCHANGED <<kind, browser>>
    BY <1>6, OthersAreAside, SameRequests DEF Base
  <2>2. (Followed(b) => Followed(b)') /\ (Mirrored(b) => Mirrored(b)')
    BY <2>1, AsideKeeps
  <2>3. unreached \subseteq unreached' /\ astray \subseteq astray'
    BY HistoryGrows
  <2>4. QED
    BY <1>2, <1>3, <2>2, <2>3 DEF Keeps, Tracking
<1>7. QED
  BY <1>3, <1>4, <1>5, <1>6

LEMMA TrackedFirst == Init => \A b \in Browsers : Tracked(b)
  BY DEF Init, Tracked, OneAt, Busy, Followed, Mirrored, Dealing, Past

LEMMA TrackedInvariant == Spec => [](Base /\ \A b \in Browsers : Tracked(b))
<1>1. Base /\ (\A b \in Browsers : Tracked(b)) /\ [Next]_vars => (\A b \in Browsers : Tracked(b))'
  BY TrackedKept
<1>2. QED
  BY <1>1, TrackedFirst, BaseInvariant, PTL DEF Spec

\* The recording the front has planned is the one that runs, between the
\* screencast calls of a browser (fileresult.mjs:69).
THEOREM PlannedIsRecorded == Spec => []RecordingIsPlanned
<1>1. Base /\ (\A b \in Browsers : Tracked(b)) => RecordingIsPlanned
  <2> SUFFICES ASSUME Base, \A b \in Browsers : Tracked(b), astray = {}, unreached = {},
                      NEW b \in Browsers, b \notin crossed, Quiet(b)
               PROVE  recordings[b] = recorder[b]
    BY DEF RecordingIsPlanned
  <2>1. Mirrored(b)
    BY DEF Tracked
  <2>2. \A c \in Calls : Screencast(c) /\ browser[c] = b => ~Past(c)
    BY DealingIsBusy DEF Quiet
  <2>3. Dealing(b, "start") = {} /\ Dealing(b, "stop") = {}
    BY <2>2 DEF Dealing, Screencast
  <2>4. QED
    BY <2>1, <2>3 DEF Mirrored
<1>2. QED
  BY <1>1, TrackedInvariant, PTL

-----------------------------------------------------------------------------
(* The staging files *)

\* A file that was planned for is doomed when its plan is forgotten.
LEMMA ForgettingDooms ==
    ASSUME TypeOK, NEW b \in Browsers, forgetRecording(b), NEW f, IsNamed(f), f \in Files,
           f \in doomed \/ \E d \in Browsers : recordings[d] = f
    PROVE  f \in doomed' \/ \E d \in Browsers : recordings'[d] = f
<1>1. f # None
  BY NoneIsNone DEF Files
<1>2. CASE f \in doomed \/ recordings[b] = f
  BY <1>1, <1>2 DEF forgetRecording, Recording
<1>3. ASSUME NEW d \in Browsers, recordings[d] = f, d # b PROVE recordings'[d] = f
  BY <1>3 DEF forgetRecording, TypeOK
<1>4. QED
  BY <1>2, <1>3

\* The only call that ends with a file staged is a start whose file is parked.
LEMMA NoFileWhenOver ==
    ASSUME Base, NEW f \in staged
    PROVE  /\ \A c \in Calls : Unplan(c) \/ kind[c] = "stop" => f[1] # c
           /\ astray = {} => \A c \in Calls : Conclude(c) => f[1] # c
           /\ \A c \in Calls : kind[c] = "start" /\ f[1] = c => f = <<c, 1>>
<1> USE DEF Base, IInv
<1>1. f \in Wanted(f[1]) /\ at[f[1]] \notin Early /\ f[1] \in Calls
  BY DEF StagedWhenSent, TypeOK, Files
<1>2. PICK i \in DOMAIN wants[f[1]] : f = <<f[1], i>>
  BY <1>1 DEF Wanted
<1>3. \A c \in Calls : Unplan(c) \/ kind[c] = "stop" => f[1] # c
  BY <1>1, <1>2 DEF Unplan, Early, NamesAreChosen
<1>4. \A c \in Calls : kind[c] = "start" /\ f[1] = c => f = <<c, 1>>
  BY <1>1, <1>2 DEF Requests
<1>5. ASSUME astray = {}, Conclude(f[1]) PROVE FALSE
  <2>1. at[f[1]] = "describing" /\ next[f[1]] \notin DOMAIN wants[f[1]]
    BY <1>5 DEF Conclude
  <2>2. next[f[1]] \in 1..3
    BY <1>1, NextIsNumber
  <2>3. PICK n \in 0..2 : DOMAIN wants[f[1]] = 1..n
    BY <1>1 DEF Requests
  <2>4. i < next[f[1]]
    BY <1>2, <2>1, <2>2, <2>3
  <2>5. f \in Taken(f[1])
    BY <1>1, <1>2, <2>4 DEF Taken
  <2>6. QED
    BY <1>1, <1>5, <2>1, <2>5 DEF DescribedFiles
<1>6. QED
  BY <1>3, <1>4, <1>5

LEMMA LeftBehindKept ==
    ASSUME Base, \A b \in Browsers : Tracked(b), NothingIsLeftBehind, [Next]_vars
    PROVE  NothingIsLeftBehind'
<1> USE DEF Base, IInv, TypeOK
<1> DEFINE Kept(f) == \/ f \in doomed' \/ at'[f[1]] # "over"
                      \/ \E b \in Browsers : recordings'[b] = f
<1> SUFFICES ASSUME astray' = {}, crossed' = {}, NEW f \in staged' PROVE Kept(f)
  BY DEF NothingIsLeftBehind, Accounted
<1>0. astray = {} /\ crossed = {} /\ UNCHANGED <<kind, browser, wants>>
  BY HistoryGrows, SameRequests
<1>1. \A c \in inDaemon : at[c] = "driving"
  BY <1>0 DEF WaitedFor
<1>2. f \in staged => /\ f \in Files /\ f[1] \in Calls /\ IsNamed(f)
                      /\ \/ f \in doomed \/ at[f[1]] # "over"
                         \/ \E b \in Browsers : recordings[b] = f
  BY <1>0 DEF NothingIsLeftBehind, Accounted, StagedWhenSent, Files
<1>3. ASSUME f \in staged, doomed' = doomed, recordings' = recordings,
             at[f[1]] # "over" => at'[f[1]] # "over"
      PROVE  Kept(f)
  BY <1>2, <1>3
<1>4. ASSUME NEW c \in Calls, Arrive(c) \/ PlanOutputFile(c) \/ PlanFails(c) \/ Send(c)
      PROVE  Kept(f)
  <2>1. UNCHANGED <<doomed, recordings, staged>>
    BY <1>4 DEF Arrive, PlanOutputFile, PlanFails, Send, planVars, diskVars
  <2>2. \A d \in Calls : at[d] # "over" => at'[d] # "over"
    BY <1>4 DEF Arrive, PlanOutputFile, PlanFails, Send
  <2>3. QED
    BY <1>2, <1>3, <2>1, <2>2
<1>5. ASSUME NEW c \in Calls, Unplan(c) \/ Conclude(c) \/ Settle(c) \/ DescribeFile(c)
      PROVE  Kept(f)
  <2>1. UNCHANGED <<doomed, recordings>> /\ staged' \subseteq staged
    BY <1>5 DEF Unplan, Conclude, Settle, DescribeFile, promoteFile, planVars, diskVars
  <2>2. \A d \in Calls : d # c => at'[d] = at[d]
    BY <1>5 DEF Unplan, Conclude, Settle, DescribeFile
  <2>3. CASE Unplan(c) \/ Conclude(c)
    BY <1>0, <1>2, <1>3, <2>1, <2>2, <2>3, NoFileWhenOver
  <2>4. CASE Settle(c)
    <3>1. f[1] # c
      BY <2>1, <2>4 DEF Settle, StagedWhenSent
    <3>2. QED
      BY <1>2, <1>3, <2>1, <2>2, <3>1
  <2>5. CASE DescribeFile(c)
    <3>1. at[c] # "over" => at'[c] # "over"
      BY <2>5 DEF DescribeFile
    <3>2. QED
      BY <1>2, <1>3, <2>1, <2>2, <3>1
  <2>6. QED
    BY <1>5, <2>3, <2>4, <2>5
<1>6. ASSUME NEW c \in Calls, kind[c] = "stop", forgetRecording(browser[c]), f \in staged,
             \A d \in Calls : d # c => at'[d] = at[d]
      PROVE  Kept(f)
  <2>1. browser[c] \in Browsers /\ f[1] # c
    BY <1>6, NoFileWhenOver DEF Requests
  <2>2. QED
    BY <1>2, <1>6, <2>1, ForgettingDooms
<1>7. ASSUME NEW c \in Calls, CallFails(c), f \in staged PROVE Kept(f)
  <2>1. CASE kind[c] = "stop"
    BY <1>6, <1>7, <2>1 DEF CallFails
  <2>2. CASE kind[c] # "stop"
    <3>1. UNCHANGED <<doomed, recordings>> /\ at' = [at EXCEPT ![c] = "settling"]
      BY <1>7, <2>2 DEF CallFails, planVars
    <3>2. QED
      BY <1>2, <1>3, <1>7, <3>1
  <2>3. QED
    BY <2>1, <2>2
<1>8. ASSUME NEW c \in Calls, Unreachable(c) \/ Deadline(c) \/ ReadFailure(c) PROVE Kept(f)
  BY <1>7, <1>8 DEF Unreachable, Deadline, ReadFailure, Read, diskVars
<1>9. ASSUME NEW c \in Calls, ReadWritten(c) PROVE Kept(f)
  BY <1>2, <1>3, <1>9 DEF ReadWritten, Read, planVars, diskVars
<1>10. ASSUME NEW c \in Calls, ReadStarted(c) PROVE Kept(f)
  <2> DEFINE b == browser[c]
  <2>1. /\ c \notin inDaemon /\ at[c] = "driving" /\ kind[c] = "start" /\ c \in ok /\ Park(c)
        /\ at' = [at EXCEPT ![c] = "over"] /\ UNCHANGED <<doomed, staged>>
    BY <1>10, ReadIsCarriedOut DEF ReadStarted, Read, diskVars
  <2>2. b \in Browsers /\ c \in Dealing(b, "start") /\ Followed(b)
    BY <1>0, <2>1 DEF Requests, Dealing, Past, Tracked
  <2>3. CASE recordings[b] = None
    <3>1. recordings' = [recordings EXCEPT ![b] = <<c, 1>>]
      BY <2>1, <2>3 DEF Park
    <3>2. CASE f[1] = c
      BY <2>1, <2>2, <3>1, <3>2, NoFileWhenOver
    <3>3. CASE f[1] # c
      <4>1. f # None
        BY <1>2, <2>1, NoneIsNone DEF Files
      <4>2. QED
        BY <1>2, <2>1, <2>3, <3>1, <3>3, <4>1
    <3>4. QED
      BY <3>2, <3>3
  <2>4. CASE recordings[b] # None
    <3>1. recordings' = recordings
      BY <2>1, <2>4 DEF Park
    <3>2. f[1] # c
      BY <2>1, <2>2, <2>4, NoFileWhenOver DEF Followed
    <3>3. QED
      BY <1>2, <1>3, <2>1, <3>1, <3>2
  <2>5. QED
    BY <2>3, <2>4
<1>11. ASSUME NEW c \in Calls, ReadStopped(c) PROVE Kept(f)
  <2>1. staged' = staged /\ kind[c] = "stop"
    BY <1>11 DEF ReadStopped, Read, diskVars
  <2>2. CASE at' = [at EXCEPT ![c] = "taking"] /\ UNCHANGED planVars
    BY <1>2, <1>3, <2>1, <2>2 DEF planVars
  <2>3. CASE forgetRecording(browser[c]) /\ at' = [at EXCEPT ![c] = "over"]
    BY <1>6, <2>1, <2>3
  <2>4. QED
    BY <1>11, <2>2, <2>3 DEF ReadStopped
<1>12. ASSUME NEW c \in Calls, TakeRecording(c) PROVE Kept(f)
  <2>1. /\ staged' \subseteq staged /\ kind[c] = "stop" /\ forgetRecording(browser[c])
        /\ at' = [at EXCEPT ![c] = "over"]
    BY <1>12 DEF TakeRecording, promoteFile, diskVars, StopsTake
  <2>2. QED
    BY <1>6, <2>1
<1>13. ASSUME NEW c \in Calls, Drive(c) PROVE Kept(f)
  <2>1. c \in inDaemon /\ UNCHANGED <<at, doomed, recordings>> /\ staged' \subseteq staged \cup Wanted(c)
    BY <1>13 DEF Drive, DriveWrite, DriveStart, DriveStop, CarriedOut, planVars
  <2>2. \A g \in Wanted(c) : g[1] = c
    BY DEF Wanted
  <2>3. QED
    BY <1>1, <1>3, <2>1, <2>2
<1>14. ASSUME NEW g \in Files, Unlink(g) \/ WriteFile(g) PROVE Kept(f)
  <2>1. UNCHANGED <<at, recordings>>
    BY <1>14 DEF Unlink, WriteFile, planVars
  <2>2. CASE Unlink(g)
    BY <1>2, <2>1, <2>2 DEF Unlink
  <2>3. CASE WriteFile(g)
    BY <1>1, <1>2, <2>1, <2>3 DEF WriteFile, planVars
  <2>4. QED
    BY <1>14, <2>2, <2>3
<1>15. ASSUME NEW b \in Browsers, DaemonReplaced(b) PROVE Kept(f)
  <2>1. UNCHANGED <<at, staged>> /\ forgetRecording(b)
    BY <1>15 DEF DaemonReplaced, diskVars
  <2>2. QED
    BY <1>2, <2>1, ForgettingDooms
<1>16. CASE AllOver \/ UNCHANGED vars
  BY <1>2, <1>3, <1>16 DEF AllOver, vars, planVars, diskVars
<1>17. QED
  BY <1>4, <1>5, <1>8, <1>9, <1>10, <1>11, <1>12, <1>13, <1>14, <1>15, <1>16
     DEF Next, FrontStep

\* Every staging file is a call's in flight, the recording's, or about to go
\* (settleLeftoverFiles and forgetRecording).
THEOREM NothingLeftBehind == Spec => []NothingIsLeftBehind
<1>1. Init => NothingIsLeftBehind
  BY DEF Init, NothingIsLeftBehind
<1>2. Base /\ (\A b \in Browsers : Tracked(b)) /\ NothingIsLeftBehind /\ [Next]_vars
      => NothingIsLeftBehind'
  BY LeftBehindKept
<1>3. QED
  BY <1>1, <1>2, TrackedInvariant, PTL DEF Spec
=============================================================================
