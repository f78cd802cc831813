SPECIFICATION FairSpec
CONSTANTS
    Dialogs = {d1, d2}
    BeforeUnload = {d1}
    None = None
    Tools = {"click", "double_click", "click_at", "hover", "toggle", "fill", "type_text", "press_key", "drag", "upload_file", "fill_form", "navigate_page", "evaluate_script", "navigate"}
INVARIANTS
    TypeOK
    
    RecordIsTheOpenDialog
    StreamsAreCutShort

    
