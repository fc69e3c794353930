CONSTANTS
    None = None
    Tab = {t1, t2, t3}
    Pair = {t1, t2}
    Mood = {m1}
    Tinted = {bg}
    Plain = {text}
    Picks = {m1, "own"}
    Ops = {"home", "mood", "style", "delete"}
    Faults = {"db"}
    MaxClock = 4
SPECIFICATION MCSpec
SYMMETRY Sym
CHECK_DEADLOCK FALSE
INVARIANTS MoodRecorded StylesheetCurrent FormsFaithful SomeoneProceeds
