------------------------------- MODULE Input --------------------------------
(***************************************************************************)
(* Pad 1 in the frontend (frontend/main.c): at each frame edge poll_input  *)
(* passes the window's events to the keyboard filter (frontend/input.c)    *)
(* and reads the controller; set_input joins them with the script's spans, *)
(* sets the pad of the frame to come and records it (runtime/replay.c).    *)
(* Steam Input's desktop layout sends a key along with some controller     *)
(* buttons; a key press within Window frames of a button press, in either  *)
(* order, is a duplicate, ignored until released.  A pad value is the set  *)
(* of its buttons that are held.                                           *)
(***************************************************************************)
EXTENDS Integers, Sequences

CONSTANTS
    Buttons,     \* the twelve buttons (bits 4-15 of a pad value)
    IdBits,      \* the pad ID bits (0-3): a script's hex mask can set them
    Keys,        \* scancodes
    KeyMap,      \* the button of each key that has one
    PadMap,      \* the buttons a controller has
    Script,      \* the spans of --script
    Window,      \* KEY_FILTER_FRAMES (2)
    MaxFrame     \* bound: frames of a behaviour

VARIABLES
    frame,       \* frames completed: poll_input(frame) is under way
    held, ignored, pressedAt,  \* key_filter, per key
    lastButton,  \* key_filter.last_button
    controller,  \* key_filter.controller, set as a poll begins
    attached,    \* main.c's pad: a controller is open
    rec,         \* the recorder: its open span
    file,        \* the spans written
    open,        \* w->f is open
    down,        \* history: the keys that are physically down
    presses,     \* history: the frames with a controller press
    active,      \* history: the frames polled with a controller active
    given        \* history: sched_set_joypad's value for each frame

filterVars == <<held, ignored, pressedAt, lastButton, controller>>
recVars == <<rec, file, open, given>>
vars == <<frame, filterVars, attached, recVars, down, presses, active>>

Pads == SUBSET (Buttons \union IdBits)
Span == [from : Nat, to : Nat, buttons : Pads]

Never == -1000

ASSUME InputAssumption ==
    /\ Window \in Nat /\ Window < 1000 /\ MaxFrame \in Nat
    /\ Script \in Seq(Span)
    /\ \A k \in DOMAIN Script : 1 <= Script[k].from /\ Script[k].from <= Script[k].to
    /\ DOMAIN KeyMap \subseteq Keys /\ \A k \in DOMAIN KeyMap : KeyMap[k] \in Buttons
    /\ PadMap \subseteq Buttons /\ Buttons \intersect IdBits = {}

----------------------------------------------------------------------------
(* The keyboard filter.                                                    *)

(* near_button.                                                            *)
NearAfter == controller /\ frame - lastButton \in 1 .. Window   \* mutant: not in its own frame
NearButton == controller /\ frame - lastButton \in -Window .. Window

(* key_filter_key, at a key event that is no repeat.                       *)
KeyDown(k) ==
    /\ k \notin down /\ down' = down \union {k}
    /\ pressedAt' = [pressedAt EXCEPT ![k] = frame]
    /\ IF NearButton
       THEN ignored' = ignored \union {k} /\ held' = held \ {k}
       ELSE /\ UNCHANGED ignored
            /\ held' = IF k \in ignored THEN held ELSE held \union {k}
    /\ UNCHANGED <<frame, lastButton, controller, attached, recVars, presses, active>>

AllIgnored(k) == ignored           \* mutant: released, still ignored
StillIgnored(k) == ignored \ {k}

KeyUp(k) ==
    /\ k \in down /\ down' = down \ {k}
    /\ held' = held \ {k} /\ ignored' = StillIgnored(k)
    /\ UNCHANGED <<frame, pressedAt, lastButton, controller, attached, recVars, presses, active>>

(* key_filter_button: the keys that came just before are its duplicates.   *)
Duplicates == {k \in held : controller /\ frame - pressedAt[k] <= Window}

StillHeld == held \ Duplicates

Button ==
    /\ attached
    /\ lastButton' = frame /\ presses' = presses \union {frame}
    /\ held' = StillHeld /\ ignored' = ignored \union Duplicates
    /\ UNCHANGED <<frame, pressedAt, controller, attached, recVars, down, active>>

(* A controller comes or goes in the middle of a poll.                     *)
Device ==
    /\ attached' = ~attached
    /\ UNCHANGED <<frame, filterVars, recVars, down, presses, active>>

----------------------------------------------------------------------------
(* The pad's value and its recorder.                                       *)

(* input_keyboard, input_controller: the poll's end.                       *)
Keyboard == {KeyMap[k] : k \in held \intersect DOMAIN KeyMap}
LiveButtons == {Keyboard \union c : c \in IF attached THEN SUBSET PadMap ELSE {{}}}

(* replay_buttons: overlapping spans combine.                              *)
ReplayButtons(spans, f) ==
    UNION {spans[k].buttons : k \in {j \in DOMAIN spans : spans[j].from <= f /\ f <= spans[j].to}}

Flushed == IF rec.buttons = {} THEN file
           ELSE Append(file, [from |-> rec.from, to |-> rec.last, buttons |-> rec.buttons])

(* Whether frame f, with buttons b, begins a new span.                     *)
NewSpanOnPress(f, b) == ~(b \subseteq rec.buttons)   \* mutant: a release goes on
NewSpan(f, b) == b # rec.buttons \/ f # rec.last + 1

Recorded(b) == b \ IdBits

RecFrame(f, all) ==
    LET b == Recorded(all) IN
    IF NewSpan(f, b)
    THEN file' = Flushed /\ rec' = [from |-> f, last |-> f, buttons |-> b]
    ELSE rec' = [rec EXCEPT !.last = f] /\ UNCHANGED file

(* set_input(f): the pad for frame f, with live buttons l, recorded.       *)
SetInput(f, l) ==
    LET b == l \union ReplayButtons(Script, f) IN
    /\ given' = Append(given, b)
    /\ RecFrame(f, b)

(* The end of poll_input(frame) and set_input(frame + 1), before the first *)
(* frame and in each on_frame, which advance calls at a frame edge and     *)
(* soft_reset when a reset ends the frame.  The next poll_input begins     *)
(* with the filter learning whether there is a controller.                 *)
OnFrame ==
    /\ open /\ frame < MaxFrame /\ frame' = frame + 1
    /\ \E l \in LiveButtons : SetInput(frame + 1, l)
    /\ controller' = attached
    /\ active' = IF attached THEN active \union {frame + 1} ELSE active
    /\ UNCHANGED <<held, ignored, pressedAt, lastButton, attached, open, down, presses>>

(* close_record, at any exit: Ctrl+Q, --frames reached or a fatal error.   *)
Close ==
    /\ open /\ open' = FALSE
    /\ file' = Flushed
    /\ UNCHANGED <<frame, filterVars, attached, rec, given, down, presses, active>>

(* replay_rec_open, key_filter_init and the start of poll_input(0).        *)
Init ==
    /\ frame = 0 /\ held = {} /\ ignored = {} /\ pressedAt = [k \in Keys |-> 0]
    /\ lastButton = Never
    /\ attached \in BOOLEAN /\ controller = attached
    /\ open = TRUE /\ file = <<>> /\ rec = [from |-> 0, last |-> 0, buttons |-> {}]
    /\ down = {} /\ presses = {} /\ active = (IF attached THEN {0} ELSE {}) /\ given = <<>>

Events == (\E k \in Keys : KeyDown(k) \/ KeyUp(k)) \/ Button \/ Device

(* After an exit there are no more events.                                 *)
Next == (open /\ Events) \/ OnFrame \/ Close

Spec == Init /\ [][Next]_vars

----------------------------------------------------------------------------
(* Properties.                                                             *)

NearPress(k, b) == b - pressedAt[k] \in -Window .. Window

(* "A key press within KEY_FILTER_FRAMES of a controller button press      *)
(* (either order) is ignored until that key is released": with the         *)
(* controller active all the while, such a key is not held.                *)
DuplicatesIgnored ==
    \A k \in down, b \in presses :
        /\ NearPress(k, b)
        /\ \A f \in 0 .. MaxFrame :
             (pressedAt[k] <= f /\ f <= b) \/ (b <= f /\ f <= pressedAt[k]) => f \in active
        => k \notin held

(* No other key is lost: one pressed apart from every controller press is  *)
(* held as long as it is down, and none is held once it is up.             *)
OthersHeld ==
    /\ held \subseteq down
    /\ \A k \in down : (\A b \in presses : ~NearPress(k, b)) => k \in held

(* A recording, closed at whichever frame the program ended, holds in      *)
(* every frame the buttons that frame had, script and live input together, *)
(* and none after; its spans come in order, and two that touch differ      *)
(* ("one span per run of identical nonzero buttons").                      *)
RecordingHolds ==
    ~open =>
        /\ \A f \in 1 .. frame : ReplayButtons(file, f) = Recorded(given[f])
        /\ \A k \in 1 .. Len(file) : file[k].to <= frame
        /\ \A k \in 1 .. Len(file) - 1 :
             /\ file[k].to < file[k + 1].from
             /\ file[k].to + 1 = file[k + 1].from => file[k].buttons # file[k + 1].buttons
=============================================================================
