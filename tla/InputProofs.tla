---------------------------- MODULE InputProofs -----------------------------
(***************************************************************************)
(* Proofs about Input: the keyboard filter ignores the duplicates and only *)
(* those, and a recording gives back every frame's buttons, for every      *)
(* window, script, set of keys and number of frames.                       *)
(***************************************************************************)
EXTENDS Input, TLAPS

----------------------------------------------------------------------------
(* The keyboard filter.                                                    *)

(* The filter's variables and the histories of its properties.             *)
FilterType ==
    /\ frame \in 0 .. MaxFrame
    /\ held \subseteq Keys /\ ignored \subseteq Keys /\ down \subseteq Keys
    /\ pressedAt \in [Keys -> 0 .. frame]
    /\ presses \subseteq 0 .. frame /\ active \subseteq 0 .. frame
    /\ controller \in BOOLEAN /\ attached \in BOOLEAN

(* A key that is down is held or ignored, never both, and no other is; the *)
(* last press the filter knows is the latest; it goes by what the          *)
(* controller was as the frame's poll began.                               *)
FilterInv ==
    /\ FilterType
    /\ held \union ignored = down /\ held \intersect ignored = {}
    /\ presses = {} => lastButton = Never
    /\ presses # {} => lastButton \in presses /\ \A b \in presses : b <= lastButton
    /\ controller <=> frame \in active

LEMMA WindowType == Window \in Nat /\ Window < 1000 /\ MaxFrame \in Nat
  BY InputAssumption

(* With the keys' and presses' types the filter sees a press near just     *)
(* when there is one.                                                      *)
LEMMA NearIsLast ==
    ASSUME FilterInv
    PROVE  NearButton <=> controller /\ \E b \in presses : frame - b <= Window
  <1>1. frame \in Nat /\ presses \subseteq 0 .. frame  BY WindowType DEF FilterInv, FilterType
  <1>2. CASE presses = {}
    <2>1. lastButton = -1000  BY <1>2 DEF FilterInv, Never
    <2> QED  BY <1>1, <1>2, <2>1, WindowType DEF NearButton
  <1>3. CASE presses # {}
    <2>1. lastButton \in presses /\ \A b \in presses : b <= lastButton
      BY <1>3 DEF FilterInv
    <2>2. lastButton \in 0 .. frame  BY <1>1, <2>1
    <2>3. frame - lastButton \in -Window .. Window <=> frame - lastButton <= Window
      BY <1>1, <2>2, WindowType
    <2>4. (\E b \in presses : frame - b <= Window) <=> frame - lastButton <= Window
      BY <1>1, <2>1, <2>2, WindowType
    <2> QED  BY <2>3, <2>4 DEF NearButton
  <1> QED  BY <1>2, <1>3

LEMMA FilterInit == ASSUME Init PROVE FilterInv /\ DuplicatesIgnored /\ OthersHeld
  BY WindowType DEF Init, FilterInv, FilterType, DuplicatesIgnored, OthersHeld

LEMMA KeyDownFilter ==
    ASSUME FilterInv, DuplicatesIgnored, OthersHeld, NEW k \in Keys, KeyDown(k)
    PROVE  FilterInv' /\ DuplicatesIgnored' /\ OthersHeld'
  <1> USE WindowType
  <1>1. FilterType'  BY DEF KeyDown, FilterInv, FilterType
  <1>2. FilterInv'
    BY <1>1 DEF KeyDown, FilterInv
  <1>3. /\ frame \in Nat /\ presses \subseteq 0 .. frame
        /\ presses' = presses /\ frame' = frame /\ active' = active
        /\ pressedAt'[k] = frame /\ \A j \in down : j # k /\ pressedAt'[j] = pressedAt[j]
        /\ \A j \in down : j \in held' <=> j \in held
        /\ k \in held' <=> ~NearButton
        /\ down' = down \union {k}
    BY DEF KeyDown, FilterInv, FilterType
  <1>4. NearButton <=> controller /\ \E b \in presses : frame - b <= Window  BY NearIsLast
  <1>5. ASSUME NEW j \in down', NEW b \in presses', NearPress(j, b)',
               \A f \in 0 .. MaxFrame :
                 (pressedAt'[j] <= f /\ f <= b) \/ (b <= f /\ f <= pressedAt'[j]) => f \in active'
        PROVE  j \notin held'
    <2>1. CASE j \in down
      BY <1>3, <1>5, <2>1 DEF DuplicatesIgnored, NearPress
    <2>2. CASE j = k
      <3>1. b \in 0 .. frame /\ frame - b <= Window
        BY <1>3, <1>5, <2>2 DEF NearPress
      <3>2. frame \in active
        BY <1>3, <1>5, <2>2, <3>1 DEF FilterInv, FilterType
      <3> QED  BY <1>3, <1>4, <2>2, <3>1, <3>2 DEF FilterInv
    <2> QED  BY <1>3, <2>1, <2>2
  <1>6. DuplicatesIgnored'
    BY <1>5 DEF DuplicatesIgnored
  <1>7. ASSUME NEW j \in down', \A b \in presses' : ~NearPress(j, b)'  PROVE j \in held'
    <2>1. CASE j \in down
      BY <1>3, <1>7, <2>1 DEF OthersHeld, NearPress
    <2>2. CASE j = k
      <3>1. ASSUME NEW b \in presses, frame - b <= Window  PROVE FALSE
        BY <1>3, <1>7, <2>2, <3>1 DEF NearPress
      <3> QED  BY <1>3, <1>4, <2>2, <3>1
    <2> QED  BY <1>3, <2>1, <2>2
  <1>8. OthersHeld'
    BY <1>2, <1>7 DEF OthersHeld, FilterInv
  <1> QED  BY <1>2, <1>6, <1>8

LEMMA KeyUpFilter ==
    ASSUME FilterInv, DuplicatesIgnored, OthersHeld, NEW k \in Keys, KeyUp(k)
    PROVE  FilterInv' /\ DuplicatesIgnored' /\ OthersHeld'
  <1>1. FilterInv'
    BY DEF KeyUp, StillIgnored, FilterInv, FilterType
  <1>2. DuplicatesIgnored' /\ OthersHeld'
    BY DEF KeyUp, FilterInv, FilterType, DuplicatesIgnored, OthersHeld, NearPress
  <1> QED  BY <1>1, <1>2

LEMMA ButtonFilter ==
    ASSUME FilterInv, DuplicatesIgnored, OthersHeld, Button
    PROVE  FilterInv' /\ DuplicatesIgnored' /\ OthersHeld'
  <1> USE WindowType
  <1>1. /\ frame \in Nat /\ pressedAt \in [Keys -> 0 .. frame] /\ held \subseteq Keys
        /\ presses \subseteq 0 .. frame /\ presses' = presses \union {frame}
        /\ down \subseteq Keys
        /\ frame' = frame /\ pressedAt' = pressedAt /\ active' = active /\ down' = down
        /\ controller' = controller
        /\ held' = held \ Duplicates /\ lastButton' = frame
    BY DEF Button, StillHeld, FilterInv, FilterType
  <1>2. FilterType'
    BY DEF Button, StillHeld, Duplicates, FilterInv, FilterType
  <1>3. /\ (held \union ignored = down)' /\ (held \intersect ignored = {})'
    BY DEF Button, StillHeld, Duplicates, FilterInv
  <1>4. FilterInv'
    BY <1>1, <1>2, <1>3 DEF FilterInv
  <1>5. ASSUME NEW j \in down', NEW b \in presses', NearPress(j, b)',
               \A f \in 0 .. MaxFrame :
                 (pressedAt'[j] <= f /\ f <= b) \/ (b <= f /\ f <= pressedAt'[j]) => f \in active'
        PROVE  j \notin held'
    <2>1. CASE b \in presses
      BY <1>1, <1>5, <2>1 DEF DuplicatesIgnored, NearPress
    <2>2. CASE b = frame
      <3>1. frame - pressedAt[j] <= Window  BY <1>1, <1>5, <2>2 DEF NearPress
      <3>2. frame \in active
        BY <1>1, <1>5, <2>2 DEF FilterInv, FilterType
      <3>3. controller  BY <3>2 DEF FilterInv
      <3> QED  BY <1>1, <3>1, <3>3 DEF Duplicates
    <2> QED  BY <1>1, <2>1, <2>2
  <1>6. DuplicatesIgnored'
    BY <1>5 DEF DuplicatesIgnored
  <1>7. ASSUME NEW j \in down', \A b \in presses' : ~NearPress(j, b)'  PROVE j \in held'
    <2>1. j \in held
      BY <1>1, <1>7 DEF OthersHeld, NearPress
    <2>2. ~(frame - pressedAt[j] <= Window)
      BY <1>1, <1>7 DEF NearPress
    <2> QED  BY <1>1, <2>1, <2>2 DEF Duplicates
  <1>8. OthersHeld'
    BY <1>4, <1>7 DEF OthersHeld, FilterInv
  <1> QED  BY <1>4, <1>6, <1>8

LEMMA OnFrameFilter ==
    ASSUME FilterInv, DuplicatesIgnored, OthersHeld, OnFrame
    PROVE  FilterInv' /\ DuplicatesIgnored' /\ OthersHeld'
  <1> USE WindowType
  <1>1. /\ frame \in Nat /\ frame < MaxFrame /\ frame' = frame + 1
        /\ presses \subseteq 0 .. frame /\ active \subseteq 0 .. frame
        /\ pressedAt \in [Keys -> 0 .. frame] /\ down \subseteq Keys
        /\ active' = (IF attached THEN active \union {frame + 1} ELSE active)
        /\ controller' = attached /\ attached' = attached
        /\ UNCHANGED <<held, ignored, pressedAt, lastButton, down, presses>>
    BY DEF OnFrame, FilterInv, FilterType
  <1>2. FilterType'
    BY <1>1 DEF FilterInv, FilterType
  <1>3. FilterInv'
    BY <1>1, <1>2 DEF FilterInv
  <1>4. ASSUME NEW j \in down, NEW b \in presses, NEW f \in 0 .. MaxFrame, f \in active',
               (pressedAt[j] <= f /\ f <= b) \/ (b <= f /\ f <= pressedAt[j])
        PROVE  f \in active
    BY <1>1, <1>4
  <1>5. DuplicatesIgnored' /\ OthersHeld'
    BY <1>1, <1>4 DEF DuplicatesIgnored, OthersHeld, NearPress
  <1> QED  BY <1>3, <1>5

LEMMA FilterStep ==
    ASSUME FilterInv, DuplicatesIgnored, OthersHeld, [Next]_vars
    PROVE  FilterInv' /\ DuplicatesIgnored' /\ OthersHeld'
  <1>1. CASE \E k \in Keys : KeyDown(k)  BY <1>1, KeyDownFilter
  <1>2. CASE \E k \in Keys : KeyUp(k)  BY <1>2, KeyUpFilter
  <1>3. CASE Button  BY <1>3, ButtonFilter
  <1>4. CASE Device
    BY <1>4 DEF Device, filterVars, FilterInv, FilterType, DuplicatesIgnored, OthersHeld, NearPress
  <1>5. CASE OnFrame  BY <1>5, OnFrameFilter
  <1>6. CASE Close
    BY <1>6 DEF Close, filterVars, FilterInv, FilterType, DuplicatesIgnored, OthersHeld, NearPress
  <1>7. CASE UNCHANGED vars
    BY <1>7 DEF vars, filterVars, FilterInv, FilterType, DuplicatesIgnored, OthersHeld, NearPress
  <1> QED  BY <1>1, <1>2, <1>3, <1>4, <1>5, <1>6, <1>7 DEF Next, Events

(* "Ignored until that key is released": no key pressed near a controller  *)
(* press is held, whichever of the two came first (key_filter_key,         *)
(* key_filter_button).                                                     *)
THEOREM DuplicatesTheorem == Spec => []DuplicatesIgnored
  <1>1. Init => FilterInv /\ DuplicatesIgnored /\ OthersHeld  BY FilterInit
  <1>2. FilterInv /\ DuplicatesIgnored /\ OthersHeld /\ [Next]_vars
          => (FilterInv /\ DuplicatesIgnored /\ OthersHeld)'  BY FilterStep
  <1> QED  BY <1>1, <1>2, PTL DEF Spec

(* Every other key is held exactly while it is down.                       *)
THEOREM OthersTheorem == Spec => []OthersHeld
  <1>1. Init => FilterInv /\ DuplicatesIgnored /\ OthersHeld  BY FilterInit
  <1>2. FilterInv /\ DuplicatesIgnored /\ OthersHeld /\ [Next]_vars
          => (FilterInv /\ DuplicatesIgnored /\ OthersHeld)'  BY FilterStep
  <1> QED  BY <1>1, <1>2, PTL DEF Spec

----------------------------------------------------------------------------
(* The recorder.                                                           *)

(* The span the recorder has open, as the file would hold it.              *)
OpenSpan == [from |-> rec.from, to |-> rec.last, buttons |-> rec.buttons]

RecType ==
    /\ frame \in Nat
    /\ given \in Seq(Pads) /\ Len(given) = frame
    /\ rec \in [from : Nat, last : Nat, buttons : Pads]
    /\ file \in Seq(Span)

(* The frames a sequence of spans gives back.                              *)
Holds(spans) == \A f \in 1 .. frame : ReplayButtons(spans, f) = Recorded(given[f])

(* The spans come in order and two that touch differ.                      *)
Runs(spans) ==
    \A k \in 1 .. Len(spans) - 1 :
       /\ spans[k].to < spans[k + 1].from
       /\ spans[k].to + 1 = spans[k + 1].from => spans[k].buttons # spans[k + 1].buttons

(* While the file is open its spans with the open one tell what came so    *)
(* far: they end before the open one begins, and the open one reaches the  *)
(* last frame, so nothing is lost whichever frame the program ends at.     *)
RecInv ==
    /\ RecType
    /\ rec.last = frame /\ rec.from <= rec.last
    /\ \A k \in 1 .. Len(file) : file[k].to < rec.from
    /\ file # <<>> /\ file[Len(file)].to + 1 = rec.from => file[Len(file)].buttons # rec.buttons
    /\ Runs(file)
    /\ Holds(Append(file, OpenSpan))

LEMMA SpanAt ==
    ASSUME NEW s \in Seq(Span), NEW k \in 1 .. Len(s)
    PROVE  s[k].from \in Nat /\ s[k].to \in Nat /\ s[k].buttons \in Pads
  <1>1. s[k] \in Span  OBVIOUS
  <1> QED  BY <1>1 DEF Span

LEMMA ReplayMember ==
    ASSUME NEW s, NEW f, NEW e
    PROVE  e \in ReplayButtons(s, f)
             <=> \E k \in DOMAIN s : s[k].from <= f /\ f <= s[k].to /\ e \in s[k].buttons
  BY DEF ReplayButtons

(* What a span put at the end of a script adds to each frame.              *)
LEMMA ReplayAppend ==
    ASSUME NEW s \in Seq(Span), NEW x \in Span, NEW f \in Nat
    PROVE  ReplayButtons(Append(s, x), f)
             = ReplayButtons(s, f) \union (IF x.from <= f /\ f <= x.to THEN x.buttons ELSE {})
  <1> DEFINE t == Append(s, x)
  <1>1. /\ Len(s) \in Nat /\ DOMAIN s = 1 .. Len(s) /\ DOMAIN t = 1 .. Len(s) + 1
        /\ t[Len(s) + 1] = x /\ \A j \in 1 .. Len(s) : t[j] = s[j]
    OBVIOUS
  <1> HIDE DEF t
  <1>2. ASSUME NEW e
        PROVE  e \in ReplayButtons(t, f)
                 <=> e \in ReplayButtons(s, f) \/ (x.from <= f /\ f <= x.to /\ e \in x.buttons)
    <2>1. (\E k \in DOMAIN t : t[k].from <= f /\ f <= t[k].to /\ e \in t[k].buttons)
            <=> \/ \E k \in DOMAIN s : s[k].from <= f /\ f <= s[k].to /\ e \in s[k].buttons
                \/ x.from <= f /\ f <= x.to /\ e \in x.buttons
      <3>1. \A k : k \in DOMAIN t <=> k \in DOMAIN s \/ k = Len(s) + 1  BY <1>1
      <3> QED  BY <1>1, <3>1, Zenon
    <2> QED  BY <2>1, ReplayMember
  <1>3. ReplayButtons(t, f)
          = ReplayButtons(s, f) \union (IF x.from <= f /\ f <= x.to THEN x.buttons ELSE {})
    BY <1>2
  <1> QED  BY <1>3 DEF t

(* The span after the last adds nothing while it holds no button, and the  *)
(* recorder does not write it.                                             *)
LEMMA FlushedHolds ==
    ASSUME RecInv
    PROVE  /\ Flushed \in Seq(Span) /\ Holds(Flushed) /\ Runs(Flushed)
           /\ \A k \in 1 .. Len(Flushed) : Flushed[k].to <= frame
           /\ Flushed # <<>> /\ Flushed[Len(Flushed)].to + 1 = frame + 1
                => Flushed[Len(Flushed)].buttons = rec.buttons
  <1>1. /\ frame \in Nat /\ file \in Seq(Span) /\ OpenSpan \in Span /\ Len(file) \in Nat
        /\ rec.from \in Nat /\ rec.last = frame /\ rec.from <= frame
        /\ OpenSpan.from = rec.from /\ OpenSpan.to = frame /\ OpenSpan.buttons = rec.buttons
        /\ \A k \in 1 .. Len(file) : file[k].to \in Nat /\ file[k].to < rec.from
    <2>1. frame \in Nat /\ file \in Seq(Span) /\ rec \in [from : Nat, last : Nat, buttons : Pads]
      BY DEF RecInv, RecType
    <2>2. \A k \in 1 .. Len(file) : file[k].to \in Nat  BY <2>1, SpanAt
    <2>3. /\ OpenSpan \in Span /\ OpenSpan.from = rec.from /\ OpenSpan.to = rec.last
          /\ OpenSpan.buttons = rec.buttons
      BY <2>1 DEF OpenSpan, Span
    <2>4. Len(file) \in Nat  BY <2>1
    <2> QED  BY <2>1, <2>2, <2>3, <2>4 DEF RecInv
  <1>2. CASE rec.buttons = {}
    <2>1. Flushed = file  BY <1>2 DEF Flushed
    <2>2. ASSUME NEW f \in 1 .. frame
          PROVE  ReplayButtons(file, f) = ReplayButtons(Append(file, OpenSpan), f)
      <3>1. f \in Nat  BY <1>1
      <3>2. ReplayButtons(Append(file, OpenSpan), f)
              = ReplayButtons(file, f)
                \union (IF OpenSpan.from <= f /\ f <= OpenSpan.to THEN OpenSpan.buttons ELSE {})
        BY <1>1, <3>1, ReplayAppend
      <3> QED  BY <1>1, <1>2, <3>2
    <2>3. Holds(file)  BY <2>2 DEF RecInv, Holds
    <2> QED  BY <1>1, <2>1, <2>3 DEF RecInv
  <1>3. CASE rec.buttons # {}
    <2>1. Flushed = Append(file, OpenSpan)  BY <1>3 DEF Flushed, OpenSpan
    <2>2. /\ Flushed \in Seq(Span) /\ Len(Flushed) = Len(file) + 1
          /\ Flushed[Len(file) + 1] = OpenSpan
          /\ \A k \in 1 .. Len(file) : Flushed[k] = file[k]
      BY <1>1, <2>1
    <2>3. Runs(Flushed)
      <3> SUFFICES ASSUME NEW k \in 1 .. Len(Flushed) - 1
                   PROVE  /\ Flushed[k].to < Flushed[k + 1].from
                          /\ Flushed[k].to + 1 = Flushed[k + 1].from
                               => Flushed[k].buttons # Flushed[k + 1].buttons
        BY DEF Runs
      <3>1. CASE k < Len(file)
        <4>1. k \in 1 .. Len(file) - 1 /\ Flushed[k] = file[k] /\ Flushed[k + 1] = file[k + 1]
          BY <1>1, <2>2, <3>1
        <4> QED  BY <4>1 DEF RecInv, Runs
      <3>2. CASE k = Len(file)
        <4>1. Flushed[k] = file[Len(file)] /\ Flushed[k + 1] = OpenSpan /\ file # <<>>
          BY <1>1, <2>2, <3>2
        <4> QED  BY <1>1, <2>2, <3>2, <4>1 DEF RecInv
      <3> QED  BY <1>1, <2>2, <3>1, <3>2
    <2>4. \A k \in 1 .. Len(Flushed) : Flushed[k].to <= frame
      BY <1>1, <2>2
    <2>5. Holds(Flushed)  BY <2>1 DEF RecInv
    <2> QED  BY <1>1, <2>2, <2>3, <2>4, <2>5
  <1> QED  BY <1>2, <1>3

LEMMA RecInit == ASSUME Init PROVE RecInv
  <1>1. RecType  BY DEF Init, RecType, Pads
  <1> QED  BY <1>1 DEF Init, RecInv, Runs, Holds

(* The pad of a frame is a set of pad bits.                                *)
LEMMA PadType ==
    ASSUME NEW l \in LiveButtons, NEW f
    PROVE  l \union ReplayButtons(Script, f) \in Pads
  <1>1. Keyboard \subseteq Buttons  BY InputAssumption DEF Keyboard
  <1>2. l \subseteq Buttons
    BY <1>1, InputAssumption DEF LiveButtons
  <1>3. ReplayButtons(Script, f) \subseteq Buttons \union IdBits
    <2>1. Script \in Seq(Span) /\ DOMAIN Script = 1 .. Len(Script)  BY InputAssumption
    <2>2. \A k \in DOMAIN Script : Script[k].buttons \in Pads  BY <2>1, SpanAt
    <2> QED  BY <2>2, ReplayMember DEF Pads
  <1> QED  BY <1>2, <1>3 DEF Pads

LEMMA OnFrameRec ==
    ASSUME RecInv, OnFrame
    PROVE  RecInv'
  <1>1. PICK l \in LiveButtons : SetInput(frame + 1, l)  BY DEF OnFrame
  <1> DEFINE p == l \union ReplayButtons(Script, frame + 1)
             b == Recorded(p)
  <1>2. /\ frame \in Nat /\ given \in Seq(Pads) /\ Len(given) = frame /\ file \in Seq(Span)
        /\ rec \in [from : Nat, last : Nat, buttons : Pads] /\ rec.last = frame
        /\ rec.from <= frame /\ frame' = frame + 1
        /\ OpenSpan \in Span
    BY DEF RecInv, RecType, OnFrame, OpenSpan, Span
  <1>3. p \in Pads /\ b \in Pads  BY PadType DEF Pads, Recorded
  <1> HIDE DEF p
  <1>4. /\ given' = Append(given, p) /\ RecFrame(frame + 1, p)
    BY <1>1 DEF SetInput, p
  <1>5. /\ given' \in Seq(Pads) /\ Len(given') = frame' /\ given'[frame + 1] = p
        /\ \A f \in 1 .. frame : given'[f] = given[f]
    BY <1>2, <1>3, <1>4
  <1>6. ASSUME NEW s \in Seq(Span), Holds(s), \A k \in 1 .. Len(s) : s[k].to <= frame
        PROVE  \A f \in 1 .. frame + 1 :
                 ReplayButtons(s, f) = IF f = frame + 1 THEN {} ELSE Recorded(given'[f])
    <2>1. ReplayButtons(s, frame + 1) = {}
      <3>1. \A k \in DOMAIN s : ~(frame + 1 <= s[k].to)  BY <1>2, <1>6, SpanAt
      <3> QED  BY <3>1 DEF ReplayButtons
    <2> QED  BY <1>2, <1>5, <1>6, <2>1 DEF Holds
  <1>7. CASE NewSpan(frame + 1, b)
    <2>1. /\ file' = Flushed /\ rec' = [from |-> frame + 1, last |-> frame + 1, buttons |-> b]
      BY <1>4, <1>7 DEF RecFrame
    <2>2. RecType'  BY <1>2, <1>3, <1>5, <2>1, FlushedHolds DEF RecType
    <2>3. b # rec.buttons  BY <1>2, <1>7 DEF NewSpan
    <2>4. /\ \A k \in 1 .. Len(file') : file'[k].to \in Nat /\ file'[k].to < frame + 1
          /\ file' # <<>> /\ file'[Len(file')].to + 1 = frame + 1 => file'[Len(file')].buttons # b
          /\ Runs(file')
      <3>1. file' \in Seq(Span)  BY <2>1, FlushedHolds
      <3>2. \A k \in 1 .. Len(file') : file'[k].to \in Nat  BY <3>1, SpanAt
      <3>3. /\ \A k \in 1 .. Len(file') : file'[k].to <= frame
            /\ file' # <<>> /\ file'[Len(file')].to + 1 = frame + 1
                 => file'[Len(file')].buttons = rec.buttons
            /\ Runs(file')
        BY <2>1, FlushedHolds DEF Runs
      <3>4. \A k \in 1 .. Len(file') : file'[k].to < frame + 1  BY <1>2, <3>2, <3>3
      <3> QED  BY <2>3, <3>2, <3>3, <3>4
    <2>5. Holds(Append(file, OpenSpan))'
      <3> SUFFICES ASSUME NEW f \in 1 .. frame + 1
                   PROVE  ReplayButtons(Append(file', OpenSpan'), f) = Recorded(given'[f])
        BY <1>2 DEF Holds, ReplayButtons
      <3>1. OpenSpan' = [from |-> frame + 1, to |-> frame + 1, buttons |-> b]
        BY <2>1 DEF OpenSpan
      <3>2. OpenSpan' \in Span /\ file' \in Seq(Span) /\ f \in Nat
        BY <1>2, <1>3, <2>1, <3>1, FlushedHolds DEF Span
      <3>3. ReplayButtons(Append(file', OpenSpan'), f)
              = ReplayButtons(file', f) \union (IF f = frame + 1 THEN b ELSE {})
        BY <1>2, <3>1, <3>2, ReplayAppend
      <3>4. ReplayButtons(file', f) = IF f = frame + 1 THEN {} ELSE Recorded(given'[f])
        BY <1>6, <2>1, FlushedHolds
      <3> QED  BY <1>5, <3>3, <3>4
    <2> QED  BY <1>2, <2>1, <2>2, <2>4, <2>5 DEF RecInv, Runs
  <1>8. CASE ~NewSpan(frame + 1, b)
    <2>1. file' = file /\ rec' = [rec EXCEPT !.last = frame + 1] /\ b = rec.buttons
      BY <1>4, <1>8 DEF RecFrame, NewSpan
    <2>2. RecType'  BY <1>2, <1>5, <2>1 DEF RecType
    <2>3. rec'.from = rec.from /\ rec'.last = frame + 1 /\ rec'.buttons = rec.buttons
      BY <1>2, <2>1
    <2>4. Holds(Append(file, OpenSpan))'
      <3> SUFFICES ASSUME NEW f \in 1 .. frame + 1
                   PROVE  ReplayButtons(Append(file', OpenSpan'), f) = Recorded(given'[f])
        BY <1>2 DEF Holds, ReplayButtons
      <3>1. /\ OpenSpan' = [from |-> rec.from, to |-> frame + 1, buttons |-> rec.buttons]
            /\ OpenSpan = [from |-> rec.from, to |-> frame, buttons |-> rec.buttons]
        BY <1>2, <2>3 DEF OpenSpan
      <3>2. OpenSpan' \in Span /\ f \in Nat
        BY <1>2, <3>1 DEF Span
      <3>3. ReplayButtons(Append(file', OpenSpan'), f)
              = ReplayButtons(file, f) \union (IF rec.from <= f THEN rec.buttons ELSE {})
        BY <1>2, <2>1, <3>1, <3>2, ReplayAppend
      <3>4. CASE f = frame + 1
        <4>1. \A k \in DOMAIN file : ~(f <= file[k].to)
          <5>1. DOMAIN file = 1 .. Len(file)  BY <1>2
          <5>2. \A k \in 1 .. Len(file) : file[k].to \in Nat /\ file[k].to < rec.from
            BY <1>2, SpanAt DEF RecInv
          <5> QED  BY <1>2, <3>4, <5>1, <5>2
        <4>2. ReplayButtons(file, f) = {}  BY <4>1 DEF ReplayButtons
        <4> QED  BY <1>2, <1>5, <2>1, <3>3, <3>4, <4>2
      <3>5. CASE f \in 1 .. frame
        <4>1. ReplayButtons(Append(file, OpenSpan), f)
                = ReplayButtons(file, f) \union (IF rec.from <= f THEN rec.buttons ELSE {})
          BY <1>2, <3>1, <3>2, <3>5, ReplayAppend
        <4> QED  BY <1>5, <3>3, <3>5, <4>1 DEF RecInv, Holds
      <3> QED  BY <1>2, <3>4, <3>5
    <2> QED  BY <1>2, <2>1, <2>2, <2>3, <2>4 DEF RecInv, Runs
  <1> QED  BY <1>7, <1>8

LEMMA RecUnchanged ==
    ASSUME UNCHANGED <<rec, file, given, frame>>
    PROVE  (RecInv => RecInv') /\ (RecordingHolds /\ UNCHANGED open => RecordingHolds')
  <1>1. OpenSpan' = OpenSpan  BY DEF OpenSpan
  <1>2. RecType' <=> RecType  BY DEF RecType
  <1>3. Runs(file)' <=> Runs(file)  BY DEF Runs
  <1>4. Holds(Append(file, OpenSpan))' <=> Holds(Append(file, OpenSpan))
    BY <1>1 DEF Holds, ReplayButtons, Recorded
  <1>5. RecInv => RecInv'  BY <1>2, <1>3, <1>4 DEF RecInv
  <1>6. RecordingHolds /\ UNCHANGED open => RecordingHolds'
    BY DEF RecordingHolds, ReplayButtons, Recorded
  <1> QED  BY <1>5, <1>6

(* Whatever frame the program ends at, the closed recording gives back     *)
(* every frame's buttons and no others, one span per run (replay_rec_frame,*)
(* replay_rec_close).                                                      *)
THEOREM RecordingTheorem == Spec => []RecordingHolds
  <1> DEFINE I == (open => RecInv) /\ RecordingHolds
  <1>1. Init => I  BY RecInit DEF Init, RecordingHolds
  <1>2. I /\ [Next]_vars => I'
    <2> SUFFICES ASSUME I, [Next]_vars PROVE I'  OBVIOUS
    <2>1. CASE open /\ Events
      <3>1. UNCHANGED <<recVars, frame>>
        BY <2>1 DEF Events, KeyDown, KeyUp, Button, Device, filterVars
      <3> QED  BY <3>1, RecUnchanged DEF recVars
    <2>2. CASE OnFrame
      <3>1. open /\ open' = open  BY <2>2 DEF OnFrame
      <3> QED  BY <2>2, <3>1, OnFrameRec DEF RecordingHolds
    <2>3. CASE Close
      <3>1. open /\ ~open' /\ file' = Flushed /\ frame' = frame /\ given' = given
        BY <2>3 DEF Close, recVars
      <3>2. RecordingHolds'
        BY <3>1, FlushedHolds DEF RecordingHolds, Holds, Runs, ReplayButtons
      <3> QED  BY <3>1, <3>2
    <2>4. CASE UNCHANGED vars
      BY <2>4, RecUnchanged DEF vars, recVars
    <2> QED  BY <2>1, <2>2, <2>3, <2>4 DEF Next
  <1> QED  BY <1>1, <1>2, PTL DEF Spec
=============================================================================
