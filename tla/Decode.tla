------------------------------- MODULE Decode -------------------------------
(***************************************************************************)
(* The recompiler's decoder (recomp/decode.py) and the registry that       *)
(* resolves its calls (recomp/funcs.py).  An instruction's length depends  *)
(* on the width of A (M) and of the index registers (X); the decoder       *)
(* follows each path of a function with the width it would run in, taking  *)
(* the width after a call from the callee's exits.  M stands for both      *)
(* flags.  Decoding a function decodes those it calls, on the Python       *)
(* stack: `frames'.  A call of a function that is being decoded unwinds    *)
(* that stack to it and starts its fixed point.                            *)
(***************************************************************************)
EXTENDS Integers, Sequences, FiniteSets
LOCAL INSTANCE SequencesExt

CONSTANTS
    Programs,    \* code: instructions by address; states: the entry states registered there
    Tries        \* iterations a fixed point gets (16)

VARIABLES
    program,
    phase,       \* "decode", then "built" or "failed" (DecodeError, EmitError)
    roots,       \* the entries the emitter has still to ask for
    frames,      \* calls of Registry.function under way, see Fresh
    cache,       \* Registry.cache: the functions decoded, by key
    assume       \* Registry.assume: the exits assumed of recursive functions

decodeVars == <<program, phase, roots, frames, cache, assume>>

Unknown == 0                     \* None
Widths == {16, 8}                \* M clear, M set
Ops == {"set", "use", "php", "plp", "br", "jmp", "jml", "call", "ret"}

ASSUME DecodeAssumption ==
    /\ Tries \in Nat \ {0}
    /\ \A p \in Programs :
         /\ DOMAIN p.states = DOMAIN p.code /\ DOMAIN p.code \subseteq Nat
         /\ \A a \in DOMAIN p.code :
              /\ p.code[a].op \in Ops /\ p.code[a].to \in Seq(DOMAIN p.code)
              /\ p.code[a].op \in {"br", "jmp"} => Len(p.code[a].to) = 1
              /\ p.code[a].op = "set" => p.code[a].w \in Widths
              /\ p.states[a] \subseteq Widths

(* A key is an entry address and its state, State.key.  A path is a place  *)
(* of the work list: the state before the instruction at `at', and the P   *)
(* bytes pushed since the entry.                                           *)
EntryPath(key) == [at |-> key[1], m |-> key[2], pushed |-> <<>>, lost |-> FALSE]

(* A Function as it is decoded.  post: the widths each decoded instruction *)
(* goes on in (fn.post, fn.call_exits; none for a jump out of the          *)
(* function); interp: the calls and jumps that go through the interpreter. *)
Empty == [post |-> <<>>, interp |-> {}, exits |-> {}]

Fresh(key) == [key |-> key, work |-> <<EntryPath(key)>>, fn |-> Empty,
               fix |-> FALSE, before |-> {}, tries |-> 0]

Registered(t, w) == w \in program.states[t]
Targets(i) == {i.to[n] : n \in DOMAIN i.to}

(* f with one more row, or another value in it.                            *)
With(f, k, v) == [x \in DOMAIN f \union {k} |-> IF x = k THEN v ELSE f[x]]

(* The exits of a key that is decoded, or assumed.                         *)
Resolved(key) == key \in DOMAIN assume \/ key \in DOMAIN cache
Exits(key) == IF key \in DOMAIN assume THEN assume[key] ELSE cache[key].exits

----------------------------------------------------------------------------
(* One instruction.                                                        *)

Top == Last(frames)
Path == Last(Top.work)
Insn == program.code[Path.at]

(* next_state.                                                             *)
AfterPlp(p) ==
    IF p.pushed = <<>> THEN [p EXCEPT !.m = Unknown, !.lost = TRUE]
    ELSE [p EXCEPT !.m = IF p.lost THEN Unknown ELSE Last(p.pushed), !.pushed = Front(@)]

NextState(p, i) ==
    CASE i.op = "set" -> [p EXCEPT !.m = i.w]
      [] i.op = "php" -> [p EXCEPT !.pushed = Append(@, p.m)]
      [] i.op = "plp" -> AfterPlp(p)
      [] OTHER -> p

(* missing: the target is not compiled for this state.  A call of it, or   *)
(* of a function whose exits are unknown, runs in the interpreter, and     *)
(* goes on as if that left the width alone.                                *)
Missing(t, w) == ~Registered(t, w)
ViaInterp(t, w) == Missing(t, w) \/ Unknown \in Exits(<<t, w>>)

CallExits(t, w) == IF ViaInterp(t, w) THEN {w} ELSE Exits(<<t, w>>)

(* A jump to a registered entry is a tail call, to the function's own      *)
(* entry in its entry state a loop.                                        *)
IsTail(t, w) == Registered(t, w) /\ <<t, w>> # Top.key

(* The targets whose exits the instruction asks for, and the next one of   *)
(* them that is not known.                                                 *)
Asked(i, w) ==
    {n \in DOMAIN i.to : CASE i.op = "jmp" -> IsTail(i.to[n], w)
                            [] i.op \in {"call", "jml"} -> Registered(i.to[n], w)
                            [] OTHER -> FALSE}

Asks(key) ==
    \E n \in Asked(Insn, Path.m) :
        /\ key = <<Insn.to[n], Path.m>> /\ ~Resolved(key)
        /\ \A k \in Asked(Insn, Path.m) : k < n => Resolved(<<Insn.to[k], Path.m>>)

(* What decoding the instruction adds to the function, and the paths that  *)
(* go on from it: the last is followed first.                              *)
Goes(paths, w) == [paths |-> paths, post |-> w, exits |-> {}, interp |-> {}]
Leaves(exits, interp) == [paths |-> <<>>, post |-> {}, exits |-> exits, interp |-> interp]

(* _continue: a path for each exit, sorted, the first followed first.      *)
Continue(p, exits) ==
    LET On(w) == IF w \in exits THEN <<[p EXCEPT !.at = @ + 1, !.m = w]>> ELSE <<>>
        states == On(16) \o On(8) \o On(Unknown)
    IN  IF states = <<>> THEN <<>> ELSE Append(Tail(states), Head(states))

DecodeCall(p, i) ==
    LET exits == UNION {CallExits(t, p.m) : t \in Targets(i)} IN
    [Goes(Continue(p, exits), exits) EXCEPT
        !.interp = {<<p.at, p.m, t>> : t \in {u \in Targets(i) : ViaInterp(u, p.m)}}]

(* JML, and JMP (abs,X).                                                   *)
DecodeJump(p, i) ==
    Leaves(UNION {IF Missing(t, p.m) THEN {Unknown} ELSE Exits(<<t, p.m>>) : t \in Targets(i)},
           {<<p.at, p.m, t>> : t \in {u \in Targets(i) : Missing(u, p.m)}})

Decoded(i) ==
    LET p == NextState(Path, i)
        To(t) == [p EXCEPT !.at = t]
        Next1 == To(p.at + 1)
        t1 == i.to[1]
    IN  CASE i.op = "ret" -> Leaves({p.m}, {})
          [] i.op = "br" -> Goes(<<To(t1), Next1>>, {p.m})
          [] i.op = "jmp" -> IF IsTail(t1, p.m) THEN Leaves(Exits(<<t1, p.m>>), {})
                                                ELSE Goes(<<To(t1)>>, {p.m})
          [] i.op = "jml" -> DecodeJump(p, i)
          [] i.op = "call" -> DecodeCall(p, i)
          [] OTHER -> Goes(<<Next1>>, {p.m})

----------------------------------------------------------------------------
(* decode_function.                                                        *)

Decoding == phase = "decode" /\ frames # <<>> /\ Top.work # <<>>
NeverSeen == FALSE                     \* mutant: a loop is followed again
Seen == <<Path.at, Path.m>> \in DOMAIN Top.fn.post
Unread == Decoding /\ ~Seen /\ Path.at \in DOMAIN program.code

SetTop(f) == frames' = Append(Front(frames), f)

PathMet ==
    /\ Decoding /\ Seen
    /\ SetTop([Top EXCEPT !.work = Front(@)])
    /\ UNCHANGED <<program, phase, roots, cache, assume>>

Fail ==
    /\ phase' = "failed"
    /\ UNCHANGED <<program, roots, frames, cache, assume>>

(* decode_insn: not a ROM address.                                         *)
NotCode == Decoding /\ ~Seen /\ Path.at \notin DOMAIN program.code /\ Fail

Visit ==
    /\ Unread /\ \A n \in Asked(Insn, Path.m) : Resolved(<<Insn.to[n], Path.m>>)
    /\ LET d == Decoded(Insn) IN
       SetTop([Top EXCEPT
           !.work = Front(@) \o d.paths,
           !.fn = [post   |-> With(@.post, <<Path.at, Path.m>>, d.post),
                   interp |-> @.interp \union d.interp,
                   exits  |-> @.exits \union d.exits]])
    /\ UNCHANGED <<program, phase, roots, cache, assume>>

Active == {frames[n].key : n \in DOMAIN frames}

(* Registry.function of a callee that is not decoded yet.                  *)
Enter ==
    /\ Unread
    /\ \E n \in Asked(Insn, Path.m) :
         LET key == <<Insn.to[n], Path.m>> IN
         /\ Asks(key) /\ key \notin Active
         /\ frames' = Append(frames, Fresh(key))
    /\ UNCHANGED <<program, phase, roots, cache, assume>>

(* The functions unwound, key's own frame apart, lose their assumptions;   *)
(* what was cached meanwhile stays.                                        *)
UnwoundAll(depth) == <<>>                \* mutant: so do the ones below
Unwound(depth) == Restrict(assume, DOMAIN assume \ {frames[n].key : n \in depth .. Len(frames)})

(* NeedAssumption: _fixpoint of the active callee starts, with no exits.   *)
Recurse ==
    /\ Unread
    /\ \E depth \in DOMAIN frames :
         LET key == frames[depth].key IN
         /\ Asks(key)
         /\ frames' = Append(SubSeq(frames, 1, depth - 1),
                             [Fresh(key) EXCEPT !.fix = TRUE, !.before = DOMAIN cache])
         /\ assume' = With(Unwound(depth), key, {})
    /\ UNCHANGED <<program, phase, roots, cache>>

Finished == phase = "decode" /\ frames # <<>> /\ Top.work = <<>>
Stable == Top.fix => Top.fn.exits = assume[Top.key]

(* Registry.function returns.                                              *)
Cache ==
    /\ Finished /\ Stable
    /\ cache' = With(cache, Top.key, Top.fn)
    /\ assume' = Restrict(assume, DOMAIN assume \ {Top.key})
    /\ frames' = Front(frames)
    /\ UNCHANGED <<program, phase, roots>>

KeptAll == cache                       \* mutant: decoded under the old assumption, kept
KeptBefore == Restrict(cache, Top.before)

(* An iteration of _fixpoint: the exits found are the next ones assumed.   *)
Iterate ==
    /\ Finished /\ ~Stable /\ Top.tries + 1 < Tries
    /\ assume' = [assume EXCEPT ![Top.key] = Top.fn.exits]
    /\ cache' = KeptBefore
    /\ SetTop([Top EXCEPT !.tries = @ + 1, !.work = <<EntryPath(Top.key)>>, !.fn = Empty])
    /\ UNCHANGED <<program, phase, roots>>

NoConvergence == Finished /\ ~Stable /\ Top.tries + 1 >= Tries /\ Fail

(* emit_module's next entry, by address, the wider state first.            *)
Precedes(k, l) == k[1] < l[1] \/ (k[1] = l[1] /\ k[2] >= l[2])

Root ==
    /\ phase = "decode" /\ frames = <<>>
    /\ \E key \in roots :
         /\ \A other \in roots : Precedes(key, other)
         /\ frames' = IF key \in DOMAIN cache THEN <<>> ELSE <<Fresh(key)>>
         /\ roots' = roots \ {key}
    /\ UNCHANGED <<program, phase, cache, assume>>

(* emit_function refuses an instruction whose width is unknown and a PLP   *)
(* that restores an unknown one.                                           *)
Emits(fn) ==
    \A k \in DOMAIN fn.post :
        /\ program.code[k[1]].op = "use" => k[2] # Unknown
        /\ program.code[k[1]].op = "plp" => Unknown \notin fn.post[k]

Emit ==
    /\ phase = "decode" /\ frames = <<>> /\ roots = {}
    /\ phase' = IF \A key \in DOMAIN cache : Emits(cache[key]) THEN "built" ELSE "failed"
    /\ UNCHANGED <<program, roots, frames, cache, assume>>

Entries(p) == {k \in (DOMAIN p.code) \X Widths : k[2] \in p.states[k[1]]}

DecodeInit ==
    /\ program \in Programs /\ phase = "decode" /\ roots = Entries(program)
    /\ frames = <<>> /\ cache = <<>> /\ assume = <<>>

DecodeNext == \/ PathMet \/ NotCode \/ Visit \/ Enter \/ Recurse
              \/ Cache \/ Iterate \/ NoConvergence \/ Root \/ Emit

----------------------------------------------------------------------------
(* Properties.                                                             *)

(* What each compiled function was told of its callees is what those were  *)
(* compiled to: a call goes on in every width its callee leaves in, and    *)
(* through the interpreter if one is not known.  ("Recursive routine:      *)
(* least fixpoint of its exit states.")                                    *)
CallsAgree ==
    phase = "built" =>
        \A key \in DOMAIN cache : \A k \in DOMAIN cache[key].post :
            LET i == program.code[k[1]]
                fn == cache[key]
            IN  i.op = "call" =>
                  /\ fn.post[k] = UNION {CallExits(t, k[2]) : t \in Targets(i)}
                  /\ \A t \in Targets(i) : <<k[1], k[2], t>> \in fn.interp <=> ViaInterp(t, k[2])

(* No fixed point is given up unfinished: what is assumed stays assumed    *)
(* until it is decoded as assumed.  The proofs suppose it.  A recursion    *)
(* that is entered inside another, and calls nothing below itself on the   *)
(* stack, leaves it be; one that does drops the assumptions above.         *)
Confirms == \A key \in DOMAIN assume : key \in DOMAIN assume' \union DOMAIN cache'
Confirmed == [][Confirms]_decodeVars

(* The build ends, in code or in an error, however functions call each     *)
(* other.                                                                  *)
BuildEnds == <>(phase # "decode")
=============================================================================
