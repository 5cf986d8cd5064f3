--------------------------- MODULE CompiledProofs ---------------------------
(***************************************************************************)
(* Proofs about Decode and Compiled: what each compiled function was told  *)
(* of its callees is what they were compiled to, recursion included, and   *)
(* native code runs in the width it was compiled for, for every program    *)
(* and any depth of calls, unless the build gave up a fixed point before   *)
(* it was reached.                                                         *)
(***************************************************************************)
EXTENDS Compiled, TLAPS
LOCAL INSTANCE SequencesExt
LOCAL Seqs == INSTANCE SequenceTheorems

-----------------------------------------------------------------------------
(* Sequences and rows.                                                     *)

LEMMA WithIs ==
    ASSUME NEW f, NEW k, NEW v
    PROVE  /\ DOMAIN With(f, k, v) = DOMAIN f \union {k}
           /\ With(f, k, v)[k] = v
           /\ \A x \in DOMAIN f : x # k => With(f, k, v)[x] = f[x]
  BY DEF With

LEMMA RestrictIs ==
    ASSUME NEW f, NEW S
    PROVE  DOMAIN Restrict(f, S) = S /\ \A x \in S : Restrict(f, S)[x] = f[x]
  BY DEF Restrict

LEMMA FrontIs ==
    ASSUME NEW S, NEW s \in Seq(S), s # <<>>
    PROVE  /\ Front(s) \in Seq(S) /\ Len(Front(s)) = Len(s) - 1 /\ Len(s) \in Nat \ {0}
           /\ Last(s) = s[Len(s)] /\ Last(s) \in S
           /\ \A n \in 1 .. Len(s) - 1 : Front(s)[n] = s[n]
  <1>1. Len(s) \in Nat /\ Len(s) # 0  OBVIOUS
  <1>2. Front(s) = SubSeq(s, 1, Len(s) - 1)  BY DEF Front
  <1>3. s[Len(s)] \in S  BY <1>1
  <1>4. Len(s) - 1 \in Nat /\ Len(s) - 1 <= Len(s)  BY <1>1
  <1>5. SubSeq(s, 1, Len(s) - 1) \in Seq(S)  BY <1>1, <1>4
  <1>6. Len(SubSeq(s, 1, Len(s) - 1)) = Len(s) - 1
    <2> DEFINE l == Len(s) - 1
    <2>1. l \in Nat /\ \A i \in 1 .. l : s[i] \in S  BY <1>1
    <2> HIDE DEF l
    <2>2. Len(SubSeq(s, 1, l)) = IF 1 <= l THEN l - 1 + 1 ELSE 0  BY <2>1, Seqs!SubSeqProperties
    <2>3. Len(SubSeq(s, 1, l)) = l  BY <2>1, <2>2
    <2> QED  BY <2>3 DEF l
  <1>7. \A n \in 1 .. Len(s) - 1 : SubSeq(s, 1, Len(s) - 1)[n] = s[n]  BY <1>1, <1>4
  <1> QED  BY <1>1, <1>2, <1>3, <1>5, <1>6, <1>7 DEF Last

LEMMA Pushed ==
    ASSUME NEW S, NEW s \in Seq(S), NEW x \in S
    PROVE  LET r == Append(s, x) IN
           /\ r \in Seq(S) /\ Len(r) = Len(s) + 1 /\ Last(r) = x /\ r[Len(s) + 1] = x
           /\ r # <<>> /\ \A n \in 1 .. Len(s) : r[n] = s[n]
  BY DEF Last

LEMMA ReplaceLast ==
    ASSUME NEW S, NEW s \in Seq(S), s # <<>>, NEW x \in S
    PROVE  LET r == Append(Front(s), x) IN
           /\ r \in Seq(S) /\ Len(r) = Len(s) /\ Last(r) = x /\ r[Len(s)] = x /\ r # <<>>
           /\ \A n \in 1 .. Len(s) - 1 : r[n] = s[n]
  <1> DEFINE f == Front(s)
  <1>1. /\ f \in Seq(S) /\ Len(f) = Len(s) - 1 /\ Len(s) \in Nat \ {0}
        /\ \A n \in 1 .. Len(s) - 1 : f[n] = s[n]
    BY FrontIs
  <1> HIDE DEF f
  <1>2. /\ Append(f, x) \in Seq(S) /\ Len(Append(f, x)) = Len(f) + 1
        /\ Last(Append(f, x)) = x /\ Append(f, x)[Len(f) + 1] = x /\ Append(f, x) # <<>>
        /\ \A n \in 1 .. Len(f) : Append(f, x)[n] = f[n]
    BY <1>1, Pushed
  <1> QED  BY <1>1, <1>2 DEF f

-----------------------------------------------------------------------------
(* What a function that is decoded, or half decoded, looks like.           *)

States == Widths \union {Unknown}
Places == Nat \X States
Keys == Nat \X Widths
Paths == [at : Nat, m : States, pushed : Seq(States), lost : BOOLEAN]
Tables == UNION {[D -> SUBSET States] : D \in SUBSET Places}
Fns == [post : Tables, interp : SUBSET (Nat \X States \X Nat), exits : SUBSET States]
Frames == [key : Keys, work : Seq(Paths), fn : Fns, fix : BOOLEAN, before : SUBSET Keys,
           tries : Nat]

(* The places of a work list.                                              *)
Todo(work) == {<<work[n].at, work[n].m>> : n \in 1 .. Len(work)}

(* The program's own part of IsTail and of Asked.                          *)
Leads(p, key, t, w) == w \in p.states[t] /\ <<t, w>> # key
Needs(p, key, i, w) ==
    {n \in DOMAIN i.to : CASE i.op = "jmp" -> Leads(p, key, i.to[n], w)
                           [] i.op \in {"call", "jml"} -> w \in p.states[i.to[n]]
                           [] OTHER -> FALSE}

(* X has the exits known of each key.                                      *)
Interprets(p, X, t, w) == w \notin p.states[t] \/ Unknown \in X[<<t, w>>]
OnFrom(p, X, t, w) == IF Interprets(p, X, t, w) THEN {w} ELSE X[<<t, w>>]

(* The instruction at place k, decoded: where it goes on is in `on', and   *)
(* what it needs of other functions is as X says.                          *)
Flow(p, X, key, fn, k, on) ==
    LET a == k[1]
        w == k[2]
        i == p.code[a]
        here == fn.post[k]
    IN  /\ a \in DOMAIN p.code
        /\ \A n \in Needs(p, key, i, w) : <<i.to[n], w>> \in DOMAIN X
        /\ i.op = "set" => here = {i.w} /\ <<a + 1, i.w>> \in on
        /\ i.op \in {"use", "php"} => here = {w} /\ <<a + 1, w>> \in on
        /\ i.op = "plp" => \E v \in States : here = {v} /\ <<a + 1, v>> \in on
        /\ i.op = "br" => here = {w} /\ <<a + 1, w>> \in on /\ <<i.to[1], w>> \in on
        /\ i.op = "ret" => here = {} /\ w \in fn.exits
        /\ i.op = "jmp" =>
             /\ <<a, w, i.to[1]>> \notin fn.interp
             /\ IF Leads(p, key, i.to[1], w)
                THEN here = {} /\ X[<<i.to[1], w>>] \subseteq fn.exits
                ELSE here = {w} /\ <<i.to[1], w>> \in on
        /\ i.op = "jml" =>
             /\ here = {}
             /\ \A n \in DOMAIN i.to :
                  IF w \in p.states[i.to[n]]
                  THEN X[<<i.to[n], w>>] \subseteq fn.exits /\ <<a, w, i.to[n]>> \notin fn.interp
                  ELSE <<a, w, i.to[n]>> \in fn.interp
        /\ i.op = "call" =>
             /\ here = UNION {OnFrom(p, X, i.to[n], w) : n \in DOMAIN i.to}
             /\ \A v \in here : <<a + 1, v>> \in on
             /\ \A n \in DOMAIN i.to :
                  <<a, w, i.to[n]>> \in fn.interp <=> Interprets(p, X, i.to[n], w)

(* A function whose instructions lead to one another or to the work list.  *)
Closed(p, X, key, fn, todo) ==
    /\ key \in DOMAIN fn.post \union todo
    /\ \A k \in DOMAIN fn.post : Flow(p, X, key, fn, k, DOMAIN fn.post \union todo)
    /\ \A e \in fn.interp : <<e[1], e[2]>> \in DOMAIN fn.post

(* The keys it took exits of.                                              *)
Uses(p, key, fn) ==
    UNION {{<<p.code[k[1]].to[n], k[2]>> : n \in Needs(p, key, p.code[k[1]], k[2])}
             : k \in DOMAIN fn.post}

(* It stays as it is while those keep their exits.                         *)
LEMMA ClosedKept ==
    ASSUME NEW p, NEW X, NEW Y, NEW key, NEW fn, NEW todo,
           DOMAIN fn.post \subseteq Places,
           Closed(p, X, key, fn, todo),
           \A u \in Uses(p, key, fn) : u \in DOMAIN X => u \in DOMAIN Y /\ Y[u] = X[u],
           \A a \in DOMAIN p.code : p.code[a].op \in {"br", "jmp"} => DOMAIN p.code[a].to = {1}
    PROVE  Closed(p, Y, key, fn, todo)
  <1> SUFFICES ASSUME NEW k \in DOMAIN fn.post
               PROVE  Flow(p, Y, key, fn, k, DOMAIN fn.post \union todo)
    BY DEF Closed
  <1> DEFINE on == DOMAIN fn.post \union todo
             i == p.code[k[1]]
             w == k[2]
  <1>1. Flow(p, X, key, fn, k, on)  BY DEF Closed
  <1>2. \A n \in Needs(p, key, i, w) :
           /\ <<i.to[n], w>> \in DOMAIN X
           /\ <<i.to[n], w>> \in DOMAIN Y /\ Y[<<i.to[n], w>>] = X[<<i.to[n], w>>]
    <2> TAKE n \in Needs(p, key, i, w)
    <2>1. <<i.to[n], w>> \in Uses(p, key, fn)  BY DEF Uses
    <2>2. <<i.to[n], w>> \in DOMAIN X  BY <1>1 DEF Flow
    <2> QED  BY <2>1, <2>2
  <1>3. i.op \in {"call", "jml"} =>
          \A n \in DOMAIN i.to : w \in p.states[i.to[n]] => n \in Needs(p, key, i, w)
    BY DEF Needs
  <1>4. i.op = "jmp" /\ Leads(p, key, i.to[1], w) => 1 \in Needs(p, key, i, w)
    BY <1>1 DEF Needs, Flow
  <1>5. i.op = "call" => \A n \in DOMAIN i.to :
           /\ Interprets(p, Y, i.to[n], w) <=> Interprets(p, X, i.to[n], w)
           /\ OnFrom(p, Y, i.to[n], w) = OnFrom(p, X, i.to[n], w)
    BY <1>2, <1>3 DEF Interprets, OnFrom
  <1>6. CASE i.op = "call"
    <2>1. UNION {OnFrom(p, Y, i.to[n], w) : n \in DOMAIN i.to}
            = UNION {OnFrom(p, X, i.to[n], w) : n \in DOMAIN i.to}
      BY <1>5, <1>6
    <2> QED  BY <1>1, <1>2, <1>5, <1>6, <2>1 DEF Flow
  <1>7. CASE i.op = "jml"  BY <1>1, <1>2, <1>3, <1>7 DEF Flow
  <1>8. CASE i.op = "jmp"  BY <1>1, <1>2, <1>4, <1>8 DEF Flow
  <1>9. CASE i.op \notin {"call", "jml", "jmp"}  BY <1>1, <1>2, <1>9 DEF Flow
  <1> QED  BY <1>6, <1>7, <1>8, <1>9

-----------------------------------------------------------------------------
(* The state of the decoder: p is the program, F the frames, C the cache,  *)
(* A the assumptions and R the entries still to ask for.                   *)

Known(C, A) ==
    [k \in DOMAIN A \union DOMAIN C |-> IF k \in DOMAIN A THEN A[k] ELSE C[k].exits]

FixBelow(F, j) == {F[l].key : l \in {l \in 1 .. j - 1 : F[l].fix}}

Typed(p, F, C, A) ==
    /\ p \in Programs /\ F \in Seq(Frames)
    /\ DOMAIN C \subseteq Keys /\ \A k \in DOMAIN C : C[k] \in Fns
    /\ \A k \in DOMAIN A : A[k] \in SUBSET States

(* The exits assumed are those of the fixed points under way.              *)
Assumed(F, A) == DOMAIN A = FixBelow(F, Len(F) + 1)

(* No function is decoded twice.                                           *)
Apart(F, C) ==
    /\ \A n, l \in 1 .. Len(F) : F[n].key = F[l].key => n = l
    /\ \A n \in 1 .. Len(F) : F[n].key \notin DOMAIN C

Whole(p, F, C, A) ==
    /\ \A n \in 1 .. Len(F) : Closed(p, Known(C, A), F[n].key, F[n].fn, Todo(F[n].work))
    /\ \A k \in DOMAIN C : Closed(p, Known(C, A), k, C[k], {})

(* What was decoded before the fixed point of frame j started rests on     *)
(* nothing that it drops: on the cache it started with, and the fixed      *)
(* points below.                                                           *)
Rests(p, F, C, j) ==
    LET base == F[j].before \union FixBelow(F, j) IN
    /\ F[j].before \subseteq DOMAIN C
    /\ \A l \in 1 .. j - 1 : F[l].fix => F[l].before \subseteq F[j].before
    /\ \A k \in F[j].before : Uses(p, k, C[k]) \subseteq base
    /\ \A i \in 1 .. j - 1 : Uses(p, F[i].key, F[i].fn) \subseteq base

Kept(p, F, C) == \A j \in 1 .. Len(F) : F[j].fix => Rests(p, F, C, j)

(* Every entry is decoded, is being decoded, or has still its turn.        *)
Asking(F) == IF F = <<>> THEN {} ELSE {F[1].key}
Rooted(p, F, C, R) ==
    /\ Entries(p) \ R \subseteq DOMAIN C \union Asking(F)
    /\ \A j \in 1 .. Len(F) : F[j].fix => Entries(p) \ R \subseteq F[j].before \union Asking(F)

Sound(p, F, C, A, R) ==
    /\ Typed(p, F, C, A) /\ Assumed(F, A) /\ Apart(F, C)
    /\ Whole(p, F, C, A) /\ Kept(p, F, C) /\ Rooted(p, F, C, R)

-----------------------------------------------------------------------------
(* The steps of the stack.                                                 *)

LEMMA FreshIs ==
    ASSUME NEW key \in Keys, NEW p, NEW X
    PROVE  /\ Fresh(key) \in Frames /\ Fresh(key).key = key /\ Fresh(key).fix = FALSE
           /\ Closed(p, X, key, Empty, Todo(<<EntryPath(key)>>))
           /\ EntryPath(key) \in Paths /\ Empty \in Fns
           /\ Fresh(key).fn = Empty /\ Fresh(key).work = <<EntryPath(key)>>
  <1>1. EntryPath(key) \in Paths  BY DEF EntryPath, Paths, Keys, States
  <1>2. <<>> \in [{} -> SUBSET States] /\ DOMAIN <<>> = {}  OBVIOUS
  <1>3. Empty \in Fns /\ Empty.post = <<>>
    <2>1. {} \in SUBSET Places  OBVIOUS
    <2>2. <<>> \in Tables  BY <1>2, <2>1 DEF Tables
    <2> QED  BY <2>2 DEF Empty, Fns
  <1>4. Todo(<<EntryPath(key)>>) = {key}
    <2>1. <<key[1], key[2]>> = key  BY DEF Keys
    <2> QED  BY <2>1 DEF Todo, EntryPath
  <1>5. Fresh(key) \in Frames
    BY <1>1, <1>3 DEF Fresh, Frames
  <1>6. Empty.interp = {}  BY DEF Empty
  <1> QED  BY <1>1, <1>2, <1>3, <1>4, <1>5, <1>6 DEF Closed, Fresh

(* The top frame goes on: PathMet and Visit.                               *)
LEMMA TopGoesOn ==
    ASSUME NEW p, NEW F, NEW C, NEW A, NEW R, Sound(p, F, C, A, R), F # <<>>,
           NEW x \in Frames,
           x.key = Last(F).key, x.fix = Last(F).fix, x.before = Last(F).before,
           Closed(p, Known(C, A), x.key, x.fn, Todo(x.work))
    PROVE  Sound(p, Append(Front(F), x), C, A, R)
  <1> DEFINE G == Append(Front(F), x)
             L == Len(F)
  <1>0. F \in Seq(Frames)  BY DEF Sound, Typed
  <1>1. /\ G \in Seq(Frames) /\ Len(G) = L /\ G[L] = x /\ G # <<>> /\ L \in Nat \ {0}
        /\ \A n \in 1 .. L - 1 : G[n] = F[n]
    BY <1>0, ReplaceLast
  <1>2. Last(F) = F[L]  BY <1>0, FrontIs
  <1> HIDE DEF G, L
  <1>3. \A n \in 1 .. L : G[n].key = F[n].key /\ G[n].fix = F[n].fix /\ G[n].before = F[n].before
    BY <1>1, <1>2
  <1>4. \A j \in 1 .. L + 1 : FixBelow(G, j) = FixBelow(F, j)
    BY <1>1, <1>3 DEF FixBelow
  <1>5. Typed(p, G, C, A)  BY <1>1 DEF Sound, Typed
  <1>6. Assumed(G, A)  BY <1>1, <1>4 DEF Sound, Assumed, L
  <1>7. Apart(G, C)  BY <1>1, <1>3 DEF Sound, Apart, L
  <1>8. Whole(p, G, C, A)
    <2> SUFFICES ASSUME NEW n \in 1 .. L
                 PROVE  Closed(p, Known(C, A), G[n].key, G[n].fn, Todo(G[n].work))
      BY <1>1 DEF Sound, Whole
    <2>1. CASE n = L  BY <2>1, <1>1
    <2>2. CASE n # L  BY <2>2, <1>1 DEF Sound, Whole, L
    <2> QED  BY <2>1, <2>2
  <1>9. Kept(p, G, C)
    <2> SUFFICES ASSUME NEW j \in 1 .. L, G[j].fix  PROVE Rests(p, G, C, j)
      BY <1>1 DEF Kept
    <2>1. Rests(p, F, C, j)  BY <1>3 DEF Sound, Kept, L
    <2>2. \A i \in 1 .. j - 1 : G[i] = F[i]  BY <1>1
    <2>3. G[j].before = F[j].before /\ FixBelow(G, j) = FixBelow(F, j)  BY <1>1, <1>3, <1>4
    <2> QED  BY <2>1, <2>2, <2>3 DEF Rests
  <1>10. Rooted(p, G, C, R)
    <2>1. Asking(G) = Asking(F)  BY <1>1, <1>3 DEF Asking
    <2> QED  BY <2>1, <1>1, <1>3 DEF Sound, Rooted, L
  <1> QED  BY <1>5, <1>6, <1>7, <1>8, <1>9, <1>10 DEF Sound, G

(* Exits that stay known keep what rests on them.                          *)
LEMMA ClosedMoves ==
    ASSUME NEW p \in Programs, NEW X, NEW Y, NEW key, NEW fn \in Fns, NEW todo,
           Closed(p, X, key, fn, todo),
           \A u \in Uses(p, key, fn) : u \in DOMAIN X => u \in DOMAIN Y /\ Y[u] = X[u]
    PROVE  Closed(p, Y, key, fn, todo)
  <1>1. DOMAIN fn.post \subseteq Places  BY DEF Fns, Tables
  <1>2. ASSUME NEW a \in DOMAIN p.code, p.code[a].op \in {"br", "jmp"}
        PROVE  DOMAIN p.code[a].to = {1}
    <2>1. p.code[a].to \in Seq(DOMAIN p.code) /\ Len(p.code[a].to) = 1
      BY <1>2, DecodeAssumption DEF DecodeAssumption
    <2>2. DOMAIN p.code[a].to = 1 .. 1  BY <2>1
    <2> QED  BY <2>2
  <1> QED  BY <1>1, <1>2, ClosedKept

LEMMA UsesKnown ==
    ASSUME NEW p, NEW X, NEW key, NEW fn, NEW todo, Closed(p, X, key, fn, todo)
    PROVE  Uses(p, key, fn) \subseteq DOMAIN X
  <1>1. ASSUME NEW k \in DOMAIN fn.post, NEW n \in Needs(p, key, p.code[k[1]], k[2])
        PROVE  <<p.code[k[1]].to[n], k[2]>> \in DOMAIN X
    <2>1. Flow(p, X, key, fn, k, DOMAIN fn.post \union todo)  BY DEF Closed
    <2> QED  BY <2>1 DEF Flow
  <1> QED  BY <1>1, SMT DEF Uses

LEMMA KnownIs ==
    ASSUME NEW C, NEW A
    PROVE  /\ DOMAIN Known(C, A) = DOMAIN A \union DOMAIN C
           /\ \A k \in DOMAIN A : Known(C, A)[k] = A[k]
           /\ \A k \in DOMAIN C : k \notin DOMAIN A => Known(C, A)[k] = C[k].exits
  BY DEF Known

LEMMA InFixBelow ==
    ASSUME NEW F, NEW j \in Int, NEW k
    PROVE  k \in FixBelow(F, j) <=> \E l \in 1 .. j - 1 : F[l].fix /\ F[l].key = k
  BY DEF FixBelow

(* No key is both assumed and cached, and no key below is the top's.       *)
LEMMA FixBelowIs ==
    ASSUME NEW p, NEW F, NEW C, NEW A, NEW R, Sound(p, F, C, A, R)
    PROVE  /\ \A k \in DOMAIN A : k \notin DOMAIN C
           /\ \A j \in 1 .. Len(F) : F[j].key \notin FixBelow(F, j)
           /\ \A j \in 1 .. Len(F) : FixBelow(F, j) \subseteq DOMAIN A
           /\ \A j \in 1 .. Len(F) : F[j].fix <=> F[j].key \in DOMAIN A
  <1>1. F \in Seq(Frames) /\ Len(F) \in Nat  BY DEF Sound, Typed
  <1>2. DOMAIN A = {F[l].key : l \in {l \in 1 .. Len(F) : F[l].fix}}
    BY <1>1 DEF Sound, Assumed, FixBelow
  <1> QED  BY <1>1, <1>2 DEF Sound, Apart, FixBelow

(* A callee is entered.                                                    *)
LEMMA CalleeEntered ==
    ASSUME NEW p, NEW F, NEW C, NEW A, NEW R, Sound(p, F, C, A, R), F # <<>>,
           NEW key \in Keys, key \notin DOMAIN C, \A n \in 1 .. Len(F) : F[n].key # key
    PROVE  Sound(p, Append(F, Fresh(key)), C, A, R)
  <1> DEFINE G == Append(F, Fresh(key))
             L == Len(F)
  <1>0. F \in Seq(Frames) /\ Fresh(key) \in Frames  BY FreshIs DEF Sound, Typed
  <1>1. /\ G \in Seq(Frames) /\ Len(G) = L + 1 /\ G[L + 1] = Fresh(key) /\ G # <<>>
        /\ \A n \in 1 .. L : G[n] = F[n]
    BY <1>0, Pushed
  <1>2. L \in Nat \ {0}  BY <1>0
  <1> HIDE DEF G
  <1>3. Fresh(key).key = key /\ Fresh(key).fix = FALSE  BY FreshIs
  <1>4. \A j \in 1 .. L + 1 : FixBelow(G, j) = FixBelow(F, j)  BY <1>1, <1>2 DEF FixBelow
  <1>5. FixBelow(G, L + 2) = FixBelow(F, L + 1)
    <2>1. \A l \in 1 .. L + 2 - 1 : G[l].fix => l \in 1 .. L  BY <1>1, <1>2, <1>3
    <2> QED  BY <2>1, <1>1, <1>2 DEF FixBelow
  <1>6. Typed(p, G, C, A)  BY <1>1 DEF Sound, Typed
  <1>7. Assumed(G, A)  BY <1>1, <1>2, <1>5 DEF Sound, Assumed
  <1>8. Apart(G, C)  BY <1>1, <1>2, <1>3 DEF Sound, Apart
  <1>9. Whole(p, G, C, A)
    <2> SUFFICES ASSUME NEW n \in 1 .. L + 1
                 PROVE  Closed(p, Known(C, A), G[n].key, G[n].fn, Todo(G[n].work))
      BY <1>1 DEF Sound, Whole
    <2>1. CASE n = L + 1
      <3>1. Closed(p, Known(C, A), Fresh(key).key, Fresh(key).fn, Todo(Fresh(key).work))
        BY FreshIs
      <3> QED  BY <2>1, <3>1, <1>1
    <2>2. CASE n # L + 1  BY <2>2, <1>1, <1>2 DEF Sound, Whole
    <2> QED  BY <2>1, <2>2
  <1>10. Kept(p, G, C)
    <2> SUFFICES ASSUME NEW j \in 1 .. L + 1, G[j].fix  PROVE Rests(p, G, C, j)
      BY <1>1 DEF Kept
    <2>1. j \in 1 .. L  BY <1>1, <1>2, <1>3
    <2>2. Rests(p, F, C, j)  BY <2>1, <1>1 DEF Sound, Kept
    <2>3. G[j] = F[j] /\ \A i \in 1 .. j - 1 : G[i] = F[i]  BY <2>1, <1>1, <1>2
    <2>4. FixBelow(G, j) = FixBelow(F, j)  BY <1>4
    <2> QED  BY <2>2, <2>3, <2>4 DEF Rests
  <1>11. Rooted(p, G, C, R)
    <2>1. Asking(G) = Asking(F)  BY <1>1, <1>2 DEF Asking
    <2>2. \A j \in 1 .. L + 1 : G[j].fix => j \in 1 .. L /\ F[j].fix /\ G[j].before = F[j].before
      BY <1>1, <1>2, <1>3
    <2> QED  BY <2>1, <2>2, <1>1 DEF Sound, Rooted
  <1> QED  BY <1>6, <1>7, <1>8, <1>9, <1>10, <1>11 DEF Sound, G

(* The emitter asks for an entry.                                          *)
LEMMA RootEntered ==
    ASSUME NEW p, NEW C, NEW A, NEW R, Sound(p, <<>>, C, A, R),
           NEW key \in Keys, key \notin DOMAIN C
    PROVE  Sound(p, <<Fresh(key)>>, C, A, R \ {key})
  <1> DEFINE x == Fresh(key)
             G == <<x>>
  <1>1. x \in Frames /\ x.key = key /\ x.fix = FALSE /\ Closed(p, Known(C, A), x.key, x.fn, Todo(x.work))
    BY FreshIs
  <1> HIDE DEF x
  <1>2. G \in Seq(Frames) /\ Len(G) = 1 /\ G[1] = x /\ G # <<>>  BY <1>1
  <1> HIDE DEF G
  <1>3. DOMAIN A = {}  BY DEF Sound, Assumed, FixBelow
  <1>4. FixBelow(G, 2) = {}
    <2>1. \A l \in 1 .. 2 - 1 : ~G[l].fix  BY <1>1, <1>2
    <2> QED  BY <2>1 DEF FixBelow
  <1>5. Typed(p, G, C, A)  BY <1>2 DEF Sound, Typed
  <1>6. Assumed(G, A)  BY <1>2, <1>3, <1>4 DEF Assumed
  <1>7. Apart(G, C)  BY <1>1, <1>2 DEF Apart
  <1>8. Whole(p, G, C, A)  BY <1>1, <1>2 DEF Sound, Whole
  <1>9. Kept(p, G, C)  BY <1>1, <1>2 DEF Kept
  <1>10. Rooted(p, G, C, R \ {key})
    <2>1. Asking(G) = {key}  BY <1>1, <1>2 DEF Asking
    <2> QED  BY <2>1, <1>1, <1>2 DEF Sound, Rooted, Asking
  <1> QED  BY <1>5, <1>6, <1>7, <1>8, <1>9, <1>10 DEF Sound, G, x

(* A fixed point of frame d's key starts; no other is given up.            *)
Starts(F, C, A, d, B, G) ==
    /\ B = With(Restrict(A, DOMAIN A \ {F[n].key : n \in d .. Len(F)}), F[d].key, {})
    /\ G = Append(SubSeq(F, 1, d - 1),
                  [Fresh(F[d].key) EXCEPT !.fix = TRUE, !.before = DOMAIN C])

LEMMA FixedPointStarts ==
    ASSUME NEW p, NEW F, NEW C, NEW A, NEW R, Sound(p, F, C, A, R),
           NEW d \in 1 .. Len(F), F[d].key \notin DOMAIN A,
           NEW B, \A k \in DOMAIN A : k \in DOMAIN B \union DOMAIN C,
           NEW G, Starts(F, C, A, d, B, G)
    PROVE  Sound(p, G, C, B, R)
  <1> DEFINE key == F[d].key
             x == [Fresh(key) EXCEPT !.fix = TRUE, !.before = DOMAIN C]
             gone == {F[n].key : n \in d .. Len(F)}
             kept == Restrict(A, DOMAIN A \ gone)
  <1>0. F \in Seq(Frames) /\ Len(F) \in Nat /\ F[d] \in Frames  BY DEF Sound, Typed
  <1>1. key \in Keys /\ d \in Nat \ {0} /\ d <= Len(F)  BY <1>0 DEF Frames
  <1>2. /\ x \in Frames /\ x.key = key /\ x.fix = TRUE /\ x.before = DOMAIN C
        /\ x.fn = Empty /\ x.work = <<EntryPath(key)>>
    <2>1. DOMAIN C \subseteq Keys  BY DEF Sound, Typed
    <2>2. Fresh(key) \in Frames /\ Fresh(key).key = key /\ Fresh(key).fn = Empty
          /\ Fresh(key).work = <<EntryPath(key)>>
      BY <1>1, FreshIs
    <2> QED  BY <2>1, <2>2 DEF Frames
  <1> HIDE DEF x
  <1>3. SubSeq(F, 1, d - 1) \in Seq(Frames) /\ Len(SubSeq(F, 1, d - 1)) = d - 1
        /\ \A n \in 1 .. d - 1 : SubSeq(F, 1, d - 1)[n] = F[n]
    <2> DEFINE e == d - 1
    <2>1. e \in Nat /\ \A n \in 1 .. e : F[n] \in Frames  BY <1>0
    <2> HIDE DEF e
    <2>2. /\ SubSeq(F, 1, e) \in Seq(Frames) /\ Len(SubSeq(F, 1, e)) = IF 1 <= e THEN e - 1 + 1 ELSE 0
          /\ \A n \in 1 .. e - 1 + 1 : SubSeq(F, 1, e)[n] = F[1 + n - 1]
      BY <2>1, Seqs!SubSeqProperties
    <2>3. Len(SubSeq(F, 1, e)) = e /\ \A n \in 1 .. e : SubSeq(F, 1, e)[n] = F[n]
      BY <2>1, <2>2
    <2> QED  BY <2>2, <2>3 DEF e
  <1> DEFINE f == SubSeq(F, 1, d - 1)
  <1> HIDE DEF f
  <1>4. /\ G \in Seq(Frames) /\ Len(G) = d /\ G[d] = x /\ G # <<>>
        /\ \A n \in 1 .. d - 1 : G[n] = F[n]
    <2>1. /\ Append(f, x) \in Seq(Frames) /\ Len(Append(f, x)) = Len(f) + 1
          /\ Append(f, x)[Len(f) + 1] = x /\ Append(f, x) # <<>>
          /\ \A n \in 1 .. Len(f) : Append(f, x)[n] = f[n]
      BY <1>2, <1>3, Pushed DEF f
    <2>2. Len(f) = d - 1 /\ \A n \in 1 .. d - 1 : f[n] = F[n]  BY <1>3 DEF f
    <2>3. G = Append(f, x)  BY DEF f, x, Starts
    <2>4. Len(f) + 1 = d  BY <1>1, <2>2
    <2> QED  BY <2>1, <2>2, <2>3, <2>4
  <1>5. key \notin DOMAIN C  BY DEF Sound, Apart
  <1>6. DOMAIN B = (DOMAIN A \ gone) \union {key} /\ B[key] = {}
        /\ \A k \in DOMAIN A \ gone : k # key => B[k] = A[k]
    <2>1. DOMAIN kept = DOMAIN A \ gone /\ \A k \in DOMAIN A \ gone : kept[k] = A[k]
      BY RestrictIs
    <2>2. B = With(kept, key, {})  BY DEF Starts
    <2> HIDE DEF kept, gone, key
    <2>3. LET b == With(kept, key, {}) IN
          /\ DOMAIN b = DOMAIN kept \union {key} /\ b[key] = {}
          /\ \A k \in DOMAIN kept : k # key => b[k] = kept[k]
      BY DEF With
    <2> QED  BY <2>1, <2>2, <2>3
  <1>7. DOMAIN A \intersect gone = {}
    <2> SUFFICES ASSUME NEW k \in DOMAIN A, k \in gone  PROVE FALSE
      OBVIOUS
    <2>1. k \in DOMAIN C  BY <1>6
    <2>2. k \notin DOMAIN C  BY FixBelowIs
    <2> QED  BY <2>1, <2>2
  <1>8. DOMAIN B = DOMAIN A \union {key} /\ \A k \in DOMAIN A : B[k] = A[k]
    BY <1>6, <1>7
  <1>9. DOMAIN A = FixBelow(F, d)
    <2>1. DOMAIN A = {F[l].key : l \in {l \in 1 .. Len(F) : F[l].fix}}
      BY <1>0 DEF Sound, Assumed, FixBelow
    <2>2. \A l \in 1 .. Len(F) : F[l].fix => l \in 1 .. d - 1
      <3> SUFFICES ASSUME NEW l \in 1 .. Len(F), F[l].fix, ~(l \in 1 .. d - 1)  PROVE FALSE
        OBVIOUS
      <3>1. l \in d .. Len(F)  OBVIOUS
      <3>2. F[l].key \in DOMAIN A /\ F[l].key \in gone  BY <2>1, <3>1
      <3> QED  BY <3>2, <1>7
    <2>3. 1 .. d - 1 \subseteq 1 .. Len(F)  BY <1>0
    <2> QED  BY <2>1, <2>2, <2>3 DEF FixBelow
  <1>10. \A j \in 1 .. d : FixBelow(G, j) = FixBelow(F, j)  BY <1>4 DEF FixBelow
  <1>11. FixBelow(G, d + 1) = FixBelow(F, d) \union {key}
    <2>1. \A l \in 1 .. d + 1 - 1 : l = d \/ (l \in 1 .. d - 1 /\ G[l] = F[l])
      BY <1>1, <1>4
    <2>2. d \in 1 .. d + 1 - 1 /\ 1 .. d - 1 \subseteq 1 .. d + 1 - 1  BY <1>1
    <2>3. G[d].fix /\ G[d].key = key  BY <1>2, <1>4
    <2>4. FixBelow(G, d + 1) = {G[l].key : l \in {l \in 1 .. d - 1 : F[l].fix} \union {d}}
      BY <2>1, <2>2, <2>3 DEF FixBelow
    <2> QED  BY <2>3, <2>4, <1>4 DEF FixBelow
  <1> HIDE DEF gone, kept
  <1>12. Typed(p, G, C, B)
    <2>1. B[key] \in SUBSET States /\ \A k \in DOMAIN A : B[k] \in SUBSET States
      BY <1>6, <1>8 DEF Sound, Typed
    <2> QED  BY <2>1, <1>4, <1>8 DEF Sound, Typed
  <1>13. Assumed(G, B)  BY <1>4, <1>8, <1>9, <1>11 DEF Assumed
  <1>14. Apart(G, C)
    <2>1. ASSUME NEW n \in 1 .. d  PROVE G[n].key = F[n].key
      <3>1. CASE n = d  BY <3>1, <1>2, <1>4
      <3>2. CASE n # d  BY <3>2, <1>1, <1>4
      <3> QED  BY <3>1, <3>2
    <2>2. /\ \A n, l \in 1 .. Len(F) : F[n].key = F[l].key => n = l
          /\ \A n \in 1 .. Len(F) : F[n].key \notin DOMAIN C
      BY DEF Sound, Apart
    <2>3. 1 .. d \subseteq 1 .. Len(F)  BY <1>0, <1>1
    <2> QED  BY <2>1, <2>2, <2>3, <1>4 DEF Apart
  <1>15. \A u \in DOMAIN Known(C, A) : u \in DOMAIN Known(C, B) /\ Known(C, B)[u] = Known(C, A)[u]
    <2>1. /\ DOMAIN Known(C, A) = DOMAIN A \union DOMAIN C
          /\ \A k \in DOMAIN A : Known(C, A)[k] = A[k]
          /\ \A k \in DOMAIN C : k \notin DOMAIN A => Known(C, A)[k] = C[k].exits
      BY KnownIs, Zenon
    <2>2. /\ DOMAIN Known(C, B) = DOMAIN B \union DOMAIN C
          /\ \A k \in DOMAIN B : Known(C, B)[k] = B[k]
          /\ \A k \in DOMAIN C : k \notin DOMAIN B => Known(C, B)[k] = C[k].exits
      BY KnownIs, Zenon
    <2> QED  BY <2>1, <2>2, <1>5, <1>8
  <1>16. Whole(p, G, C, B)
    <2>1. p \in Programs /\ \A k \in DOMAIN C : C[k] \in Fns  BY DEF Sound, Typed
    <2>2. ASSUME NEW k \in DOMAIN C  PROVE Closed(p, Known(C, B), k, C[k], {})
      <3>1. Closed(p, Known(C, A), k, C[k], {})  BY DEF Sound, Whole
      <3> QED  BY <3>1, <2>1, <1>15, ClosedMoves
    <2>3. ASSUME NEW n \in 1 .. d
          PROVE  Closed(p, Known(C, B), G[n].key, G[n].fn, Todo(G[n].work))
      <3>1. CASE n = d
        <4>1. Closed(p, Known(C, B), key, Empty, Todo(<<EntryPath(key)>>))  BY <1>1, FreshIs
        <4>2. G[n].key = key /\ G[n].fn = Empty /\ G[n].work = <<EntryPath(key)>>
          BY <3>1, <1>2, <1>4
        <4> QED  BY <4>1, <4>2
      <3>2. CASE n # d
        <4>1. n \in 1 .. Len(F) /\ n \in 1 .. d - 1  BY <3>2, <1>0, <1>1
        <4>2. G[n] = F[n] /\ F[n] \in Frames  BY <4>1, <1>0, <1>4
        <4>3. F[n].fn \in Fns  BY <4>2 DEF Frames
        <4>4. Closed(p, Known(C, A), F[n].key, F[n].fn, Todo(F[n].work))
          BY <4>1 DEF Sound, Whole
        <4>5. Closed(p, Known(C, B), F[n].key, F[n].fn, Todo(F[n].work))
          BY <4>3, <4>4, <2>1, <1>15, ClosedMoves
        <4> QED  BY <4>2, <4>5
      <3> QED  BY <3>1, <3>2
    <2> QED  BY <2>2, <2>3, <1>4 DEF Whole
  <1>17. Kept(p, G, C)
    <2> SUFFICES ASSUME NEW j \in 1 .. d, G[j].fix  PROVE Rests(p, G, C, j)
      BY <1>4 DEF Kept
    <2>1. \A i \in 1 .. j - 1 : G[i] = F[i] /\ i \in 1 .. Len(F)  BY <1>0, <1>4
    <2>2. FixBelow(G, j) = FixBelow(F, j)  BY <1>10
    <2>3. CASE j # d
      <3>1. j \in 1 .. Len(F) /\ G[j] = F[j]  BY <2>3, <1>0, <1>4
      <3>2. Rests(p, F, C, j)  BY <3>1 DEF Sound, Kept
      <3> QED  BY <3>1, <3>2, <2>1, <2>2 DEF Rests
    <2>4. CASE j = d
      <3>1. G[j].before = DOMAIN C /\ FixBelow(G, j) = DOMAIN A  BY <2>2, <2>4, <1>2, <1>4, <1>9
      <3>2. DOMAIN Known(C, A) = DOMAIN A \union DOMAIN C  BY KnownIs
      <3>3. \A k \in DOMAIN C : Uses(p, k, C[k]) \subseteq DOMAIN A \union DOMAIN C
        BY <3>2, UsesKnown DEF Sound, Whole
      <3>4. ASSUME NEW i \in 1 .. j - 1
            PROVE  Uses(p, F[i].key, F[i].fn) \subseteq DOMAIN A \union DOMAIN C
        <4>1. Closed(p, Known(C, A), F[i].key, F[i].fn, Todo(F[i].work))
          BY <2>1 DEF Sound, Whole
        <4> QED  BY <4>1, <3>2, UsesKnown
      <3>5. \A l \in 1 .. j - 1 : F[l].fix => F[l].before \subseteq DOMAIN C
        BY <2>1 DEF Sound, Kept, Rests
      <3> QED  BY <3>1, <3>3, <3>4, <3>5, <2>1 DEF Rests
    <2> QED  BY <2>3, <2>4
  <1>18. Rooted(p, G, C, R)
    <2>1. Asking(G) = Asking(F) /\ F # <<>>
      <3>1. F # <<>> /\ G # <<>>  BY <1>0, <1>4
      <3>2. G[1].key = F[1].key
        <4>1. CASE d = 1  BY <4>1, <1>2, <1>4
        <4>2. CASE d # 1  BY <4>2, <1>1, <1>4
        <4> QED  BY <4>1, <4>2
      <3> QED  BY <3>1, <3>2 DEF Asking
    <2>2. Entries(p) \ R \subseteq DOMAIN C \union Asking(F)  BY DEF Sound, Rooted
    <2>3. ASSUME NEW j \in 1 .. d, G[j].fix
          PROVE  Entries(p) \ R \subseteq G[j].before \union Asking(G)
      <3>1. CASE j = d  BY <3>1, <2>1, <2>2, <1>2, <1>4
      <3>2. CASE j # d
        <4>1. j \in 1 .. Len(F) /\ G[j] = F[j]  BY <3>2, <1>0, <1>4
        <4> QED  BY <4>1, <2>1, <2>3 DEF Sound, Rooted
      <3> QED  BY <3>1, <3>2
    <2> QED  BY <2>1, <2>2, <2>3, <1>4 DEF Rooted
  <1> QED  BY <1>12, <1>13, <1>14, <1>16, <1>17, <1>18 DEF Sound

(* The top function is finished, its exits as it assumed them.             *)
Caches(F, C, A, D, B, G) ==
    /\ D = With(C, Last(F).key, Last(F).fn)
    /\ B = Restrict(A, DOMAIN A \ {Last(F).key})
    /\ G = Front(F)

LEMMA FunctionCached ==
    ASSUME NEW p, NEW F, NEW C, NEW A, NEW R, Sound(p, F, C, A, R), F # <<>>,
           Last(F).work = <<>>, Last(F).fix => Last(F).fn.exits = A[Last(F).key],
           NEW D, NEW B, NEW G, Caches(F, C, A, D, B, G)
    PROVE  Sound(p, G, D, B, R)
  <1> DEFINE L == Len(F)
             x == F[L]
             key == x.key
  <1>0. F \in Seq(Frames) /\ p \in Programs /\ \A k \in DOMAIN C : C[k] \in Fns
    BY DEF Sound, Typed
  <1>1. /\ Front(F) \in Seq(Frames) /\ Len(Front(F)) = L - 1 /\ L \in Nat \ {0}
        /\ Last(F) = x /\ x \in Frames
        /\ \A n \in 1 .. L - 1 : Front(F)[n] = F[n]
    BY <1>0, FrontIs
  <1>2. L \in 1 .. L /\ 1 .. L - 1 \subseteq 1 .. L /\ L - 1 \in Nat  BY <1>1
  <1>3. key \in Keys /\ x.fn \in Fns  BY <1>1 DEF Frames
  <1>4. key \notin DOMAIN C /\ (x.fix <=> key \in DOMAIN A)
    BY <1>2, FixBelowIs DEF Sound, Apart
  <1>5. /\ x.work = <<>> /\ (x.fix => x.fn.exits = A[key])  BY <1>1
  <1>6. /\ G \in Seq(Frames) /\ Len(G) = L - 1
        /\ \A n \in 1 .. L - 1 : G[n] = F[n]
    BY <1>1 DEF Caches
  <1>7. D = With(C, key, x.fn) /\ B = Restrict(A, DOMAIN A \ {key})  BY <1>1 DEF Caches
  <1> HIDE DEF L, x, key
  <1>8. DOMAIN D = DOMAIN C \union {key} /\ D[key] = x.fn /\ \A k \in DOMAIN C : D[k] = C[k]
    BY <1>4, <1>7 DEF With
  <1>9. DOMAIN B = DOMAIN A \ {key} /\ \A k \in DOMAIN B : B[k] = A[k]
    BY <1>7 DEF Restrict
  <1>10. \A u \in DOMAIN Known(C, A) : u \in DOMAIN Known(D, B) /\ Known(D, B)[u] = Known(C, A)[u]
    <2>1. /\ DOMAIN Known(C, A) = DOMAIN A \union DOMAIN C
          /\ \A k \in DOMAIN A : Known(C, A)[k] = A[k]
          /\ \A k \in DOMAIN C : k \notin DOMAIN A => Known(C, A)[k] = C[k].exits
      BY KnownIs
    <2>2. /\ DOMAIN Known(D, B) = DOMAIN B \union DOMAIN D
          /\ \A k \in DOMAIN B : Known(D, B)[k] = B[k]
          /\ \A k \in DOMAIN D : k \notin DOMAIN B => Known(D, B)[k] = D[k].exits
      BY DEF Known
    <2> QED  BY <2>1, <2>2, <1>4, <1>5, <1>8, <1>9
  <1>11. FixBelow(F, L + 1) = DOMAIN A  BY DEF Sound, Assumed, L
  <1>12. \A j \in 1 .. L : FixBelow(G, j) = FixBelow(F, j)  BY <1>1, <1>6 DEF FixBelow
  <1>13. /\ \A n, l \in 1 .. L : F[n].key = F[l].key => n = l
         /\ \A n \in 1 .. L : F[n].key \notin DOMAIN C
    BY DEF Sound, Apart, L
  <1>14. DOMAIN A \ {key} = FixBelow(F, L)
    <2>1. \A l \in 1 .. L + 1 - 1 : l = L \/ l \in 1 .. L - 1  BY <1>1
    <2>2. 1 .. L - 1 \subseteq 1 .. L + 1 - 1  BY <1>1
    <2>3. \A l \in 1 .. L - 1 : F[l].key # key  BY <1>1, <1>2, <1>13 DEF key, x
    <2>4. F[L].key = key  BY DEF key, x
    <2>5. FixBelow(F, L + 1) \subseteq FixBelow(F, L) \union {key}
      <3> SUFFICES ASSUME NEW k \in FixBelow(F, L + 1), k # key
                   PROVE  k \in FixBelow(F, L)
        OBVIOUS
      <3>1. PICK l \in 1 .. L + 1 - 1 : F[l].fix /\ F[l].key = k  BY <1>1, InFixBelow
      <3>2. l \in 1 .. L - 1  BY <2>1, <2>4, <3>1
      <3> QED  BY <1>1, <3>1, <3>2, InFixBelow
    <2>6. FixBelow(F, L) \subseteq FixBelow(F, L + 1)
      <3> SUFFICES ASSUME NEW k \in FixBelow(F, L)  PROVE k \in FixBelow(F, L + 1)
        OBVIOUS
      <3>1. PICK l \in 1 .. L - 1 : F[l].fix /\ F[l].key = k  BY <1>1, InFixBelow
      <3> QED  BY <1>1, <2>2, <3>1, InFixBelow
    <2>7. key \notin FixBelow(F, L)  BY <2>3 DEF FixBelow
    <2> QED  BY <2>5, <2>6, <2>7, <1>11
  <1>15. Typed(p, G, D, B)
    <2>1. DOMAIN D \subseteq Keys /\ \A k \in DOMAIN D : D[k] \in Fns
      BY <1>0, <1>3, <1>8 DEF Sound, Typed
    <2>2. \A k \in DOMAIN B : B[k] \in SUBSET States  BY <1>9 DEF Sound, Typed
    <2> QED  BY <2>1, <2>2, <1>0, <1>6 DEF Typed
  <1>16. Assumed(G, B)
    <2>1. FixBelow(G, Len(G) + 1) = FixBelow(F, L)  BY <1>1, <1>6, <1>12
    <2> QED  BY <2>1, <1>9, <1>14 DEF Assumed
  <1>17. Apart(G, D)
    <2>1. \A n \in 1 .. L - 1 : F[n].key # key  BY <1>1, <1>2, <1>13 DEF key, x
    <2> QED  BY <2>1, <1>2, <1>6, <1>8, <1>13 DEF Apart
  <1>18. Whole(p, G, D, B)
    <2>1. ASSUME NEW n \in 1 .. L - 1
          PROVE  Closed(p, Known(D, B), G[n].key, G[n].fn, Todo(G[n].work))
      <3>1. G[n] = F[n] /\ n \in 1 .. L /\ F[n] \in Frames  BY <1>0, <1>2, <1>6 DEF L
      <3>2. F[n].fn \in Fns  BY <3>1 DEF Frames
      <3>3. Closed(p, Known(C, A), F[n].key, F[n].fn, Todo(F[n].work))
        BY <3>1 DEF Sound, Whole, L
      <3>4. Closed(p, Known(D, B), F[n].key, F[n].fn, Todo(F[n].work))
        BY <3>2, <3>3, <1>0, <1>10, ClosedMoves
      <3> QED  BY <3>1, <3>4
    <2>2. ASSUME NEW k \in DOMAIN C  PROVE Closed(p, Known(D, B), k, D[k], {})
      <3>1. Closed(p, Known(C, A), k, C[k], {})  BY DEF Sound, Whole
      <3>2. Closed(p, Known(D, B), k, C[k], {})  BY <3>1, <1>0, <1>10, ClosedMoves
      <3> QED  BY <3>2, <1>8
    <2>3. Closed(p, Known(D, B), key, D[key], {})
      <3>1. Closed(p, Known(C, A), key, x.fn, Todo(x.work))
        BY <1>2 DEF Sound, Whole, L, x, key
      <3>2. Todo(x.work) = {}  BY <1>5 DEF Todo
      <3>3. Closed(p, Known(C, A), key, x.fn, {})  BY <3>1, <3>2
      <3>4. Closed(p, Known(D, B), key, x.fn, {})  BY <3>3, <1>0, <1>3, <1>10, ClosedMoves
      <3> QED  BY <3>4, <1>8
    <2> QED  BY <2>1, <2>2, <2>3, <1>6, <1>8 DEF Whole
  <1>19. Kept(p, G, D)
    <2> SUFFICES ASSUME NEW j \in 1 .. L - 1, G[j].fix  PROVE Rests(p, G, D, j)
      BY <1>6 DEF Kept
    <2>1. G[j] = F[j] /\ j \in 1 .. L  BY <1>2, <1>6
    <2>2. \A i \in 1 .. j - 1 : G[i] = F[i]  BY <1>1, <1>6
    <2>3. FixBelow(G, j) = FixBelow(F, j)  BY <2>1, <1>12
    <2>4. Rests(p, F, C, j)  BY <2>1 DEF Sound, Kept, L
    <2>5. F[j].before \subseteq DOMAIN C  BY <2>4 DEF Rests
    <2>6. \A k \in F[j].before : D[k] = C[k] /\ k \in DOMAIN D  BY <2>5, <1>8
    <2> QED  BY <2>1, <2>2, <2>3, <2>4, <2>6 DEF Rests
  <1>20. Rooted(p, G, D, R)
    <2>1. Entries(p) \ R \subseteq DOMAIN C \union Asking(F)  BY DEF Sound, Rooted
    <2>2. F # <<>> /\ Asking(F) = {F[1].key}  BY DEF Asking
    <2>3. CASE L = 1
      <3>1. G = <<>> /\ Asking(G) = {}  BY <2>3, <1>6 DEF Asking
      <3>2. F[1].key = key  BY <2>3 DEF key, x
      <3> QED  BY <2>1, <2>2, <2>3, <3>1, <3>2, <1>6, <1>8 DEF Rooted
    <2>4. CASE L # 1
      <3>1. 1 \in 1 .. L - 1  BY <2>4, <1>1
      <3>2. G # <<>> /\ Asking(G) = {F[1].key}  BY <3>1, <1>6 DEF Asking
      <3>3. ASSUME NEW j \in 1 .. L - 1, G[j].fix
            PROVE  Entries(p) \ R \subseteq G[j].before \union Asking(F)
        <4>1. G[j] = F[j] /\ j \in 1 .. L  BY <1>2, <1>6
        <4> QED  BY <3>3, <4>1 DEF Sound, Rooted, L
      <3> QED  BY <2>1, <2>2, <3>2, <3>3, <1>6, <1>8 DEF Rooted
    <2> QED  BY <2>3, <2>4
  <1> QED  BY <1>15, <1>16, <1>17, <1>18, <1>19, <1>20 DEF Sound

(* An iteration: what the last one decoded is dropped.                     *)
Iterates(F, C, A, D, B, G) ==
    LET x == Last(F) IN
    /\ B = [A EXCEPT ![x.key] = x.fn.exits]
    /\ D = Restrict(C, x.before)
    /\ G = Append(Front(F), [x EXCEPT !.tries = @ + 1, !.work = <<EntryPath(x.key)>>,
                                      !.fn = Empty])

LEMMA FixedPointIterated ==
    ASSUME NEW p, NEW F, NEW C, NEW A, NEW R, Sound(p, F, C, A, R), F # <<>>,
           Last(F).fix, NEW D, NEW B, NEW G, Iterates(F, C, A, D, B, G)
    PROVE  Sound(p, G, D, B, R)
  <1> DEFINE L == Len(F)
             x == F[L]
             key == x.key
             before == x.before
             y == [x EXCEPT !.tries = @ + 1, !.work = <<EntryPath(x.key)>>, !.fn = Empty]
  <1>0. F \in Seq(Frames) /\ p \in Programs /\ \A k \in DOMAIN C : C[k] \in Fns
    BY DEF Sound, Typed
  <1>1. L \in Nat \ {0} /\ Last(F) = x /\ x \in Frames /\ x.fix  BY <1>0, FrontIs
  <1>2. L \in 1 .. L /\ 1 .. L - 1 \subseteq 1 .. L /\ L - 1 \in Nat  BY <1>1
  <1>3. key \in Keys /\ x.fn \in Fns /\ x.fn.exits \in SUBSET States  BY <1>1 DEF Frames, Fns
  <1>4. /\ y \in Frames /\ y.key = key /\ y.fix = TRUE /\ y.before = before
        /\ y.fn = Empty /\ y.work = <<EntryPath(key)>>
    <2>1. EntryPath(key) \in Paths /\ Empty \in Fns  BY <1>3, FreshIs
    <2>2. <<EntryPath(key)>> \in Seq(Paths)  BY <2>1
    <2>3. y.fix = TRUE
      <3>1. x.fix \in BOOLEAN  BY <1>1 DEF Frames
      <3>2. x.fix = TRUE  BY <3>1, <1>1, Zenon
      <3>3. y.fix = x.fix  BY <1>1 DEF Frames
      <3> QED  BY <3>2, <3>3, Zenon
    <2>4. y \in Frames /\ y.key = x.key /\ y.before = x.before /\ y.fn = Empty
          /\ y.work = <<EntryPath(x.key)>>
      <3> DEFINE work == <<EntryPath(x.key)>>
                 tries == x.tries + 1
                 z == [x EXCEPT !.tries = tries, !.work = work, !.fn = Empty]
      <3>1. y = z  OBVIOUS
      <3>2. tries \in Nat  BY <1>1 DEF Frames
      <3>3. work \in Seq(Paths)  BY <2>2
      <3> HIDE DEF x, work, tries, y
      <3>4. z \in Frames /\ z.key = x.key /\ z.before = x.before /\ z.fn = Empty /\ z.work = work
        BY <1>1, <2>1, <3>2, <3>3 DEF Frames
      <3> QED  BY <3>1, <3>4 DEF work
    <2> QED  BY <2>3, <2>4
  <1>5. key \notin DOMAIN C /\ key \in DOMAIN A
    BY <1>1, <1>2, FixBelowIs DEF Sound, Apart
  <1> HIDE DEF y
  <1>6. /\ G \in Seq(Frames) /\ Len(G) = L /\ G[L] = y /\ G # <<>>
        /\ \A n \in 1 .. L - 1 : G[n] = F[n]
    <2>1. G = Append(Front(F), y)  BY <1>1 DEF Iterates, y
    <2>2. LET r == Append(Front(F), y) IN
          /\ r \in Seq(Frames) /\ Len(r) = Len(F) /\ Last(r) = y /\ r[Len(F)] = y /\ r # <<>>
          /\ \A n \in 1 .. Len(F) - 1 : r[n] = F[n]
      BY <1>0, <1>4, ReplaceLast
    <2> QED  BY <2>1, <2>2
  <1>7. B = [A EXCEPT ![key] = x.fn.exits] /\ D = Restrict(C, before)  BY <1>1 DEF Iterates
  <1>8. Rests(p, F, C, L)  BY <1>1, <1>2 DEF Sound, Kept
  <1> HIDE DEF L, x, key, before
  <1>9. DOMAIN D = before /\ \A k \in before : D[k] = C[k] /\ k \in DOMAIN C
    BY <1>7, <1>8 DEF Restrict, Rests, before, x
  <1>10. /\ DOMAIN B = DOMAIN A /\ B[key] = x.fn.exits
         /\ \A k \in DOMAIN A : k # key => B[k] = A[k]
    BY <1>5, <1>7
  <1>11. FixBelow(F, L) \subseteq DOMAIN A /\ key \notin FixBelow(F, L)
         /\ \A k \in DOMAIN A : k \notin DOMAIN C
    BY <1>2, FixBelowIs DEF key, x, L
  <1>12. \A u \in before \union FixBelow(F, L) :
            u \in DOMAIN Known(C, A) => u \in DOMAIN Known(D, B) /\ Known(D, B)[u] = Known(C, A)[u]
    <2>1. /\ DOMAIN Known(C, A) = DOMAIN A \union DOMAIN C
          /\ \A k \in DOMAIN A : Known(C, A)[k] = A[k]
          /\ \A k \in DOMAIN C : k \notin DOMAIN A => Known(C, A)[k] = C[k].exits
      BY KnownIs
    <2>2. /\ DOMAIN Known(D, B) = DOMAIN B \union DOMAIN D
          /\ \A k \in DOMAIN B : Known(D, B)[k] = B[k]
          /\ \A k \in DOMAIN D : k \notin DOMAIN B => Known(D, B)[k] = D[k].exits
      BY KnownIs
    <2> QED  BY <2>1, <2>2, <1>9, <1>10, <1>11
  <1>13. \A n \in 1 .. L : G[n].key = F[n].key /\ G[n].fix = F[n].fix /\ G[n].before = F[n].before
    <2> TAKE n \in 1 .. L
    <2>1. CASE n = L
      <3>1. x.fix = TRUE
        <4>1. x.fix \in BOOLEAN  BY <1>1 DEF Frames
        <4> QED  BY <4>1, <1>1, Zenon
      <3> QED  BY <2>1, <3>1, <1>4, <1>6 DEF key, before, x
    <2>2. CASE n # L  BY <2>2, <1>1, <1>6
    <2> QED  BY <2>1, <2>2
  <1>14. \A j \in 1 .. L + 1 : FixBelow(G, j) = FixBelow(F, j)
    BY <1>1, <1>13 DEF FixBelow
  <1>15. Typed(p, G, D, B)
    <2>1. DOMAIN D \subseteq Keys /\ \A k \in DOMAIN D : D[k] \in Fns
      BY <1>0, <1>9 DEF Sound, Typed
    <2>2. \A k \in DOMAIN B : B[k] \in SUBSET States  BY <1>3, <1>10 DEF Sound, Typed
    <2> QED  BY <2>1, <2>2, <1>0, <1>6 DEF Typed
  <1>16. Assumed(G, B)
    <2>1. FixBelow(G, L + 1) = FixBelow(F, L + 1)  BY <1>1, <1>14
    <2> QED  BY <2>1, <1>6, <1>10 DEF Sound, Assumed, L
  <1>17. Apart(G, D)  BY <1>6, <1>9, <1>13 DEF Sound, Apart, L
  <1>18. Whole(p, G, D, B)
    <2>1. ASSUME NEW n \in 1 .. L
          PROVE  Closed(p, Known(D, B), G[n].key, G[n].fn, Todo(G[n].work))
      <3>1. CASE n = L
        <4>1. Closed(p, Known(D, B), key, Empty, Todo(<<EntryPath(key)>>))  BY <1>3, FreshIs
        <4> QED  BY <3>1, <4>1, <1>4, <1>6
      <3>2. CASE n # L
        <4>1. n \in 1 .. L - 1  BY <3>2, <1>1
        <4>2. G[n] = F[n] /\ F[n] \in Frames  BY <4>1, <1>0, <1>6 DEF L
        <4>3. F[n].fn \in Fns  BY <4>2 DEF Frames
        <4>4. Closed(p, Known(C, A), F[n].key, F[n].fn, Todo(F[n].work))
          BY DEF Sound, Whole, L
        <4>5. Uses(p, F[n].key, F[n].fn) \subseteq before \union FixBelow(F, L)
          BY <4>1, <1>8 DEF Rests, before, x
        <4>6. Closed(p, Known(D, B), F[n].key, F[n].fn, Todo(F[n].work))
          BY <4>3, <4>4, <4>5, <1>0, <1>12, ClosedMoves
        <4> QED  BY <4>2, <4>6
      <3> QED  BY <3>1, <3>2
    <2>2. ASSUME NEW k \in before  PROVE Closed(p, Known(D, B), k, D[k], {})
      <3>1. Closed(p, Known(C, A), k, C[k], {}) /\ C[k] \in Fns
        BY <1>0, <1>9 DEF Sound, Whole
      <3>2. Uses(p, k, C[k]) \subseteq before \union FixBelow(F, L)
        BY <1>8 DEF Rests, before, x
      <3>3. Closed(p, Known(D, B), k, C[k], {})  BY <3>1, <3>2, <1>0, <1>12, ClosedMoves
      <3> QED  BY <3>3, <1>9
    <2> QED  BY <2>1, <2>2, <1>6, <1>9 DEF Whole
  <1>19. Kept(p, G, D)
    <2> SUFFICES ASSUME NEW j \in 1 .. L, G[j].fix  PROVE Rests(p, G, D, j)
      BY <1>6 DEF Kept
    <2>1. \A i \in 1 .. j - 1 : G[i] = F[i]  BY <1>1, <1>6
    <2>2. FixBelow(G, j) = FixBelow(F, j) /\ G[j].before = F[j].before /\ F[j].fix
      BY <1>1, <1>13, <1>14
    <2>3. Rests(p, F, C, j)  BY <2>2 DEF Sound, Kept, L
    <2>4. F[j].before \subseteq before
      <3>1. CASE j = L  BY <3>1 DEF before, x
      <3>2. CASE j # L
        <4>1. j \in 1 .. L - 1  BY <3>2, <1>1
        <4> QED  BY <4>1, <2>2, <1>8 DEF Rests, before, x
      <3> QED  BY <3>1, <3>2
    <2>5. \A k \in F[j].before : D[k] = C[k] /\ k \in DOMAIN D  BY <2>4, <1>9
    <2> QED  BY <2>1, <2>2, <2>3, <2>5 DEF Rests
  <1>20. Rooted(p, G, D, R)
    <2>1. Asking(G) = Asking(F)
      <3>1. G[1].key = F[1].key  BY <1>1, <1>13
      <3> QED  BY <3>1, <1>6 DEF Asking
    <2>2. \A j \in 1 .. L : F[j].fix => Entries(p) \ R \subseteq F[j].before \union Asking(F)
      BY DEF Sound, Rooted, L
    <2>3. Entries(p) \ R \subseteq before \union Asking(F)
      BY <2>2, <1>1, <1>2 DEF before, x
    <2> QED  BY <2>1, <2>2, <2>3, <1>6, <1>9, <1>13 DEF Rooted
  <1> QED  BY <1>15, <1>16, <1>17, <1>18, <1>19, <1>20 DEF Sound

-----------------------------------------------------------------------------
(* One instruction.                                                        *)

(* Other instructions decoded, other paths found, leave one as it is.      *)
LEMMA FlowGrows ==
    ASSUME NEW p, NEW X, NEW key, NEW fn, NEW gn, NEW k \in Places, NEW on, NEW un,
           Flow(p, X, key, fn, k, on), on \subseteq un,
           gn.post[k] = fn.post[k], fn.exits \subseteq gn.exits,
           \A t : <<k[1], k[2], t>> \in gn.interp <=> <<k[1], k[2], t>> \in fn.interp
    PROVE  Flow(p, X, key, gn, k, un)
  BY DEF Flow

Place(path) == <<path.at, path.m>>

LEMMA ContinueIs ==
    ASSUME NEW p \in Paths, NEW exits \in SUBSET States
    PROVE  /\ Continue(p, exits) \in Seq(Paths)
           /\ \A v \in exits : <<p.at + 1, v>> \in Todo(Continue(p, exits))
  <1> DEFINE a == p.at + 1
             x == [p EXCEPT !.at = a, !.m = 16]
             y == [p EXCEPT !.at = a, !.m = 8]
             z == [p EXCEPT !.at = a, !.m = Unknown]
             wide == IF 16 \in exits THEN <<x>> ELSE <<>>
             narrow == IF 8 \in exits THEN <<y>> ELSE <<>>
             unknown == IF Unknown \in exits THEN <<z>> ELSE <<>>
             s == wide \o narrow \o unknown
  <1>1. a \in Nat  BY DEF Paths
  <1>2. /\ x \in Paths /\ x.at = a /\ x.m = 16
        /\ y \in Paths /\ y.at = a /\ y.m = 8
        /\ z \in Paths /\ z.at = a /\ z.m = Unknown
    <2> HIDE DEF a
    <2> QED  BY <1>1 DEF Paths, States, Widths
  <1>3. Continue(p, exits) = IF s = <<>> THEN <<>> ELSE Append(Tail(s), Head(s))
    BY DEF Continue
  <1>4. \A v \in exits : v = 16 \/ v = 8 \/ v = Unknown  BY DEF States, Widths
  <1> HIDE DEF x, y, z
  <1>5. /\ wide \in Seq(Paths) /\ narrow \in Seq(Paths) /\ unknown \in Seq(Paths)
    BY <1>2
  <1>6. /\ 16 \in exits => Len(wide) = 1 /\ wide[1] = x
        /\ 8 \in exits => Len(narrow) = 1 /\ narrow[1] = y
        /\ Unknown \in exits => Len(unknown) = 1 /\ unknown[1] = z
    OBVIOUS
  <1> HIDE DEF wide, narrow, unknown
  <1>7. /\ s \in Seq(Paths) /\ Len(s) = Len(wide) + Len(narrow) + Len(unknown)
        /\ Len(wide) \in Nat /\ Len(narrow) \in Nat /\ Len(unknown) \in Nat
        /\ \A n \in 1 .. Len(wide) : s[n] = wide[n]
        /\ \A n \in 1 .. Len(narrow) : s[Len(wide) + n] = narrow[n]
        /\ \A n \in 1 .. Len(unknown) : s[Len(wide) + Len(narrow) + n] = unknown[n]
    BY <1>5
  <1> HIDE DEF s
  <1>8. \A v \in exits : \E n \in 1 .. Len(s) : s[n].at = a /\ s[n].m = v
    <2> TAKE v \in exits
    <2>1. CASE v = 16
      <3>0. Len(wide) = 1 /\ wide[1] = x  BY <2>1, <1>6
      <3>1. 1 \in 1 .. Len(s) /\ s[1] = x  BY <3>0, <1>7
      <3> QED  BY <2>1, <3>1, <1>2
    <2>2. CASE v = 8
      <3>0. Len(narrow) = 1 /\ narrow[1] = y  BY <2>2, <1>6
      <3>1. Len(wide) + 1 \in 1 .. Len(s) /\ s[Len(wide) + 1] = y
        BY <3>0, <1>7
      <3> QED  BY <2>2, <3>1, <1>2
    <2>3. CASE v = Unknown
      <3> DEFINE n == Len(wide) + Len(narrow) + 1
      <3>0. Len(unknown) = 1 /\ unknown[1] = z  BY <2>3, <1>6
      <3>1. n \in 1 .. Len(s) /\ s[n] = z  BY <3>0, <1>7
      <3> QED  BY <2>3, <3>1, <1>2
    <2> QED  BY <2>1, <2>2, <2>3, <1>4
  <1>9. CASE s = <<>>  BY <1>3, <1>8, <1>9
  <1>10. CASE s # <<>>
    <2> DEFINE r == Append(Tail(s), Head(s))
    <2>1. /\ Tail(s) \in Seq(Paths) /\ Head(s) \in Paths /\ Head(s) = s[1] /\ Len(s) \in Nat \ {0}
          /\ Len(Tail(s)) = Len(s) - 1 /\ \A n \in 1 .. Len(s) - 1 : Tail(s)[n] = s[n + 1]
      BY <1>7, <1>10
    <2>2. r \in Seq(Paths) /\ Len(r) = Len(s) /\ r[Len(s)] = s[1]
          /\ \A n \in 1 .. Len(s) - 1 : r[n] = s[n + 1]
      BY <2>1
    <2>3. Continue(p, exits) = r  BY <1>3, <1>10
    <2> HIDE DEF r
    <2>4. \A n \in 1 .. Len(s) : \E l \in 1 .. Len(r) : r[l] = s[n]
      <3> TAKE n \in 1 .. Len(s)
      <3>1. CASE n = 1  BY <3>1, <2>1, <2>2
      <3>2. CASE n # 1
        <4>1. n - 1 \in 1 .. Len(s) - 1 /\ n - 1 \in 1 .. Len(r)  BY <3>2, <2>1, <2>2
        <4>2. r[n - 1] = s[n]  BY <4>1, <2>2
        <4> QED  BY <4>1, <4>2
      <3> QED  BY <3>1, <3>2
    <2>5. ASSUME NEW v \in exits  PROVE <<a, v>> \in Todo(r)
      <3>1. PICK n \in 1 .. Len(s) : s[n].at = a /\ s[n].m = v  BY <1>8
      <3>2. PICK l \in 1 .. Len(r) : r[l] = s[n]  BY <2>4
      <3> QED  BY <3>1, <3>2 DEF Todo
    <2> QED  BY <2>2, <2>3, <2>5
  <1> QED  BY <1>9, <1>10

(* The paths of an instruction follow the others.                          *)
LEMMA TodoJoined ==
    ASSUME NEW s \in Seq(Paths), NEW t \in Seq(Paths), s # <<>>
    PROVE  /\ Front(s) \o t \in Seq(Paths)
           /\ Todo(t) \subseteq Todo(Front(s) \o t)
           /\ Todo(s) \subseteq Todo(Front(s) \o t) \union {Place(Last(s))}
  <1> DEFINE f == Front(s)
             j == f \o t
  <1>1. /\ f \in Seq(Paths) /\ Len(f) = Len(s) - 1 /\ Len(s) \in Nat \ {0} /\ Last(s) = s[Len(s)]
        /\ \A n \in 1 .. Len(s) - 1 : f[n] = s[n]
    BY FrontIs
  <1> HIDE DEF f
  <1>2. /\ j \in Seq(Paths) /\ Len(j) = Len(f) + Len(t) /\ Len(t) \in Nat
        /\ \A n \in 1 .. Len(f) : j[n] = f[n]
        /\ \A n \in 1 .. Len(t) : j[Len(f) + n] = t[n]
    BY <1>1
  <1> HIDE DEF j
  <1>3. Todo(t) \subseteq Todo(j)
    <2>1. \A n \in 1 .. Len(t) : Len(f) + n \in 1 .. Len(j) /\ j[Len(f) + n] = t[n]
      BY <1>1, <1>2
    <2> QED  BY <2>1 DEF Todo
  <1>4. Todo(s) \subseteq Todo(j) \union {Place(Last(s))}
    <2>1. \A n \in 1 .. Len(s) : n = Len(s) \/ (n \in 1 .. Len(j) /\ j[n] = s[n])
      BY <1>1, <1>2
    <2> QED  BY <2>1, <1>1 DEF Todo, Place
  <1> QED  BY <1>2, <1>3, <1>4 DEF f, j

(* The instruction that is next, and the path it is on.                    *)
LEMMA PathIs ==
    ASSUME Sound(program, frames, cache, assume, roots), Decoding
    PROVE  /\ program \in Programs /\ frames \in Seq(Frames) /\ frames # <<>>
           /\ Top \in Frames /\ Top.key \in Keys /\ Top.fn \in Fns
           /\ Top.work \in Seq(Paths) /\ Top.work # <<>> /\ Path \in Paths
           /\ Path.at \in Nat /\ Path.m \in States /\ Place(Path) \in Places
           /\ Closed(program, Known(cache, assume), Top.key, Top.fn, Todo(Top.work))
  <1>1. frames \in Seq(Frames) /\ frames # <<>> /\ program \in Programs
    BY DEF Sound, Typed, Decoding
  <1>2. Len(frames) \in 1 .. Len(frames) /\ Top = frames[Len(frames)] /\ Top \in Frames
    BY <1>1, FrontIs DEF Top
  <1>3. Closed(program, Known(cache, assume), Top.key, Top.fn, Todo(Top.work))
    BY <1>2 DEF Sound, Whole
  <1>4. Top.work \in Seq(Paths) /\ Top.work # <<>>  BY <1>2 DEF Frames, Decoding
  <1>5. Path \in Paths  BY <1>4, FrontIs DEF Path
  <1>6. Path.at \in Nat /\ Path.m \in States  BY <1>5 DEF Paths
  <1>7. Top.key \in Keys /\ Top.fn \in Fns  BY <1>2 DEF Frames
  <1>8. Place(Path) \in Places  BY <1>6 DEF Place, Places
  <1> QED  BY <1>1, <1>2, <1>3, <1>4, <1>5, <1>6, <1>7, <1>8

LEMMA InsnIs ==
    ASSUME program \in Programs, Path.at \in DOMAIN program.code
    PROVE  /\ Insn.op \in Ops /\ Insn.to \in Seq(DOMAIN program.code)
           /\ Insn.op \in {"br", "jmp"} => DOMAIN Insn.to = {1} /\ Insn.to[1] \in Nat
           /\ Insn.op = "set" => Insn.w \in Widths
           /\ \A n \in DOMAIN Insn.to : Insn.to[n] \in Nat
           /\ DOMAIN Insn.to \subseteq Nat
  <1>1. /\ DOMAIN program.code \subseteq Nat
        /\ Insn.op \in Ops /\ Insn.to \in Seq(DOMAIN program.code)
        /\ Insn.op \in {"br", "jmp"} => Len(Insn.to) = 1
        /\ Insn.op = "set" => Insn.w \in Widths
    BY DecodeAssumption DEF DecodeAssumption, Insn
  <1>2. DOMAIN Insn.to = 1 .. Len(Insn.to) /\ Len(Insn.to) \in Nat  BY <1>1
  <1>3. \A n \in DOMAIN Insn.to : Insn.to[n] \in Nat  BY <1>1
  <1>4. ASSUME Insn.op \in {"br", "jmp"}  PROVE DOMAIN Insn.to = {1}
    <2>1. DOMAIN Insn.to = 1 .. 1  BY <1>1, <1>2, <1>4
    <2> QED  BY <2>1
  <1> QED  BY <1>1, <1>2, <1>3, <1>4

LEMMA AskedKnown ==
    ASSUME Sound(program, frames, cache, assume, roots),
           \A n \in Asked(Insn, Path.m) : Resolved(<<Insn.to[n], Path.m>>)
    PROVE  LET X == Known(cache, assume) IN
           /\ Asked(Insn, Path.m) = Needs(program, Top.key, Insn, Path.m)
           /\ \A n \in Asked(Insn, Path.m) :
                LET k == <<Insn.to[n], Path.m>> IN
                k \in DOMAIN X /\ X[k] = Exits(k) /\ Exits(k) \in SUBSET States
  <1>1. Asked(Insn, Path.m) = Needs(program, Top.key, Insn, Path.m)
    BY DEF Asked, Needs, IsTail, Leads, Registered
  <1>2. ASSUME NEW k, Resolved(k)
        PROVE  /\ k \in DOMAIN Known(cache, assume) /\ Known(cache, assume)[k] = Exits(k)
               /\ Exits(k) \in SUBSET States
    <2>1. CASE k \in DOMAIN assume  BY <2>1 DEF Known, Exits, Sound, Typed
    <2>2. CASE k \notin DOMAIN assume
      <3>1. k \in DOMAIN cache  BY <1>2, <2>2 DEF Resolved
      <3>2. cache[k] \in Fns  BY <3>1 DEF Sound, Typed
      <3>3. cache[k].exits \in SUBSET States  BY <3>2 DEF Fns
      <3> QED  BY <2>2, <3>1, <3>3 DEF Known, Exits
    <2> QED  BY <2>1, <2>2
  <1> QED  BY <1>1, <1>2

(* What decoding an instruction adds.                                      *)
Adds(d, k) ==
    /\ d.paths \in Seq(Paths) /\ d.post \in SUBSET States /\ d.exits \in SUBSET States
    /\ d.interp \in SUBSET (Nat \X States \X Nat)
    /\ \A e \in d.interp : <<e[1], e[2]>> = k

(* fn has it.                                                              *)
Has(fn, d, k) ==
    /\ fn.post[k] = d.post /\ d.exits \subseteq fn.exits
    /\ \A t : <<k[1], k[2], t>> \in fn.interp <=> <<k[1], k[2], t>> \in d.interp

Decodable ==
    /\ Sound(program, frames, cache, assume, roots) /\ Decoding
    /\ Path.at \in DOMAIN program.code
    /\ \A n \in Asked(Insn, Path.m) : Resolved(<<Insn.to[n], Path.m>>)

LEMMA PathTo ==
    ASSUME NEW p \in Paths, NEW at \in Nat
    PROVE  LET q == [p EXCEPT !.at = at] IN q \in Paths /\ q.at = at /\ q.m = p.m
  BY DEF Paths

LEMMA PathWidth ==
    ASSUME NEW p \in Paths, NEW v \in States
    PROVE  LET q == [p EXCEPT !.m = v] IN q \in Paths /\ q.m = v /\ q.at = p.at
  BY DEF Paths

LEMMA NextStateIs ==
    ASSUME Decodable
    PROVE  LET p == NextState(Path, Insn) IN
           /\ p \in Paths /\ p.at = Path.at
           /\ Insn.op = "set" => p.m = Insn.w
           /\ Insn.op \notin {"set", "plp"} => p.m = Path.m
  <1>1. Path \in Paths /\ program \in Programs  BY PathIs DEF Decodable
  <1>2. Insn.op = "set" => Insn.w \in States  BY <1>1, InsnIs DEF Decodable, States
  <1>3. CASE Insn.op = "set"
    BY <1>1, <1>2, <1>3, PathWidth DEF NextState
  <1>4. CASE Insn.op = "php"
    <2> DEFINE pushed == Append(Path.pushed, Path.m)
    <2>1. pushed \in Seq(States)  BY <1>1 DEF Paths
    <2>2. NextState(Path, Insn) = [Path EXCEPT !.pushed = pushed]  BY <1>4 DEF NextState
    <2> HIDE DEF pushed
    <2>3. [Path EXCEPT !.pushed = pushed] \in Paths  BY <1>1, <2>1 DEF Paths
    <2> QED  BY <1>1, <1>4, <2>2, <2>3 DEF Paths
  <1>5. CASE Insn.op = "plp"
    <2>1. NextState(Path, Insn) = AfterPlp(Path)  BY <1>5 DEF NextState
    <2>2. Unknown \in States  BY DEF States
    <2>3. CASE Path.pushed = <<>>
      <3>1. AfterPlp(Path) = [Path EXCEPT !.m = Unknown, !.lost = TRUE]  BY <2>3 DEF AfterPlp
      <3>2. AfterPlp(Path) \in Paths /\ AfterPlp(Path).at = Path.at
        BY <1>1, <2>2, <3>1 DEF Paths
      <3> QED  BY <1>5, <2>1, <3>2
    <2>4. CASE Path.pushed # <<>>
      <3> DEFINE v == IF Path.lost THEN Unknown ELSE Last(Path.pushed)
                 pushed == Front(Path.pushed)
      <3>1. Path.pushed \in Seq(States)  BY <1>1 DEF Paths
      <3>2. pushed \in Seq(States) /\ Last(Path.pushed) \in States  BY <2>4, <3>1, FrontIs
      <3>3. v \in States  BY <2>2, <3>2
      <3>4. AfterPlp(Path) = [Path EXCEPT !.m = v, !.pushed = pushed]  BY <2>4 DEF AfterPlp
      <3> HIDE DEF v, pushed
      <3>5. AfterPlp(Path) \in Paths /\ AfterPlp(Path).at = Path.at
        BY <1>1, <3>2, <3>3, <3>4 DEF Paths
      <3> QED  BY <1>5, <2>1, <3>5
    <2> QED  BY <2>3, <2>4
  <1>6. CASE Insn.op \notin {"set", "php", "plp"}  BY <1>1, <1>6 DEF NextState
  <1> QED  BY <1>3, <1>4, <1>5, <1>6

(* A path is followed where the instruction leads.                         *)
LEMMA TodoOne ==
    ASSUME NEW p \in Paths, NEW q \in Paths
    PROVE  /\ <<p>> \in Seq(Paths) /\ Place(p) \in Todo(<<p>>)
           /\ <<p, q>> \in Seq(Paths) /\ {Place(p), Place(q)} \subseteq Todo(<<p, q>>)
  <1>1. Len(<<p>>) = 1 /\ 1 \in 1 .. 1 /\ Len(<<p, q>>) = 2 /\ {1, 2} \subseteq 1 .. 2  OBVIOUS
  <1> QED  BY <1>1 DEF Todo, Place

LEMMA StraightFlows ==
    ASSUME Decodable, Insn.op \in {"set", "use", "php", "plp", "br", "ret"}, NEW fn, NEW on
    PROVE  LET d == Decoded(Insn) IN
           /\ Adds(d, Place(Path))
           /\ Todo(d.paths) \subseteq on /\ Has(fn, d, Place(Path)) =>
                Flow(program, Known(cache, assume), Top.key, fn, Place(Path), on)
  <1> DEFINE d == Decoded(Insn)
             i == Insn
             k == Place(Path)
             p == NextState(Path, i)
             next == [p EXCEPT !.at = p.at + 1]
             branch == [p EXCEPT !.at = i.to[1]]
  <1>1. /\ program \in Programs /\ Path \in Paths /\ Path.at \in Nat /\ Path.m \in States
        /\ Path.at \in DOMAIN program.code
    BY PathIs DEF Decodable
  <1>2. k[1] = Path.at /\ k[2] = Path.m /\ program.code[k[1]] = i  BY DEF Place, Insn
  <1>3. /\ p \in Paths /\ p.at = Path.at /\ p.m \in States
        /\ i.op = "set" => p.m = i.w
        /\ i.op \notin {"set", "plp"} => p.m = Path.m
    BY NextStateIs DEF Paths
  <1>4. i.op = "br" => i.to[1] \in Nat  BY <1>1, InsnIs
  <1> HIDE DEF p
  <1>5. p.at + 1 \in Nat /\ p.at + 1 = Path.at + 1  BY <1>1, <1>3
  <1>6. next \in Paths /\ next.at = Path.at + 1 /\ next.m = p.m  BY <1>3, <1>5, PathTo
  <1>7. i.op = "br" => branch \in Paths /\ branch.at = i.to[1] /\ branch.m = p.m
    BY <1>3, <1>4, PathTo
  <1>8. Needs(program, Top.key, i, Path.m) = {}
    <2>1. i.op \notin {"jmp", "call", "jml"}  OBVIOUS
    <2> QED  BY <2>1 DEF Needs
  <1>9. CASE i.op = "ret"
    <2>1. d = Leaves({p.m}, {})  BY <1>9 DEF Decoded, p
    <2>2. /\ d.paths = <<>> /\ d.post = {} /\ d.exits = {p.m} /\ d.interp = {}
      BY <2>1 DEF Leaves
    <2> HIDE DEF d
    <2>3. Adds(d, k)  BY <1>3, <2>2 DEF Adds
    <2>4. ASSUME Has(fn, d, k)
          PROVE  Flow(program, Known(cache, assume), Top.key, fn, k, on)
      BY <2>2, <2>4, <1>1, <1>2, <1>3, <1>8, <1>9 DEF Has, Flow
    <2> QED  BY <2>3, <2>4 DEF d
  <1>10. CASE i.op = "br"
    <2>1. d = Goes(<<branch, next>>, {p.m})  BY <1>10 DEF Decoded, p
    <2>2. d.paths = <<branch, next>> /\ d.post = {p.m} /\ d.exits = {} /\ d.interp = {}
      BY <2>1 DEF Goes
    <2> HIDE DEF d, next, branch
    <2>3. /\ <<branch, next>> \in Seq(Paths)
          /\ {Place(branch), Place(next)} \subseteq Todo(<<branch, next>>)
      BY <1>6, <1>7, <1>10, TodoOne
    <2>4. {<<i.to[1], Path.m>>, <<Path.at + 1, Path.m>>} \subseteq Todo(d.paths)
      BY <2>2, <2>3, <1>3, <1>6, <1>7, <1>10 DEF Place
    <2>5. Adds(d, k)  BY <1>3, <2>2, <2>3 DEF Adds
    <2>6. ASSUME Todo(d.paths) \subseteq on, Has(fn, d, k)
          PROVE  Flow(program, Known(cache, assume), Top.key, fn, k, on)
      BY <2>2, <2>4, <2>6, <1>1, <1>2, <1>3, <1>8, <1>10 DEF Has, Flow
    <2> QED  BY <2>5, <2>6 DEF d
  <1>11. CASE i.op \in {"set", "use", "php", "plp"}
    <2>1. d = Goes(<<next>>, {p.m})  BY <1>11 DEF Decoded, p
    <2>2. d.paths = <<next>> /\ d.post = {p.m} /\ d.exits = {} /\ d.interp = {}
      BY <2>1 DEF Goes
    <2> HIDE DEF d, next, branch
    <2>3. <<next>> \in Seq(Paths) /\ Place(next) \in Todo(<<next>>)  BY <1>6, TodoOne
    <2>4. <<Path.at + 1, p.m>> \in Todo(d.paths)  BY <2>2, <2>3, <1>6 DEF Place
    <2>5. Adds(d, k)  BY <1>3, <2>2, <2>3 DEF Adds
    <2>6. ASSUME Todo(d.paths) \subseteq on, Has(fn, d, k)
          PROVE  Flow(program, Known(cache, assume), Top.key, fn, k, on)
      <3>1. fn.post[k] = {p.m} /\ <<Path.at + 1, p.m>> \in on  BY <2>2, <2>4, <2>6 DEF Has
      <3> QED  BY <3>1, <1>1, <1>2, <1>3, <1>8, <1>11 DEF Flow
    <2> QED  BY <2>5, <2>6 DEF d
  <1> QED  BY <1>9, <1>10, <1>11

LEMMA JmpFlows ==
    ASSUME Decodable, Insn.op = "jmp", NEW fn, NEW on
    PROVE  LET d == Decoded(Insn) IN
           /\ Adds(d, Place(Path))
           /\ Todo(d.paths) \subseteq on /\ Has(fn, d, Place(Path)) =>
                Flow(program, Known(cache, assume), Top.key, fn, Place(Path), on)
  <1> DEFINE d == Decoded(Insn)
             i == Insn
             k == Place(Path)
             p == NextState(Path, i)
             t == i.to[1]
             q == [p EXCEPT !.at = t]
             w == Path.m
             X == Known(cache, assume)
  <1>1. /\ program \in Programs /\ Path \in Paths /\ Path.at \in Nat /\ Path.m \in States
        /\ Path.at \in DOMAIN program.code
    BY PathIs DEF Decodable
  <1>2. k[1] = Path.at /\ k[2] = w /\ program.code[k[1]] = i  BY DEF Place, Insn
  <1>3. p \in Paths /\ p.at = Path.at /\ p.m = w  BY NextStateIs
  <1>4. t \in Nat /\ DOMAIN i.to = {1}  BY <1>1, InsnIs
  <1> HIDE DEF p
  <1>5. q \in Paths /\ q.at = t /\ q.m = w  BY <1>3, <1>4, PathTo
  <1>6. /\ Asked(i, w) = Needs(program, Top.key, i, w)
        /\ \A n \in Asked(i, w) : <<i.to[n], w>> \in DOMAIN X /\ X[<<i.to[n], w>>] = Exits(<<i.to[n], w>>)
                                  /\ Exits(<<i.to[n], w>>) \in SUBSET States
    BY AskedKnown DEF Decodable
  <1>7. IsTail(t, w) <=> Leads(program, Top.key, t, w)  BY DEF IsTail, Leads, Registered
  <1>8. IsTail(t, w) => 1 \in Asked(i, w)  BY <1>4 DEF Asked
  <1>9. CASE IsTail(t, w)
    <2>1. d = Leaves(Exits(<<t, w>>), {})  BY <1>3, <1>9 DEF Decoded, p
    <2>2. d.paths = <<>> /\ d.post = {} /\ d.exits = Exits(<<t, w>>) /\ d.interp = {}
      BY <2>1 DEF Leaves
    <2>3. X[<<t, w>>] = Exits(<<t, w>>) /\ Exits(<<t, w>>) \in SUBSET States
      BY <1>6, <1>8, <1>9
    <2> HIDE DEF d, X
    <2>4. Adds(d, k)  BY <2>2, <2>3 DEF Adds
    <2>5. ASSUME Has(fn, d, k)
          PROVE  Flow(program, X, Top.key, fn, k, on)
      <3>1. /\ fn.post[k] = {} /\ X[<<t, w>>] \subseteq fn.exits
            /\ <<Path.at, w, t>> \notin fn.interp
        BY <2>2, <2>3, <2>5, <1>2 DEF Has
      <3> QED  BY <3>1, <1>1, <1>2, <1>6, <1>7, <1>9 DEF Flow
    <2> QED  BY <2>4, <2>5 DEF d, X
  <1>10. CASE ~IsTail(t, w)
    <2>1. d = Goes(<<q>>, {p.m})  BY <1>3, <1>10 DEF Decoded, p
    <2>2. d.paths = <<q>> /\ d.post = {w} /\ d.exits = {} /\ d.interp = {}
      BY <2>1, <1>3 DEF Goes
    <2> HIDE DEF d, X, q
    <2>3. <<q>> \in Seq(Paths) /\ Place(q) \in Todo(<<q>>)  BY <1>5, TodoOne
    <2>4. <<t, w>> \in Todo(d.paths)  BY <2>2, <2>3, <1>5 DEF Place
    <2>5. Adds(d, k)  BY <1>1, <2>2, <2>3 DEF Adds
    <2>6. ASSUME Todo(d.paths) \subseteq on, Has(fn, d, k)
          PROVE  Flow(program, X, Top.key, fn, k, on)
      <3>1. /\ fn.post[k] = {w} /\ <<t, w>> \in on /\ <<Path.at, w, t>> \notin fn.interp
        BY <2>2, <2>4, <2>6, <1>2 DEF Has
      <3> QED  BY <3>1, <1>1, <1>2, <1>6, <1>7, <1>10 DEF Flow
    <2> QED  BY <2>5, <2>6 DEF d, X
  <1> QED  BY <1>9, <1>10

LEMMA JmlFlows ==
    ASSUME Decodable, Insn.op = "jml", NEW fn, NEW on
    PROVE  LET d == Decoded(Insn) IN
           /\ Adds(d, Place(Path))
           /\ Todo(d.paths) \subseteq on /\ Has(fn, d, Place(Path)) =>
                Flow(program, Known(cache, assume), Top.key, fn, Place(Path), on)
  <1> DEFINE d == Decoded(Insn)
             i == Insn
             k == Place(Path)
             p == NextState(Path, i)
             w == p.m
             at == p.at
             X == Known(cache, assume)
             Out(t) == IF Missing(t, w) THEN {Unknown} ELSE Exits(<<t, w>>)
             exits == UNION {Out(t) : t \in Targets(i)}
             interp == {<<at, w, t>> : t \in {u \in Targets(i) : Missing(u, w)}}
  <1>1. /\ program \in Programs /\ Path \in Paths /\ Path.at \in Nat /\ Path.m \in States
        /\ Path.at \in DOMAIN program.code
    BY PathIs DEF Decodable
  <1>2. p \in Paths /\ at = Path.at /\ w = Path.m  BY NextStateIs
  <1>3. /\ k[1] = at /\ k[2] = w /\ program.code[k[1]] = i
        /\ at \in Nat /\ w \in States /\ at \in DOMAIN program.code
    BY <1>1, <1>2 DEF Place, Insn
  <1>4. \A n \in DOMAIN i.to : i.to[n] \in Nat  BY <1>1, InsnIs
  <1>5. Targets(i) = {i.to[n] : n \in DOMAIN i.to}  BY DEF Targets
  <1>6. /\ Asked(i, w) = Needs(program, Top.key, i, w)
        /\ \A n \in Asked(i, w) : <<i.to[n], w>> \in DOMAIN X /\ X[<<i.to[n], w>>] = Exits(<<i.to[n], w>>)
                                  /\ Exits(<<i.to[n], w>>) \in SUBSET States
    BY <1>2, AskedKnown DEF Decodable
  <1>7. \A n \in DOMAIN i.to : /\ Missing(i.to[n], w) <=> w \notin program.states[i.to[n]]
                               /\ ~Missing(i.to[n], w) => n \in Asked(i, w)
    BY DEF Asked, Missing, Registered
  <1>8. d = Leaves(exits, interp)
    <2>1. d = DecodeJump(p, i)  BY DEF Decoded
    <2> HIDE DEF p
    <2> QED  BY <2>1 DEF DecodeJump
  <1>9. \A n \in DOMAIN i.to : Out(i.to[n]) \subseteq States  BY <1>6, <1>7 DEF States
  <1> HIDE DEF Out, p, w, at, X
  <1>10. exits \in SUBSET States /\ \A n \in DOMAIN i.to : Out(i.to[n]) \subseteq exits
    BY <1>5, <1>9
  <1>11. \A n \in DOMAIN i.to : <<at, w, i.to[n]>> \in interp <=> Missing(i.to[n], w)
    BY <1>5
  <1>12. interp \in SUBSET (Nat \X States \X Nat) /\ \A e \in interp : <<e[1], e[2]>> = k
    BY <1>2, <1>3, <1>4, <1>5 DEF Place
  <1> HIDE DEF exits, interp
  <1>13. d.paths = <<>> /\ d.post = {} /\ d.exits = exits /\ d.interp = interp
    BY <1>8 DEF Leaves
  <1> HIDE DEF d
  <1>14. Adds(d, k)  BY <1>10, <1>12, <1>13 DEF Adds
  <1>15. ASSUME Has(fn, d, k)
         PROVE  Flow(program, X, Top.key, fn, k, on)
    <2>1. fn.post[k] = {} /\ exits \subseteq fn.exits  BY <1>13, <1>15 DEF Has
    <2>2. \A n \in DOMAIN i.to : <<at, w, i.to[n]>> \in fn.interp <=> Missing(i.to[n], w)
      BY <1>3, <1>11, <1>13, <1>15 DEF Has
    <2>3. \A n \in DOMAIN i.to : ~Missing(i.to[n], w) => X[<<i.to[n], w>>] \subseteq fn.exits
      BY <2>1, <1>6, <1>7, <1>10 DEF Out
    <2> QED  BY <2>1, <2>2, <2>3, <1>3, <1>6, <1>7 DEF Flow
  <1> QED  BY <1>14, <1>15 DEF d, X

LEMMA CallFlows ==
    ASSUME Decodable, Insn.op = "call", NEW fn, NEW on
    PROVE  LET d == Decoded(Insn) IN
           /\ Adds(d, Place(Path))
           /\ Todo(d.paths) \subseteq on /\ Has(fn, d, Place(Path)) =>
                Flow(program, Known(cache, assume), Top.key, fn, Place(Path), on)
  <1> DEFINE d == Decoded(Insn)
             i == Insn
             k == Place(Path)
             p == NextState(Path, i)
             w == p.m
             at == p.at
             X == Known(cache, assume)
             exits == UNION {CallExits(t, w) : t \in Targets(i)}
             interp == {<<at, w, t>> : t \in {u \in Targets(i) : ViaInterp(u, w)}}
             paths == Continue(p, exits)
  <1>1. /\ program \in Programs /\ Path \in Paths /\ Path.at \in Nat /\ Path.m \in States
        /\ Path.at \in DOMAIN program.code
    BY PathIs DEF Decodable
  <1>2. p \in Paths /\ at = Path.at /\ w = Path.m  BY NextStateIs
  <1>3. /\ k[1] = at /\ k[2] = w /\ program.code[k[1]] = i
        /\ at \in Nat /\ w \in States /\ at \in DOMAIN program.code
    BY <1>1, <1>2 DEF Place, Insn
  <1>4. \A n \in DOMAIN i.to : i.to[n] \in Nat  BY <1>1, InsnIs
  <1>5. Targets(i) = {i.to[n] : n \in DOMAIN i.to}  BY DEF Targets
  <1>6. /\ Asked(i, w) = Needs(program, Top.key, i, w)
        /\ \A n \in Asked(i, w) : <<i.to[n], w>> \in DOMAIN X /\ X[<<i.to[n], w>>] = Exits(<<i.to[n], w>>)
                                  /\ Exits(<<i.to[n], w>>) \in SUBSET States
    BY <1>2, AskedKnown DEF Decodable
  <1>7. \A n \in DOMAIN i.to : w \in program.states[i.to[n]] => n \in Asked(i, w)
    BY DEF Asked, Registered
  <1>8. \A n \in DOMAIN i.to :
           /\ ViaInterp(i.to[n], w) <=> Interprets(program, X, i.to[n], w)
           /\ CallExits(i.to[n], w) = OnFrom(program, X, i.to[n], w)
           /\ CallExits(i.to[n], w) \subseteq States
    BY <1>3, <1>6, <1>7 DEF ViaInterp, Missing, Registered, Interprets, CallExits, OnFrom
  <1>9. /\ d.paths = paths /\ d.post = exits /\ d.exits = {} /\ d.interp = interp
    <2>1. d = DecodeCall(p, i)  BY DEF Decoded
    <2> HIDE DEF p
    <2>2. DecodeCall(p, i) = [Goes(paths, exits) EXCEPT !.interp = interp]
      BY DEF DecodeCall
    <2> HIDE DEF d, paths, exits, interp
    <2> QED  BY <2>1, <2>2 DEF Goes
  <1> HIDE DEF p, w, at, X, d
  <1>10. exits = UNION {OnFrom(program, X, i.to[n], w) : n \in DOMAIN i.to}
    <2>1. exits = UNION {CallExits(i.to[n], w) : n \in DOMAIN i.to}  BY <1>5
    <2> QED  BY <2>1, <1>8
  <1>11. exits \in SUBSET States  BY <1>5, <1>8
  <1>12. \A n \in DOMAIN i.to : <<at, w, i.to[n]>> \in interp <=> ViaInterp(i.to[n], w)
    BY <1>5
  <1>13. interp \in SUBSET (Nat \X States \X Nat) /\ \A e \in interp : <<e[1], e[2]>> = k
    BY <1>2, <1>3, <1>4, <1>5 DEF Place
  <1> HIDE DEF exits, interp
  <1>14. paths \in Seq(Paths) /\ \A v \in exits : <<at + 1, v>> \in Todo(paths)
    BY <1>2, <1>11, ContinueIs DEF at
  <1> HIDE DEF paths
  <1>15. Adds(d, k)  BY <1>9, <1>11, <1>13, <1>14 DEF Adds
  <1>16. ASSUME Todo(d.paths) \subseteq on, Has(fn, d, k)
         PROVE  Flow(program, X, Top.key, fn, k, on)
    <2>1. fn.post[k] = exits /\ \A v \in exits : <<at + 1, v>> \in on
      BY <1>9, <1>14, <1>16 DEF Has
    <2>2. \A n \in DOMAIN i.to :
             <<at, w, i.to[n]>> \in fn.interp <=> Interprets(program, X, i.to[n], w)
      BY <1>3, <1>8, <1>9, <1>12, <1>16 DEF Has
    <2>3. \A n \in Needs(program, Top.key, i, w) : <<i.to[n], w>> \in DOMAIN X  BY <1>6
    <2> QED  BY <2>1, <2>2, <2>3, <1>3, <1>10 DEF Flow
  <1> QED  BY <1>15, <1>16 DEF d, X

LEMMA DecodedFlows ==
    ASSUME Decodable, NEW fn, NEW on
    PROVE  LET d == Decoded(Insn) IN
           /\ Adds(d, Place(Path))
           /\ Todo(d.paths) \subseteq on /\ Has(fn, d, Place(Path)) =>
                Flow(program, Known(cache, assume), Top.key, fn, Place(Path), on)
  <1>1. program \in Programs  BY PathIs DEF Decodable
  <1>2. Insn.op \in Ops  BY <1>1, InsnIs DEF Decodable
  <1>3. CASE Insn.op \in {"set", "use", "php", "plp", "br", "ret"}  BY <1>3, StraightFlows
  <1>4. CASE Insn.op = "jmp"  BY <1>4, JmpFlows
  <1>5. CASE Insn.op = "jml"  BY <1>5, JmlFlows
  <1>6. CASE Insn.op = "call"  BY <1>6, CallFlows
  <1> QED  BY <1>2, <1>3, <1>4, <1>5, <1>6 DEF Ops

-----------------------------------------------------------------------------
(* The steps of the decoder.                                               *)

LEMMA PathMetKept ==
    ASSUME Sound(program, frames, cache, assume, roots), Decoding, Seen
    PROVE  Sound(program, Append(Front(frames), [Top EXCEPT !.work = Front(@)]),
                 cache, assume, roots)
  <1> DEFINE work == Front(Top.work)
             x == [Top EXCEPT !.work = work]
  <1>1. /\ Top \in Frames /\ Top.work \in Seq(Paths) /\ Top.work # <<>> /\ frames # <<>>
        /\ Closed(program, Known(cache, assume), Top.key, Top.fn, Todo(Top.work))
    BY PathIs
  <1>2. Front(Top.work) \o <<>> = Front(Top.work) /\ work \in Seq(Paths)
    <2>1. Front(Top.work) \in Seq(Paths)  BY <1>1, FrontIs
    <2> QED  BY <2>1
  <1>3. Todo(Top.work) \subseteq Todo(work) \union {Place(Path)}
    <2>1. <<>> \in Seq(Paths)  OBVIOUS
    <2>2. Todo(Top.work) \subseteq Todo(Front(Top.work) \o <<>>) \union {Place(Last(Top.work))}
      BY <1>1, <2>1, TodoJoined
    <2> QED  BY <2>2, <1>2 DEF Path
  <1>4. Place(Path) \in DOMAIN Top.fn.post  BY DEF Seen, Place
  <1> HIDE DEF work
  <1>5. /\ x \in Frames /\ x.key = Top.key /\ x.fn = Top.fn /\ x.work = work
        /\ x.before = Top.before
    BY <1>1, <1>2 DEF Frames
  <1>6. x.fix = Top.fix  BY <1>1 DEF Frames
  <1>7. Closed(program, Known(cache, assume), x.key, x.fn, Todo(work))
    <2> DEFINE on == DOMAIN Top.fn.post \union Todo(Top.work)
               un == DOMAIN Top.fn.post \union Todo(work)
    <2>1. on \subseteq un  BY <1>3, <1>4
    <2>2. ASSUME NEW k \in DOMAIN Top.fn.post
          PROVE  Flow(program, Known(cache, assume), Top.key, Top.fn, k, un)
      <3>1. Flow(program, Known(cache, assume), Top.key, Top.fn, k, on)  BY <1>1 DEF Closed
      <3>2. k \in Places
        <4>1. Top.fn \in Fns  BY <1>1 DEF Frames
        <4> QED  BY <4>1 DEF Fns, Tables
      <3> HIDE DEF on, un
      <3> QED  BY <2>1, <3>1, <3>2, FlowGrows
    <2> QED  BY <2>1, <2>2, <1>1, <1>5 DEF Closed
  <1>8. /\ x.key = Last(frames).key /\ x.fix = Last(frames).fix
        /\ x.before = Last(frames).before /\ x.work = work
    BY <1>5, <1>6 DEF Top
  <1> HIDE DEF x
  <1>9. Sound(program, Append(Front(frames), x), cache, assume, roots)
    BY <1>1, <1>5, <1>7, <1>8, TopGoesOn
  <1> QED  BY <1>9 DEF x, work

LEMMA VisitKept ==
    ASSUME Decodable, ~Seen
    PROVE  LET d == Decoded(Insn) IN
           Sound(program,
                 Append(Front(frames),
                        [Top EXCEPT
                           !.work = Front(@) \o d.paths,
                           !.fn = [post   |-> With(@.post, <<Path.at, Path.m>>, d.post),
                                   interp |-> @.interp \union d.interp,
                                   exits  |-> @.exits \union d.exits]]),
                 cache, assume, roots)
  <1> DEFINE d == Decoded(Insn)
             k == Place(Path)
             fn == Top.fn
             X == Known(cache, assume)
             gn == [post   |-> With(fn.post, k, d.post),
                    interp |-> fn.interp \union d.interp,
                    exits  |-> fn.exits \union d.exits]
             work == Front(Top.work) \o d.paths
             x == [Top EXCEPT !.work = work, !.fn = gn]
             on == DOMAIN fn.post \union Todo(Top.work)
             un == DOMAIN gn.post \union Todo(work)
  <1>1. /\ Top \in Frames /\ Top.work \in Seq(Paths) /\ Top.work # <<>> /\ frames # <<>>
        /\ fn \in Fns /\ k \in Places
        /\ Closed(program, X, Top.key, fn, Todo(Top.work))
    BY PathIs DEF Decodable
  <1>2. k \notin DOMAIN fn.post  BY DEF Seen, Place
  <1>3. Adds(d, k)  BY DecodedFlows
  <1>4. DOMAIN fn.post \subseteq Places /\ \A y \in DOMAIN fn.post : fn.post[y] \in SUBSET States
        /\ fn.interp \in SUBSET (Nat \X States \X Nat) /\ fn.exits \in SUBSET States
    BY <1>1 DEF Fns, Tables
  <1> HIDE DEF d, k, fn, X
  <1>5. /\ gn.post = With(fn.post, k, d.post) /\ gn.interp = fn.interp \union d.interp
        /\ gn.exits = fn.exits \union d.exits
    OBVIOUS
  <1>6. gn \in Fns
    <2> DEFINE post == With(fn.post, k, d.post)
    <2>1. DOMAIN post \in SUBSET Places  BY <1>1, <1>4 DEF With
    <2>2. post \in [DOMAIN post -> SUBSET States]
      <3>1. post = [y \in DOMAIN post |-> post[y]]  BY DEF With
      <3>2. \A y \in DOMAIN post : post[y] \in SUBSET States
        BY <1>3, <1>4 DEF With, Adds
      <3> HIDE DEF post
      <3> QED  BY <3>1, <3>2
    <2>3. post \in Tables  BY <2>1, <2>2 DEF Tables
    <2> HIDE DEF post
    <2>4. fn.interp \union d.interp \in SUBSET (Nat \X States \X Nat)
          /\ fn.exits \union d.exits \in SUBSET States
      <3> DEFINE Triples == Nat \X States \X Nat
      <3>1. d.interp \in SUBSET Triples /\ d.exits \in SUBSET States  BY <1>3, Zenon DEF Adds
      <3>2. fn.interp \in SUBSET Triples /\ fn.exits \in SUBSET States  BY <1>1 DEF Fns
      <3> HIDE DEF Triples
      <3>3. fn.interp \union d.interp \in SUBSET Triples  BY <3>1, <3>2
      <3>4. fn.exits \union d.exits \in SUBSET States  BY <3>1, <3>2
      <3> QED  BY <3>3, <3>4 DEF Triples
    <2> QED  BY <2>3, <2>4 DEF Fns, post
  <1>7. /\ DOMAIN gn.post = DOMAIN fn.post \union {k} /\ gn.post[k] = d.post
        /\ \A y \in DOMAIN fn.post : gn.post[y] = fn.post[y]
    BY <1>2, <1>5 DEF With
  <1>8. /\ \A e \in fn.interp : <<e[1], e[2]>> \in DOMAIN fn.post
        /\ Top.key \in on
        /\ \A y \in DOMAIN fn.post : Flow(program, X, Top.key, fn, y, on)
    BY <1>1 DEF Closed
  <1>9. Has(gn, d, k)
    <2>1. ASSUME NEW t  PROVE <<k[1], k[2], t>> \notin fn.interp
      <3>1. <<k[1], k[2]>> = k  BY DEF k, Place
      <3>2. SUFFICES ASSUME <<k[1], k[2], t>> \in fn.interp  PROVE FALSE
        OBVIOUS
      <3>3. <<k[1], k[2]>> \in DOMAIN fn.post  BY <1>8, <3>2
      <3> QED  BY <3>1, <3>3, <1>2
    <2> QED  BY <2>1, <1>5, <1>7 DEF Has
  <1> HIDE DEF gn
  <1>10. /\ work \in Seq(Paths) /\ Todo(d.paths) \subseteq Todo(work)
         /\ Todo(Top.work) \subseteq Todo(work) \union {k}
    <2>1. d.paths \in Seq(Paths)  BY <1>3 DEF Adds
    <2>2. k = Place(Last(Top.work))  BY DEF k, Path
    <2> QED  BY <2>1, <2>2, <1>1, TodoJoined
  <1> HIDE DEF work
  <1>11. on \subseteq un  BY <1>7, <1>10
  <1>12. Flow(program, X, Top.key, gn, k, un)
    <2>1. Todo(d.paths) \subseteq un  BY <1>10
    <2> HIDE DEF un
    <2> QED  BY <2>1, <1>9, DecodedFlows DEF d, k, X
  <1>13. ASSUME NEW y \in DOMAIN fn.post  PROVE Flow(program, X, Top.key, gn, y, un)
    <2>1. Flow(program, X, Top.key, fn, y, on) /\ y \in Places /\ y # k  BY <1>2, <1>4, <1>8
    <2>2. \A t : <<y[1], y[2], t>> \in gn.interp <=> <<y[1], y[2], t>> \in fn.interp
      <3> SUFFICES ASSUME NEW t  PROVE <<y[1], y[2], t>> \notin d.interp
        BY <1>5
      <3>1. <<y[1], y[2]>> = y  BY <2>1 DEF Places
      <3>2. <<y[1], y[2], t>> \in d.interp => <<y[1], y[2]>> = k  BY <1>3 DEF Adds
      <3> QED  BY <2>1, <3>1, <3>2
    <2>3. gn.post[y] = fn.post[y] /\ fn.exits \subseteq gn.exits  BY <1>5, <1>7
    <2> HIDE DEF on, un
    <2> QED  BY <2>1, <2>2, <2>3, <1>11, FlowGrows
  <1>14. Closed(program, X, Top.key, gn, Todo(work))
    <2>1. \A e \in gn.interp : <<e[1], e[2]>> \in DOMAIN gn.post
      BY <1>3, <1>5, <1>7, <1>8 DEF Adds
    <2> QED  BY <2>1, <1>7, <1>8, <1>11, <1>12, <1>13 DEF Closed
  <1>15. /\ x \in Frames /\ x.key = Top.key /\ x.fn = gn /\ x.work = work
         /\ x.before = Top.before
    BY <1>1, <1>6, <1>10 DEF Frames
  <1>16. x.fix = Top.fix  BY <1>1 DEF Frames
  <1>17. x = [Top EXCEPT
                !.work = Front(@) \o d.paths,
                !.fn = [post   |-> With(@.post, <<Path.at, Path.m>>, d.post),
                        interp |-> @.interp \union d.interp,
                        exits  |-> @.exits \union d.exits]]
    BY DEF gn, work, fn, k, Place
  <1> HIDE DEF x
  <1>18. Sound(program, Append(Front(frames), x), cache, assume, roots)
    BY <1>1, <1>14, <1>15, <1>16, TopGoesOn DEF Decodable, X, Top
  <1> QED  BY <1>17, <1>18 DEF d

DecodeInv ==
    /\ Sound(program, frames, cache, assume, roots)
    /\ roots \subseteq Entries(program)
    /\ phase \in {"built", "run"} => frames = <<>> /\ roots = {}

LEMMA EntriesAreKeys ==
    ASSUME NEW p \in Programs
    PROVE  /\ Entries(p) \subseteq Keys
           /\ \A k \in Entries(p) : k[1] \in DOMAIN p.code /\ k[2] \in p.states[k[1]]
           /\ \A t \in DOMAIN p.code : \A w \in p.states[t] : <<t, w>> \in Entries(p) /\ w \in Widths
  <1>1. DOMAIN p.code \subseteq Nat /\ \A a \in DOMAIN p.code : p.states[a] \subseteq Widths
    BY DecodeAssumption DEF DecodeAssumption
  <1> QED  BY <1>1 DEF Entries, Keys

LEMMA InitSound == Init => DecodeInv
  <1> SUFFICES ASSUME Init  PROVE DecodeInv
    OBVIOUS
  <1>1. /\ program \in Programs /\ phase = "decode" /\ roots = Entries(program)
        /\ frames = <<>> /\ cache = <<>> /\ assume = <<>>
    BY DEF Init, DecodeInit
  <1>2. DOMAIN <<>> = {} /\ Len(<<>>) = 0 /\ <<>> \in Seq(Frames)  OBVIOUS
  <1>3. FixBelow(frames, 1) = {}  BY DEF FixBelow
  <1>4. Sound(program, frames, cache, assume, roots)
    BY <1>1, <1>2, <1>3 DEF Sound, Typed, Assumed, Apart, Whole, Kept, Rooted, Asking
  <1> QED  BY <1>1, <1>4 DEF DecodeInv

(* What an instruction asks for is an entry.                               *)
LEMMA AskedIsKey ==
    ASSUME Sound(program, frames, cache, assume, roots), Decoding,
           Path.at \in DOMAIN program.code, NEW n \in Asked(Insn, Path.m)
    PROVE  <<Insn.to[n], Path.m>> \in Keys
  <1>1. program \in Programs  BY PathIs
  <1>2. Insn.to \in Seq(DOMAIN program.code) /\ n \in DOMAIN Insn.to  BY <1>1, InsnIs DEF Asked
  <1>3. Insn.to[n] \in DOMAIN program.code  BY <1>2
  <1>4. Path.m \in program.states[Insn.to[n]]  BY DEF Asked, IsTail, Registered
  <1> QED  BY <1>1, <1>3, <1>4, EntriesAreKeys

LEMMA DecodeStep == DecodeInv /\ [Next]_vars /\ Confirms => DecodeInv'
  <1> SUFFICES ASSUME DecodeInv, [Next]_vars, Confirms  PROVE DecodeInv'
    OBVIOUS
  <1>1. Sound(program, frames, cache, assume, roots) /\ roots \subseteq Entries(program)
    BY DEF DecodeInv
  <1>2. CASE PathMet
    <2>1. Sound(program, frames', cache, assume, roots)
      BY <1>1, <1>2, PathMetKept DEF PathMet, SetTop
    <2> QED  BY <1>1, <1>2, <2>1 DEF PathMet, DecodeInv, Decoding
  <1>3. CASE Fail  BY <1>1, <1>3 DEF Fail, DecodeInv
  <1>4. CASE Visit
    <2>1. Decodable /\ ~Seen  BY <1>1, <1>4 DEF Visit, Unread, Decodable
    <2>2. Sound(program, frames', cache, assume, roots)
      BY <1>4, <2>1, VisitKept DEF Visit, SetTop
    <2> QED  BY <1>1, <1>4, <2>2 DEF Visit, Unread, DecodeInv, Decoding
  <1>5. CASE Enter
    <2>1. PICK n \in Asked(Insn, Path.m) :
             LET key == <<Insn.to[n], Path.m>> IN
             Asks(key) /\ key \notin Active /\ frames' = Append(frames, Fresh(key))
      BY <1>5 DEF Enter
    <2> DEFINE key == <<Insn.to[n], Path.m>>
    <2>2. Decoding /\ Path.at \in DOMAIN program.code /\ phase = "decode" /\ frames # <<>>
      BY <1>5 DEF Enter, Unread, Decoding
    <2>3. key \in Keys  BY <1>1, <2>2, AskedIsKey
    <2>4. key \notin DOMAIN cache  BY <2>1 DEF Asks, Resolved
    <2>5. \A l \in 1 .. Len(frames) : frames[l].key # key
      <3>1. frames \in Seq(Frames)  BY <1>1, <2>2, PathIs
      <3> QED  BY <3>1, <2>1 DEF Active
    <2> HIDE DEF key
    <2>6. Sound(program, Append(frames, Fresh(key)), cache, assume, roots)
      BY <1>1, <2>2, <2>3, <2>4, <2>5, CalleeEntered
    <2> QED  BY <1>1, <1>5, <2>1, <2>2, <2>6 DEF Enter, DecodeInv, key
  <1>6. CASE Recurse
    <2>1. PICK d \in DOMAIN frames :
             /\ Asks(frames[d].key)
             /\ frames' = Append(SubSeq(frames, 1, d - 1),
                                 [Fresh(frames[d].key) EXCEPT !.fix = TRUE, !.before = DOMAIN cache])
             /\ assume' = With(Unwound(d), frames[d].key, {})
      BY <1>6 DEF Recurse
    <2>2. frames \in Seq(Frames)  BY <1>1 DEF Sound, Typed
    <2>3. d \in 1 .. Len(frames)  BY <2>1, <2>2
    <2>4. frames[d].key \notin DOMAIN assume  BY <2>1 DEF Asks, Resolved
    <2>5. Starts(frames, cache, assume, d, assume', frames')  BY <2>1 DEF Starts, Unwound
    <2>6. \A k \in DOMAIN assume : k \in DOMAIN assume' \union DOMAIN cache
      BY <1>6 DEF Recurse, Confirms
    <2>7. Sound(program, frames', cache, assume', roots)
      BY <1>1, <2>3, <2>4, <2>5, <2>6, FixedPointStarts
    <2> QED  BY <1>1, <1>6, <2>7 DEF Recurse, Unread, Decoding, DecodeInv
  <1>7. CASE Cache
    <2>1. /\ phase = "decode" /\ frames # <<>> /\ Last(frames).work = <<>>
          /\ Last(frames).fix => Last(frames).fn.exits = assume[Last(frames).key]
      BY <1>7 DEF Cache, Finished, Stable, Top
    <2>2. Caches(frames, cache, assume, cache', assume', frames')
      BY <1>7 DEF Cache, Caches, Top
    <2>3. Sound(program, frames', cache', assume', roots)  BY <1>1, <2>1, <2>2, FunctionCached
    <2> QED  BY <1>1, <1>7, <2>1, <2>3 DEF Cache, DecodeInv
  <1>8. CASE Iterate
    <2>1. phase = "decode" /\ frames # <<>> /\ Last(frames).fix
      BY <1>8 DEF Iterate, Finished, Stable, Top
    <2>2. Iterates(frames, cache, assume, cache', assume', frames')
      BY <1>8 DEF Iterate, Iterates, SetTop, KeptBefore, Top
    <2>3. Sound(program, frames', cache', assume', roots)
      BY <1>1, <2>1, <2>2, FixedPointIterated
    <2> QED  BY <1>1, <1>8, <2>1, <2>3 DEF Iterate, DecodeInv
  <1>9. CASE Root
    <2>1. PICK key \in roots :
             /\ frames' = IF key \in DOMAIN cache THEN <<>> ELSE <<Fresh(key)>>
             /\ roots' = roots \ {key}
      BY <1>9 DEF Root
    <2>2. phase = "decode" /\ frames = <<>>
          /\ UNCHANGED <<program, phase, cache, assume>>
      BY <1>9 DEF Root
    <2>3. program \in Programs /\ key \in Keys
      BY <1>1, EntriesAreKeys DEF Sound, Typed
    <2>4. CASE key \in DOMAIN cache
      <3>1. Rooted(program, <<>>, cache, roots \ {key})
        BY <1>1, <2>2, <2>4 DEF Sound, Rooted
      <3>2. Sound(program, <<>>, cache, assume, roots \ {key})
        BY <1>1, <2>2, <3>1 DEF Sound
      <3> QED  BY <1>1, <2>1, <2>2, <2>4, <3>2 DEF DecodeInv
    <2>5. CASE key \notin DOMAIN cache
      <3>1. Sound(program, <<Fresh(key)>>, cache, assume, roots \ {key})
        BY <1>1, <2>2, <2>3, <2>5, RootEntered
      <3> QED  BY <1>1, <2>1, <2>2, <2>5, <3>1 DEF DecodeInv
    <2> QED  BY <2>4, <2>5
  <1>10. CASE Emit  BY <1>1, <1>10 DEF Emit, DecodeInv
  <1>11. CASE Start  BY <1>11 DEF Start, DecodeInv
  <1>12. CASE UNCHANGED decodeVars  BY <1>12 DEF decodeVars, DecodeInv
  <1>13. \/ DecodeNext \/ Start \/ UNCHANGED decodeVars
    BY DEF Next, RunNext, RunUnchanged, vars, Dispatch, SetWidth, Plp, Branch, Jump, Call, Return
  <1> QED
    BY <1>2, <1>3, <1>4, <1>5, <1>6, <1>7, <1>8, <1>9, <1>10, <1>11, <1>12, <1>13
       DEF DecodeNext, NotCode, NoConvergence

(* Once the build is done, X is what each function was compiled to leave   *)
(* in, and each is closed under it.                                        *)
LEMMA BuiltIs ==
    ASSUME DecodeInv, phase \in {"built", "run"}
    PROVE  /\ program \in Programs /\ DOMAIN assume = {} /\ DOMAIN cache \subseteq Keys
           /\ \A key \in DOMAIN cache :
                /\ cache[key] \in Fns /\ Known(cache, assume)[key] = cache[key].exits
                /\ Exits(key) = cache[key].exits
                /\ Closed(program, Known(cache, assume), key, cache[key], {})
           /\ DOMAIN Known(cache, assume) = DOMAIN cache
           /\ Entries(program) \subseteq DOMAIN cache
  <1>1. frames = <<>> /\ roots = {} /\ Sound(program, frames, cache, assume, roots)
    BY DEF DecodeInv
  <1>2. DOMAIN assume = {}
    <2>1. FixBelow(<<>>, 1) = {}  BY DEF FixBelow
    <2> QED  BY <1>1, <2>1 DEF Sound, Assumed
  <1>3. Entries(program) \subseteq DOMAIN cache  BY <1>1 DEF Sound, Rooted, Asking
  <1> QED  BY <1>1, <1>2, <1>3 DEF Sound, Typed, Whole, Known, Exits

(* What Flow says of a call, in the decoder's own terms.                   *)
LEMMA AgreeHolds == DecodeInv => CallsAgree
  <1> SUFFICES ASSUME DecodeInv, phase = "built",
                      NEW key \in DOMAIN cache, NEW k \in DOMAIN cache[key].post,
                      program.code[k[1]].op = "call"
               PROVE  LET i == program.code[k[1]]
                          fn == cache[key]
                      IN  /\ fn.post[k] = UNION {CallExits(t, k[2]) : t \in Targets(i)}
                          /\ \A t \in Targets(i) :
                               <<k[1], k[2], t>> \in fn.interp <=> ViaInterp(t, k[2])
    BY DEF CallsAgree
  <1> DEFINE i == program.code[k[1]]
             w == k[2]
             fn == cache[key]
             X == Known(cache, assume)
  <1>1. Flow(program, X, key, fn, k, DOMAIN fn.post \union {})  BY BuiltIs DEF Closed
  <1>2. /\ DOMAIN X = DOMAIN cache
        /\ \A l \in DOMAIN cache : X[l] = cache[l].exits /\ Exits(l) = cache[l].exits
    BY BuiltIs
  <1> HIDE DEF X
  <1>3. \A n \in DOMAIN i.to : w \in program.states[i.to[n]] => <<i.to[n], w>> \in DOMAIN X
    <2>1. \A n \in DOMAIN i.to : w \in program.states[i.to[n]] => n \in Needs(program, key, i, w)
      BY DEF Needs
    <2> QED  BY <1>1, <2>1 DEF Flow
  <1>4. \A n \in DOMAIN i.to :
           /\ ViaInterp(i.to[n], w) <=> Interprets(program, X, i.to[n], w)
           /\ CallExits(i.to[n], w) = OnFrom(program, X, i.to[n], w)
    BY <1>2, <1>3 DEF ViaInterp, Missing, Registered, Interprets, CallExits, OnFrom
  <1>5. /\ fn.post[k] = UNION {OnFrom(program, X, i.to[n], w) : n \in DOMAIN i.to}
        /\ \A n \in DOMAIN i.to :
             <<k[1], w, i.to[n]>> \in fn.interp <=> Interprets(program, X, i.to[n], w)
    BY <1>1 DEF Flow
  <1>6. UNION {CallExits(t, w) : t \in Targets(i)}
          = UNION {OnFrom(program, X, i.to[n], w) : n \in DOMAIN i.to}
    BY <1>4 DEF Targets
  <1>7. \A t \in Targets(i) : \E n \in DOMAIN i.to : t = i.to[n]  BY DEF Targets
  <1> QED  BY <1>4, <1>5, <1>6, <1>7

(* Every step of a build that gives up no fixed point.                     *)
LEMMA DecodeSteps == DecodeInv /\ [Next]_vars /\ [Confirms]_decodeVars => DecodeInv'
  <1>1. UNCHANGED decodeVars => Confirms  BY DEF decodeVars, Confirms
  <1> QED  BY <1>1, DecodeStep

(* Whatever functions call each other, what each was told of its callees   *)
(* is what those were compiled to (Registry.function, _fixpoint), as long  *)
(* as no recursion around another drops the other's fixed point.           *)
THEOREM AgreeTheorem == Spec /\ Confirmed => []CallsAgree
  <1>1. Spec /\ Confirmed => []DecodeInv
    BY InitSound, DecodeSteps, PTL DEF Spec, Confirmed
  <1> QED  BY <1>1, AgreeHolds, PTL

-----------------------------------------------------------------------------
(* The calls of the compiled program.                                      *)

Calls == [key : Keys \union {NoKey}, at : Nat, w : States, pushed : Seq(States),
          via : BOOLEAN, was : Keys \union {NoKey}]

(* The function whose exits a call has: that the interpreter finishes, or  *)
(* that is running.                                                        *)
Owner(f) == IF f.was # NoKey THEN f.was ELSE f.key

(* Native code stands at an instruction compiled for its width, and only   *)
(* what was called through the interpreter is the interpreter's alone.     *)
Placed(C, f) ==
    /\ f.key # NoKey => f.key \in DOMAIN C /\ <<f.at, f.w>> \in DOMAIN C[f.key].post
    /\ f.key = NoKey /\ f.was = NoKey => f.via

(* What native code f is compiled to go on in after its call of g.         *)
Expects(C, f, g) ==
    f.key # NoKey =>
        LET post == C[f.key].post[<<f.at, f.w>>] IN
        IF g.via THEN f.w \in post
        ELSE C[Owner(g)].exits \subseteq post /\ Unknown \notin post

RunSound(p, C, G) ==
    /\ G \in Seq(Calls) /\ G # <<>>
    /\ \A n \in 1 .. Len(G) : Placed(C, G[n])
    /\ \A n \in 1 .. Len(G) - 1 :
         /\ G[n].key # NoKey => p.code[G[n].at].op = "call"
         /\ Expects(C, G[n], G[n + 1])

(* The calls up to some one, and that one changed: it still returns where, *)
(* and in what, its caller expects it to.                                  *)
LEMMA CallReplaced ==
    ASSUME NEW p, NEW C, NEW G, RunSound(p, C, G),
           NEW H \in Seq(Calls), H # <<>>, Len(H) <= Len(G),
           \A n \in 1 .. Len(H) - 1 : H[n] = G[n],
           NEW x, H[Len(H)] = x, Placed(C, x),
           x.via = G[Len(H)].via,
           x.via \/ C[Owner(x)].exits \subseteq C[Owner(G[Len(H)])].exits
    PROVE  RunSound(p, C, H)
  <1> DEFINE L == Len(H)
  <1>1. L \in Nat \ {0} /\ Len(G) \in Nat /\ L \in 1 .. Len(G)
    BY DEF RunSound
  <1> HIDE DEF L
  <1>2. ASSUME NEW n \in 1 .. L  PROVE Placed(C, H[n])
    <2>1. CASE n = L  BY <2>1 DEF L
    <2>2. CASE n # L
      <3>1. n \in 1 .. L - 1 /\ n \in 1 .. Len(G)  BY <2>2, <1>1
      <3> QED  BY <3>1 DEF RunSound, L
    <2> QED  BY <2>1, <2>2
  <1>3. ASSUME NEW n \in 1 .. L - 1
        PROVE  /\ H[n].key # NoKey => p.code[H[n].at].op = "call"
               /\ Expects(C, H[n], H[n + 1])
    <2>1. n \in 1 .. Len(G) - 1 /\ H[n] = G[n]  BY <1>1 DEF L
    <2>2. /\ G[n].key # NoKey => p.code[G[n].at].op = "call"
          /\ Expects(C, G[n], G[n + 1])
      BY <2>1 DEF RunSound
    <2>3. CASE n + 1 = L
      <3>1. H[n + 1] = x /\ x.via = G[n + 1].via
            /\ (x.via \/ C[Owner(x)].exits \subseteq C[Owner(G[n + 1])].exits)
        BY <2>3 DEF L
      <3>2. Expects(C, H[n], H[n + 1])  BY <2>1, <2>2, <3>1 DEF Expects
      <3> QED  BY <2>1, <2>2, <3>2
    <2>4. CASE n + 1 # L
      <3>1. n + 1 \in 1 .. L - 1  BY <2>4, <1>1
      <3>2. H[n + 1] = G[n + 1]  BY <3>1 DEF L
      <3> QED  BY <2>1, <2>2, <3>2
    <2> QED  BY <2>3, <2>4
  <1> QED  BY <1>2, <1>3 DEF RunSound, L

LEMMA CallPushed ==
    ASSUME NEW p, NEW C, NEW G, RunSound(p, C, G), NEW x \in Calls, Placed(C, x),
           Last(G).key # NoKey => p.code[Last(G).at].op = "call",
           Expects(C, Last(G), x)
    PROVE  RunSound(p, C, Append(G, x))
  <1> DEFINE H == Append(G, x)
             L == Len(G)
  <1>1. G \in Seq(Calls) /\ G # <<>>  BY DEF RunSound
  <1>2. /\ H \in Seq(Calls) /\ Len(H) = L + 1 /\ H[L + 1] = x /\ H # <<>>
        /\ \A n \in 1 .. L : H[n] = G[n]
    BY <1>1, Pushed
  <1>3. L \in Nat \ {0} /\ Last(G) = G[L]  BY <1>1, FrontIs
  <1> HIDE DEF H, L
  <1>4. ASSUME NEW n \in 1 .. L + 1  PROVE Placed(C, H[n])
    <2>1. CASE n = L + 1  BY <2>1, <1>2
    <2>2. CASE n # L + 1
      <3>1. n \in 1 .. L  BY <2>2, <1>3
      <3> QED  BY <3>1, <1>2 DEF RunSound, L
    <2> QED  BY <2>1, <2>2
  <1>5. ASSUME NEW n \in 1 .. L
        PROVE  /\ H[n].key # NoKey => p.code[H[n].at].op = "call"
               /\ Expects(C, H[n], H[n + 1])
    <2>1. H[n] = G[n]  BY <1>2
    <2>2. CASE n = L  BY <2>1, <2>2, <1>2, <1>3
    <2>3. CASE n # L
      <3>1. n \in 1 .. L - 1 /\ n + 1 \in 1 .. L  BY <2>3, <1>3
      <3>2. H[n + 1] = G[n + 1]  BY <3>1, <1>2
      <3> QED  BY <2>1, <3>1, <3>2 DEF RunSound, L
    <2> QED  BY <2>2, <2>3
  <1>6. Len(H) - 1 = L  BY <1>2, <1>3
  <1> QED  BY <1>2, <1>4, <1>5, <1>6 DEF RunSound, H

LEMMA LastReplaced ==
    ASSUME NEW p, NEW C, NEW G, RunSound(p, C, G), NEW x \in Calls, Placed(C, x),
           x.via = Last(G).via, x.via \/ C[Owner(x)].exits \subseteq C[Owner(Last(G))].exits
    PROVE  RunSound(p, C, Append(Front(G), x)) /\ Last(Append(Front(G), x)) = x
  <1> DEFINE H == Append(Front(G), x)
  <1>1. G \in Seq(Calls) /\ G # <<>>  BY DEF RunSound
  <1>2. /\ H \in Seq(Calls) /\ Len(H) = Len(G) /\ Last(H) = x /\ H[Len(G)] = x /\ H # <<>>
        /\ \A n \in 1 .. Len(G) - 1 : H[n] = G[n]
    BY <1>1, ReplaceLast
  <1>3. Last(G) = G[Len(G)] /\ Len(G) \in Nat \ {0}  BY <1>1, FrontIs
  <1> HIDE DEF H
  <1>4. Len(H) <= Len(G)  BY <1>2, <1>3
  <1>5. /\ \A n \in 1 .. Len(H) - 1 : H[n] = G[n]
        /\ H[Len(H)] = x /\ x.via = G[Len(H)].via
        /\ x.via \/ C[Owner(x)].exits \subseteq C[Owner(G[Len(H)])].exits
    BY <1>2, <1>3
  <1> QED  BY <1>2, <1>4, <1>5, CallReplaced DEF H

(* The top call runs in the width its code was compiled for.               *)
TopRight(w, G) == Last(G).key # NoKey => Last(G).w \in {w, Unknown}

RunInv ==
    /\ DecodeInv /\ strayed \in BOOLEAN
    /\ \/ strayed
       \/ /\ m \in States /\ stop \notin {"enter", "exits"}
          /\ phase = "run" /\ stop = "no" => RunSound(program, cache, run) /\ TopRight(m, run)

RunsOn == RunInv /\ ~strayed /\ Running

LEMMA NowIs ==
    ASSUME RunsOn
    PROVE  /\ program \in Programs /\ m \in States
           /\ RunSound(program, cache, run) /\ TopRight(m, run)
           /\ Now \in Calls /\ Now = Last(run) /\ Placed(cache, Now)
           /\ Now.at \in Nat /\ Now.w \in States /\ Now.pushed \in Seq(States)
           /\ Now.key \in Keys \union {NoKey} /\ Now.was \in Keys \union {NoKey}
           /\ Entries(program) \subseteq DOMAIN cache /\ DOMAIN cache \subseteq Keys
  <1>1. DecodeInv /\ phase = "run"  BY DEF RunsOn, RunInv, Running
  <1>2. /\ program \in Programs /\ Entries(program) \subseteq DOMAIN cache
        /\ DOMAIN cache \subseteq Keys
    BY <1>1, BuiltIs
  <1>3. RunSound(program, cache, run) /\ TopRight(m, run) /\ m \in States
    BY DEF RunsOn, RunInv, Running
  <1>4. run \in Seq(Calls) /\ run # <<>>  BY <1>3 DEF RunSound
  <1>5. Now = Last(run) /\ Now \in Calls /\ Placed(cache, Now)
    <2>1. Last(run) = run[Len(run)] /\ Last(run) \in Calls /\ Len(run) \in 1 .. Len(run)
      BY <1>4, FrontIs
    <2> QED  BY <1>3, <2>1 DEF Now, RunSound
  <1> QED  BY <1>2, <1>3, <1>5 DEF Calls

(* The instruction native code is at, as it was decoded.                   *)
LEMMA NativeIs ==
    ASSUME RunsOn, Native
    PROVE  LET k == <<Now.at, Now.w>>
               X == Known(cache, assume)
           IN  /\ Now.key \in DOMAIN cache /\ Now.key \in Keys /\ Fn \in Fns
               /\ k \in DOMAIN Fn.post /\ Post = Fn.post[k]
               /\ Flow(program, X, Now.key, Fn, k, DOMAIN Fn.post)
               /\ Now.w \in {m, Unknown} /\ Now.at \in DOMAIN program.code
               /\ Here = program.code[Now.at]
               /\ DOMAIN X = DOMAIN cache
               /\ \A key \in DOMAIN cache : X[key] = cache[key].exits
  <1> DEFINE X == Known(cache, assume)
             k == <<Now.at, Now.w>>
  <1>1. Now.key \in DOMAIN cache /\ k \in DOMAIN Fn.post /\ Now.w \in {m, Unknown}
    BY NowIs DEF Native, Placed, TopRight, Fn
  <1>2. DecodeInv /\ phase = "run"  BY DEF RunsOn, RunInv, Running
  <1>3. /\ Fn \in Fns /\ Closed(program, X, Now.key, Fn, {}) /\ Now.key \in Keys
        /\ DOMAIN X = DOMAIN cache
        /\ \A key \in DOMAIN cache : X[key] = cache[key].exits
    BY <1>1, <1>2, BuiltIs DEF Fn
  <1> HIDE DEF X
  <1>4. Flow(program, X, Now.key, Fn, k, DOMAIN Fn.post)
    <2>1. DOMAIN Fn.post \union {} = DOMAIN Fn.post  OBVIOUS
    <2> QED  BY <1>1, <1>3, <2>1 DEF Closed
  <1>5. Now.at \in DOMAIN program.code
    <2>1. k[1] = Now.at  OBVIOUS
    <2>2. k[1] \in DOMAIN program.code  BY <1>4 DEF Flow
    <2> QED  BY <2>1, <2>2
  <1> QED  BY <1>1, <1>3, <1>4, <1>5 DEF Post, Here, X

LEMMA ChooseOne ==
    ASSUME NEW S, NEW v, S = {v}
    PROVE  (CHOOSE w \in S : TRUE) = v
  <1>1. \E w \in S : TRUE  OBVIOUS
  <1>2. (CHOOSE w \in S : TRUE) \in S  BY <1>1
  <1> QED  BY <1>2

(* Entry keys are never NoKey.                                             *)
LEMMA KeysAreKeys == \A k \in Keys : k # NoKey
  <1> SUFFICES ASSUME NEW k \in Keys, k = NoKey  PROVE FALSE
    OBVIOUS
  <1>1. k = <<k[1], k[2]>>  BY DEF Keys
  <1>2. DOMAIN k = 1 .. 2  BY <1>1
  <1>3. DOMAIN k = {}  BY DEF NoKey
  <1> QED  BY <1>2, <1>3

LEMMA OnwardIs ==
    ASSUME NEW f \in Calls, NEW at \in Nat, NEW v \in States
    PROVE  LET y == Onward(f, at, v) IN
           /\ y \in Calls /\ y.key = f.key /\ y.at = at /\ y.via = f.via /\ y.was = f.was
           /\ f.key # NoKey => y.w = v
  <1> DEFINE w == IF f.key = NoKey THEN Unknown ELSE v
             y == [f EXCEPT !.at = at, !.w = w]
  <1>1. w \in States /\ (f.key # NoKey => w = v)  BY DEF States
  <1>2. Onward(f, at, v) = y  BY DEF Onward
  <1> HIDE DEF w
  <1>3. y \in Calls /\ y.key = f.key /\ y.at = at /\ y.was = f.was /\ y.w = w
    BY <1>1 DEF Calls
  <1>4. y.via = f.via  BY DEF Calls
  <1> HIDE DEF y
  <1> QED  BY <1>1, <1>2, <1>3, <1>4

LEMMA PushedIs ==
    ASSUME NEW y \in Calls, NEW s \in Seq(States)
    PROVE  LET x == [y EXCEPT !.pushed = s] IN
           x \in Calls /\ x.key = y.key /\ x.at = y.at /\ x.via = y.via /\ x.was = y.was
           /\ x.w = y.w
  <1> DEFINE x == [y EXCEPT !.pushed = s]
  <1>1. x \in Calls /\ x.key = y.key /\ x.at = y.at /\ x.was = y.was /\ x.w = y.w  BY DEF Calls
  <1>2. x.via = y.via  BY DEF Calls
  <1> QED  BY <1>1, <1>2

(* What a step that keeps native code in its width leaves behind.          *)
RunStep ==
    /\ m' \in States /\ stop' \notin {"enter", "exits"}
    /\ stop' = "no" => RunSound(program, cache, run') /\ TopRight(m', run')

(* The top call goes on, at an instruction compiled for its width.         *)
LEMMA GoesOn ==
    ASSUME RunsOn, NEW x \in Calls, x.key = Now.key, x.was = Now.was, x.via = Now.via,
           Native => <<x.at, x.w>> \in DOMAIN Fn.post,
           NEW w, Native => x.w \in {w, Unknown}
    PROVE  /\ RunSound(program, cache, Append(Front(run), x))
           /\ TopRight(w, Append(Front(run), x))
  <1>1. Owner(x) = Owner(Now)  BY DEF Owner
  <1>2. Placed(cache, x)  BY NowIs DEF Placed, Native, Fn
  <1>3. RunSound(program, cache, run) /\ Now = Last(run)  BY NowIs
  <1>4. cache[Owner(x)].exits \subseteq cache[Owner(Last(run))].exits  BY <1>1, <1>3
  <1>5. RunSound(program, cache, Append(Front(run), x)) /\ Last(Append(Front(run), x)) = x
    BY <1>2, <1>3, <1>4, LastReplaced
  <1> QED  BY <1>5 DEF TopRight, Native

LEMMA SingleWidth ==
    ASSUME RunsOn, Native, NEW v, Post = {v}
    PROVE  TheWidth = v
  BY ChooseOne DEF TheWidth

LEMMA SetWidthStep == RunsOn /\ SetWidth => RunStep
  <1> SUFFICES ASSUME RunsOn, SetWidth  PROVE RunStep
    OBVIOUS
  <1> DEFINE v == TheWidth
             s == IF Here.op = "php" THEN Append(Now.pushed, m) ELSE Now.pushed
             x == [Onward(Now, Now.at + 1, v) EXCEPT !.pushed = s]
  <1>1. /\ Now \in Calls /\ Now.at \in Nat /\ Now.pushed \in Seq(States) /\ m \in States
        /\ program \in Programs
    BY NowIs
  <1>2. Here.op \in {"set", "use", "php"} /\ Now.at \in DOMAIN program.code
        /\ m' = (IF Here.op = "set" THEN Here.w ELSE m) /\ stop' = stop /\ stop = "no"
    BY DEF SetWidth, Executes, Running
  <1>3. Here.op = "set" => Here.w \in Widths
    BY <1>1, <1>2, DecodeAssumption DEF DecodeAssumption, Here
  <1>4. m' \in States  BY <1>1, <1>2, <1>3 DEF States
  <1>5. s \in Seq(States)  BY <1>1
  <1>6. run' = Append(Front(run), x)
    <2>1. run' = Append(Front(run),
                   [Onward(Now, Now.at + 1, TheWidth) EXCEPT
                      !.pushed = IF Here.op = "php" THEN Append(@, m) ELSE @])
      BY DEF SetWidth, Replace
    <2>2. Onward(Now, Now.at + 1, TheWidth).pushed = Now.pushed
      BY <1>1 DEF Onward, Calls
    <2>3. Onward(Now, Now.at + 1, TheWidth) = [Onward(Now, Now.at + 1, TheWidth) EXCEPT
                                                 !.pushed = Now.pushed]
      BY <1>1 DEF Onward, Calls
    <2> QED  BY <2>1, <2>2
  <1>7. v \in States /\ (Native => v \in {m', Unknown} /\ <<Now.at + 1, v>> \in DOMAIN Fn.post)
    <2>1. CASE ~Native  BY <2>1 DEF TheWidth, States
    <2>2. CASE Native
      <3> DEFINE k == <<Now.at, Now.w>>
      <3>1. /\ Flow(program, Known(cache, assume), Now.key, Fn, k, DOMAIN Fn.post)
            /\ Post = Fn.post[k] /\ Here = program.code[k[1]]
            /\ k[1] = Now.at /\ k[2] = Now.w /\ Now.w \in {m, Unknown}
        BY <2>2, NativeIs
      <3> HIDE DEF k
      <3>2. CASE Here.op = "set"
        <4>1. Post = {Here.w} /\ <<Now.at + 1, Here.w>> \in DOMAIN Fn.post
          BY <3>1, <3>2 DEF Flow
        <4>2. v = Here.w  BY <2>2, <4>1, SingleWidth
        <4> QED  BY <3>2, <4>1, <4>2, <1>2, <1>3 DEF States
      <3>3. CASE Here.op # "set"
        <4>1. Post = {Now.w} /\ <<Now.at + 1, Now.w>> \in DOMAIN Fn.post
          BY <3>1, <3>3, <1>2 DEF Flow
        <4>2. v = Now.w  BY <2>2, <4>1, SingleWidth
        <4> QED  BY <3>1, <3>3, <4>1, <4>2, <1>1, <1>2 DEF States
      <3> QED  BY <3>2, <3>3
    <2> QED  BY <2>1, <2>2
  <1> HIDE DEF v, s
  <1>8. /\ x \in Calls /\ x.key = Now.key /\ x.at = Now.at + 1 /\ x.via = Now.via
        /\ x.was = Now.was /\ (Native => x.w = v)
    <2> DEFINE a == Now.at + 1
               y == Onward(Now, a, v)
    <2>1. a \in Nat  BY <1>1
    <2> HIDE DEF a
    <2>2. /\ y \in Calls /\ y.key = Now.key /\ y.at = a /\ y.via = Now.via /\ y.was = Now.was
          /\ Now.key # NoKey => y.w = v
      BY <1>1, <1>7, <2>1, OnwardIs
    <2>3. x = [y EXCEPT !.pushed = s]  BY DEF a
    <2> HIDE DEF x, y
    <2>4. LET z == [y EXCEPT !.pushed = s] IN
          z \in Calls /\ z.key = y.key /\ z.at = y.at /\ z.via = y.via /\ z.was = y.was
          /\ z.w = y.w
      BY <1>5, <2>2, PushedIs
    <2> QED  BY <2>2, <2>3, <2>4 DEF Native, a
  <1> HIDE DEF x
  <1>9. RunSound(program, cache, run') /\ TopRight(m', run')
    BY <1>6, <1>7, <1>8, GoesOn
  <1> QED  BY <1>2, <1>4, <1>9 DEF RunStep

LEMMA OnwardGoes ==
    ASSUME RunsOn, NEW at \in Nat, NEW v \in States, NEW w,
           Native => <<at, v>> \in DOMAIN Fn.post /\ v \in {w, Unknown}
    PROVE  LET G == Append(Front(run), Onward(Now, at, v)) IN
           RunSound(program, cache, G) /\ TopRight(w, G)
  <1> DEFINE y == Onward(Now, at, v)
  <1>1. Now \in Calls  BY NowIs
  <1>2. /\ y \in Calls /\ y.key = Now.key /\ y.at = at /\ y.via = Now.via /\ y.was = Now.was
        /\ Native => y.w = v
    <2>1. /\ y \in Calls /\ y.key = Now.key /\ y.at = at /\ y.via = Now.via /\ y.was = Now.was
          /\ Now.key # NoKey => y.w = v
      BY <1>1, OnwardIs
    <2> QED  BY <2>1 DEF Native
  <1> HIDE DEF y
  <1> QED  BY <1>2, GoesOn DEF y

LEMMA PlpStep == RunsOn /\ Plp => RunStep
  <1> SUFFICES ASSUME RunsOn, Plp  PROVE RunStep
    OBVIOUS
  <1>1. /\ Now \in Calls /\ Now.at \in Nat /\ Now.pushed \in Seq(States) /\ Now.pushed # <<>>
        /\ Here.op = "plp" /\ Now.at \in DOMAIN program.code /\ m' = Last(Now.pushed) /\ stop = "no"
    BY NowIs DEF Plp, Executes, Running
  <1>2. Front(Now.pushed) \in Seq(States) /\ m' \in States  BY <1>1, FrontIs
  <1>3. CASE Native /\ ~PlpOK(m')
    <2>1. stop' = "plp"  BY <1>3 DEF Plp, Halt
    <2> QED  BY <1>2, <2>1 DEF RunStep
  <1>4. CASE ~(Native /\ ~PlpOK(m'))
    <2> DEFINE a == Now.at + 1
               v == TheWidth
               s == Front(Now.pushed)
               y == Onward(Now, a, v)
               x == [y EXCEPT !.pushed = s]
    <2>1. a \in Nat  BY <1>1
    <2>2. v \in States /\ (Native => v \in {m', Unknown} /\ <<a, v>> \in DOMAIN Fn.post)
      <3>1. CASE ~Native  BY <3>1 DEF TheWidth, States
      <3>2. CASE Native
        <4> DEFINE k == <<Now.at, Now.w>>
        <4>1. /\ Flow(program, Known(cache, assume), Now.key, Fn, k, DOMAIN Fn.post)
              /\ Post = Fn.post[k] /\ Here = program.code[k[1]]
              /\ k[1] = Now.at /\ k[2] = Now.w
          BY <3>2, NativeIs
        <4> HIDE DEF k, a, v
        <4>2. PICK u \in States : Post = {u} /\ <<Now.at + 1, u>> \in DOMAIN Fn.post
          BY <4>1, <1>1 DEF Flow
        <4>3. TheWidth = u  BY <3>2, <4>2, SingleWidth
        <4>4. m' = u  BY <1>4, <3>2, <4>2 DEF PlpOK
        <4> QED  BY <4>2, <4>3, <4>4 DEF a, v
      <3> QED  BY <3>1, <3>2
    <2>3. run' = Append(Front(run), x) /\ stop' = stop
      <3>1. run' = Append(Front(run), [Onward(Now, Now.at + 1, TheWidth) EXCEPT !.pushed = Front(@)])
            /\ stop' = stop
        BY <1>4 DEF Plp, Replace
      <3>2. Onward(Now, Now.at + 1, TheWidth).pushed = Now.pushed  BY <1>1 DEF Onward, Calls
      <3> QED  BY <3>1, <3>2
    <2> HIDE DEF a, v, s
    <2>4. /\ y \in Calls /\ y.key = Now.key /\ y.at = a /\ y.via = Now.via /\ y.was = Now.was
          /\ Now.key # NoKey => y.w = v
      BY <1>1, <2>1, <2>2, OnwardIs
    <2> HIDE DEF y
    <2>5. x \in Calls /\ x.key = y.key /\ x.at = y.at /\ x.via = y.via /\ x.was = y.was
          /\ x.w = y.w
      BY <1>2, <2>4, PushedIs DEF s
    <2> HIDE DEF x
    <2>6. /\ x.key = Now.key /\ x.at = a /\ x.via = Now.via /\ x.was = Now.was
          /\ Native => x.w = v
      BY <2>4, <2>5 DEF Native
    <2>7. RunSound(program, cache, run') /\ TopRight(m', run')
      BY <2>2, <2>3, <2>5, <2>6, GoesOn
    <2> QED  BY <1>1, <1>2, <2>3, <2>7 DEF RunStep
  <1> QED  BY <1>3, <1>4

LEMMA BranchStep == RunsOn /\ Branch => RunStep
  <1> SUFFICES ASSUME RunsOn, Branch  PROVE RunStep
    OBVIOUS
  <1>1. PICK at \in {Here.to[1], Now.at + 1} : run' = Append(Front(run), Onward(Now, at, TheWidth))
    BY DEF Branch, Replace
  <1>2. /\ Now \in Calls /\ Now.at \in Nat /\ m \in States /\ program \in Programs
        /\ Here.op = "br" /\ Now.at \in DOMAIN program.code
        /\ m' = m /\ stop' = stop /\ stop = "no"
    BY NowIs DEF Branch, Executes, Running
  <1>3. at \in Nat
    <2>1. /\ DOMAIN program.code \subseteq Nat
          /\ Here.to \in Seq(DOMAIN program.code) /\ Len(Here.to) = 1
      BY <1>2, DecodeAssumption DEF DecodeAssumption, Here
    <2>2. Here.to[1] \in Nat  BY <2>1
    <2> QED  BY <1>2, <2>2
  <1>4. TheWidth \in States
        /\ (Native => <<at, TheWidth>> \in DOMAIN Fn.post /\ TheWidth \in {m, Unknown})
    <2>1. CASE ~Native  BY <2>1 DEF TheWidth, States
    <2>2. CASE Native
      <3> DEFINE k == <<Now.at, Now.w>>
      <3>1. /\ Flow(program, Known(cache, assume), Now.key, Fn, k, DOMAIN Fn.post)
            /\ Post = Fn.post[k] /\ Here = program.code[k[1]]
            /\ k[1] = Now.at /\ k[2] = Now.w /\ Now.w \in {m, Unknown}
        BY <2>2, NativeIs
      <3> HIDE DEF k
      <3>2. Post = {Now.w} /\ <<Now.at + 1, Now.w>> \in DOMAIN Fn.post
            /\ <<Here.to[1], Now.w>> \in DOMAIN Fn.post
        BY <3>1, <1>2 DEF Flow
      <3>3. TheWidth = Now.w  BY <2>2, <3>2, SingleWidth
      <3> QED  BY <3>1, <3>2, <3>3, <1>1, <1>2 DEF States
    <2> QED  BY <2>1, <2>2
  <1>5. RunSound(program, cache, run') /\ TopRight(m, run')  BY <1>1, <1>3, <1>4, OnwardGoes
  <1> QED  BY <1>2, <1>5 DEF RunStep

LEMMA DispatchStep == RunsOn /\ Dispatch => RunStep
  <1> SUFFICES ASSUME RunsOn, Dispatch  PROVE RunStep
    OBVIOUS
  <1> DEFINE key == <<Now.at, m>>
             x == [Now EXCEPT !.key = key, !.w = m]
  <1>1. /\ Now \in Calls /\ Now.key = NoKey /\ m \in States /\ Placed(cache, Now)
        /\ Registered(Now.at, m) /\ run' = Append(Front(run), x)
        /\ m' = m /\ stop' = stop /\ stop = "no"
        /\ RunSound(program, cache, run) /\ Now = Last(run)
    BY NowIs DEF Dispatch, Native, Running, Replace
  <1>2. key \in DOMAIN cache /\ key \in Keys
    <2>1. program \in Programs /\ Entries(program) \subseteq DOMAIN cache /\ DOMAIN cache \subseteq Keys
      BY NowIs
    <2>2. Now.at \in DOMAIN program.code  BY DEF Dispatch
    <2> QED  BY <1>1, <2>1, <2>2, EntriesAreKeys DEF Registered
  <1>3. key \in DOMAIN cache[key].post
    <2>1. DecodeInv /\ phase = "run"  BY DEF RunsOn, RunInv, Running
    <2>2. Closed(program, Known(cache, assume), key, cache[key], {})  BY <1>2, <2>1, BuiltIs
    <2> QED  BY <2>2 DEF Closed
  <1>4. /\ x \in Calls /\ x.key = key /\ x.at = Now.at /\ x.w = m /\ x.was = Now.was
    <2> HIDE DEF key
    <2> QED  BY <1>1, <1>2 DEF Calls
  <1>5. x.via = Now.via  BY <1>1 DEF Calls
  <1>6. Placed(cache, x)
    <2>1. x.key # NoKey  BY <1>2, <1>4, KeysAreKeys
    <2>2. <<x.at, x.w>> = key  BY <1>4
    <2> QED  BY <2>1, <2>2, <1>2, <1>3, <1>4 DEF Placed
  <1> HIDE DEF x
  <1>7. x.via \/ cache[Owner(x)].exits \subseteq cache[Owner(Last(run))].exits
    BY <1>1, <1>4, <1>5 DEF Placed, Owner
  <1>8. RunSound(program, cache, run') /\ Last(run') = x
    BY <1>1, <1>4, <1>5, <1>6, <1>7, LastReplaced
  <1> QED  BY <1>1, <1>4, <1>8 DEF RunStep, TopRight

LEMMA RestIs ==
    ASSUME NEW f \in Calls, f.key # NoKey, NEW at \in Nat
    PROVE  LET x == Rest(f, at) IN
           /\ x \in Calls /\ x.key = NoKey /\ x.via = f.via /\ x.was # NoKey
           /\ Owner(x) = Owner(f)
  <1> DEFINE o == IF f.was = NoKey THEN f.key ELSE f.was
             x == [f EXCEPT !.key = NoKey, !.at = at, !.w = Unknown, !.was = o]
  <1>1. o \in Keys \union {NoKey} /\ o # NoKey /\ o = Owner(f)  BY DEF Calls, Owner
  <1>2. Rest(f, at) = x  BY DEF Rest
  <1> HIDE DEF o
  <1>3. x \in Calls /\ x.key = NoKey /\ x.was = o  BY <1>1 DEF Calls, States
  <1>4. x.via = f.via  BY DEF Calls
  <1> HIDE DEF x
  <1> QED  BY <1>1, <1>2, <1>3, <1>4 DEF Owner

(* A registered entry's function, for a width it is compiled for.          *)
LEMMA EntryIs ==
    ASSUME RunsOn, NEW t \in DOMAIN program.code, NEW w \in program.states[t]
    PROVE  /\ <<t, w>> \in DOMAIN cache /\ <<t, w>> \in Keys /\ w \in Widths /\ t \in Nat
           /\ <<t, w>> \in DOMAIN cache[<<t, w>>].post
  <1>1. program \in Programs /\ Entries(program) \subseteq DOMAIN cache  BY NowIs
  <1>2. <<t, w>> \in DOMAIN cache /\ <<t, w>> \in Keys /\ w \in Widths
    BY <1>1, EntriesAreKeys
  <1>3. DecodeInv /\ phase = "run"  BY DEF RunsOn, RunInv, Running
  <1>4. Closed(program, Known(cache, assume), <<t, w>>, cache[<<t, w>>], {})
    BY <1>2, <1>3, BuiltIs
  <1>5. t \in Nat  BY <1>1, DecodeAssumption DEF DecodeAssumption
  <1> QED  BY <1>2, <1>4, <1>5 DEF Closed

LEMMA TailStep ==
    ASSUME RunsOn, Native, NEW t \in DOMAIN program.code, Now.w \in program.states[t],
           cache[<<t, Now.w>>].exits \subseteq Fn.exits,
           TailTo(t), UNCHANGED m
    PROVE  RunStep
  <1> DEFINE key == <<t, Now.w>>
             x == [Now EXCEPT !.key = key, !.at = t]
  <1>1. /\ Now \in Calls /\ RunSound(program, cache, run) /\ Now = Last(run) /\ m \in States
        /\ Now.key # NoKey /\ stop = "no"
    BY NowIs DEF Native, RunsOn, Running
  <1>2. /\ key \in DOMAIN cache /\ key \in Keys /\ Now.w \in Widths /\ t \in Nat
        /\ key \in DOMAIN cache[key].post
    BY EntryIs
  <1>3. Now.w = m
    <2>1. Now.w \in {m, Unknown}  BY NativeIs
    <2> QED  BY <1>2, <2>1 DEF Widths, Unknown
  <1>4. run' = Append(Front(run), x) /\ stop' = stop
    BY <1>3 DEF TailTo, EntryOK, Replace
  <1>5. /\ x \in Calls /\ x.key = key /\ x.at = t /\ x.w = Now.w /\ x.was = Now.was
    <2> HIDE DEF key
    <2> QED  BY <1>1, <1>2 DEF Calls
  <1>6. x.via = Now.via  BY <1>1 DEF Calls
  <1>7. Placed(cache, x)
    <2>1. x.key # NoKey  BY <1>2, <1>5, KeysAreKeys
    <2>2. <<x.at, x.w>> = key  BY <1>5
    <2> QED  BY <2>1, <2>2, <1>2, <1>5 DEF Placed
  <1> HIDE DEF x
  <1>8. cache[Owner(x)].exits \subseteq cache[Owner(Now)].exits
    BY <1>1, <1>5 DEF Owner, Fn
  <1>9. RunSound(program, cache, run') /\ Last(run') = x
    BY <1>1, <1>4, <1>5, <1>6, <1>7, <1>8, LastReplaced
  <1>10. x.w = m  BY <1>3, <1>5
  <1> QED  BY <1>1, <1>4, <1>9, <1>10 DEF RunStep, TopRight

LEMMA RestStep ==
    ASSUME RunsOn, Native, NEW t \in Nat, run' = Append(Front(run), Rest(Now, t)),
           stop' = stop, m' = m
    PROVE  RunStep
  <1> DEFINE x == Rest(Now, t)
  <1>1. /\ Now \in Calls /\ RunSound(program, cache, run) /\ Now = Last(run) /\ m \in States
        /\ Now.key # NoKey /\ stop = "no"
    BY NowIs DEF Native, RunsOn, Running
  <1>2. x \in Calls /\ x.key = NoKey /\ x.via = Now.via /\ x.was # NoKey /\ Owner(x) = Owner(Now)
    BY <1>1, RestIs
  <1> HIDE DEF x
  <1>3. Placed(cache, x)  BY <1>2 DEF Placed
  <1>4. RunSound(program, cache, Append(Front(run), x)) /\ Last(Append(Front(run), x)) = x
    BY <1>1, <1>2, <1>3, LastReplaced
  <1> QED  BY <1>1, <1>2, <1>4 DEF RunStep, TopRight, x

LEMMA JumpStep == RunsOn /\ Jump => RunStep
  <1> SUFFICES ASSUME RunsOn, Jump  PROVE RunStep
    OBVIOUS
  <1>1. /\ Now \in Calls /\ Now.at \in Nat /\ m \in States /\ program \in Programs
        /\ Here.op \in {"jmp", "jml"} /\ Now.at \in DOMAIN program.code
        /\ m' = m /\ stop = "no"
    BY NowIs DEF Jump, Executes, Running
  <1>2. /\ DOMAIN program.code \subseteq Nat /\ Here.to \in Seq(DOMAIN program.code)
        /\ Here.op = "jmp" => Len(Here.to) = 1
    BY <1>1, DecodeAssumption DEF DecodeAssumption, Here
  <1>3. PICK t \in Targets(Here) :
           IF ~Native THEN Replace(Onward(Now, t, Unknown)) /\ UNCHANGED stop
           ELSE IF <<Now.at, Now.w, t>> \in Fn.interp THEN Replace(Rest(Now, t)) /\ UNCHANGED stop
           ELSE IF Post # {} THEN Replace(Onward(Now, t, TheWidth)) /\ UNCHANGED stop
           ELSE TailTo(t)
    BY DEF Jump
  <1>4. PICK n \in DOMAIN Here.to : t = Here.to[n]  BY DEF Targets
  <1>5. t \in DOMAIN program.code /\ t \in Nat  BY <1>2, <1>4
  <1>6. CASE ~Native
    <2>1. run' = Append(Front(run), Onward(Now, t, Unknown)) /\ stop' = stop
      BY <1>3, <1>6 DEF Replace
    <2>2. RunSound(program, cache, run') /\ TopRight(m, run')
      BY <2>1, <1>5, <1>6, OnwardGoes DEF States
    <2> QED  BY <2>1, <2>2, <1>1 DEF RunStep
  <1>7. CASE Native /\ <<Now.at, Now.w, t>> \in Fn.interp
    BY <1>1, <1>3, <1>5, <1>7, RestStep DEF Replace
  <1>8. CASE Native /\ <<Now.at, Now.w, t>> \notin Fn.interp
    <2> DEFINE k == <<Now.at, Now.w>>
               X == Known(cache, assume)
               w == Now.w
    <2>1. /\ Flow(program, X, Now.key, Fn, k, DOMAIN Fn.post)
          /\ Post = Fn.post[k] /\ Here = program.code[k[1]]
          /\ k[1] = Now.at /\ k[2] = w /\ w \in {m, Unknown} /\ w \in States
          /\ \A key \in DOMAIN cache : X[key] = cache[key].exits
      BY <1>1, <1>8, NativeIs, NowIs
    <2> HIDE DEF k, X, w
    <2>2. CASE Post # {}
      <3>1. Here.op = "jmp"  BY <2>1, <2>2, <1>1 DEF Flow
      <3>2. n = 1  BY <3>1, <1>2, <1>4
      <3>3. Post = {w} /\ <<t, w>> \in DOMAIN Fn.post
        BY <2>1, <2>2, <3>1, <3>2, <1>4 DEF Flow
      <3>4. TheWidth = w  BY <1>8, <3>3, SingleWidth
      <3>5. run' = Append(Front(run), Onward(Now, t, w)) /\ stop' = stop
        BY <1>3, <1>8, <2>2, <3>4 DEF Replace
      <3>6. RunSound(program, cache, run') /\ TopRight(m, run')
        BY <2>1, <3>3, <3>5, <1>5, OnwardGoes
      <3> QED  BY <3>5, <3>6, <1>1 DEF RunStep
    <2>3. CASE Post = {}
      <3>1. w \in program.states[t] /\ X[<<t, w>>] \subseteq Fn.exits
        <4>1. CASE Here.op = "jmp"
          <5>1. n = 1  BY <4>1, <1>2, <1>4
          <5>2. Leads(program, Now.key, t, w) /\ X[<<t, w>>] \subseteq Fn.exits
            BY <2>1, <2>3, <4>1, <5>1, <1>4 DEF Flow
          <5> QED  BY <5>2 DEF Leads
        <4>2. CASE Here.op = "jml"
          <5>1. <<Now.at, w, t>> \notin Fn.interp  BY <1>8 DEF w
          <5> QED  BY <2>1, <4>2, <5>1, <1>4 DEF Flow
        <4> QED  BY <4>1, <4>2, <1>1
      <3>2. <<t, w>> \in DOMAIN cache  BY <3>1, <1>5, EntryIs
      <3>3. cache[<<t, w>>].exits \subseteq Fn.exits  BY <2>1, <3>1, <3>2
      <3>4. TailTo(t)  BY <1>3, <1>8, <2>3
      <3> QED  BY <3>1, <3>3, <3>4, <1>1, <1>5, <1>8, TailStep DEF w
    <2> QED  BY <2>2, <2>3
  <1> QED  BY <1>6, <1>7, <1>8

(* A call as it is made.                                                   *)
LEMMA FrameIs ==
    ASSUME NEW key \in Keys \union {NoKey}, NEW at \in Nat, NEW w \in States
    PROVE  Frame(key, at, w, TRUE) \in Calls /\ Frame(key, at, w, FALSE) \in Calls
  <1> DEFINE e == <<>>
  <1>1. e \in Seq(States)  OBVIOUS
  <1> HIDE DEF e
  <1>2. [key |-> key, at |-> at, w |-> w, pushed |-> e, via |-> TRUE, was |-> NoKey] \in Calls
    BY <1>1 DEF Calls
  <1>3. [key |-> key, at |-> at, w |-> w, pushed |-> e, via |-> FALSE, was |-> NoKey] \in Calls
    BY <1>1 DEF Calls
  <1> QED  BY <1>2, <1>3 DEF Frame, e

LEMMA CallStep == RunsOn /\ Call => RunStep
  <1> SUFFICES ASSUME RunsOn, Call  PROVE RunStep
    OBVIOUS
  <1>1. /\ Now \in Calls /\ Now.at \in Nat /\ m \in States /\ program \in Programs
        /\ Here.op = "call" /\ Now.at \in DOMAIN program.code
        /\ m' = m /\ stop = "no" /\ RunSound(program, cache, run) /\ Now = Last(run)
        /\ Here = program.code[Now.at]
    BY NowIs DEF Call, Executes, Running, Here
  <1>2. DOMAIN program.code \subseteq Nat /\ Here.to \in Seq(DOMAIN program.code)
    BY <1>1, DecodeAssumption DEF DecodeAssumption
  <1>3. PICK t \in Targets(Here) :
         IF ~Native \/ <<Now.at, Now.w, t>> \in Fn.interp
         THEN run' = Append(run, Frame(NoKey, t, Unknown, TRUE)) /\ UNCHANGED stop
         ELSE IF EntryOK(Now.w)
         THEN run' = Append(run, Frame(<<t, Now.w>>, t, Now.w, FALSE)) /\ UNCHANGED stop
         ELSE Halt("enter")
    BY DEF Call
  <1>4. PICK n \in DOMAIN Here.to : t = Here.to[n]  BY DEF Targets
  <1>5. t \in DOMAIN program.code /\ t \in Nat  BY <1>2, <1>4
  <1> DEFINE X == Known(cache, assume)
             w == Now.w
  <1>6. Native =>
           /\ \A v \in Post : <<Now.at + 1, v>> \in DOMAIN Fn.post
           /\ Post = UNION {OnFrom(program, X, Here.to[l], w) : l \in DOMAIN Here.to}
           /\ <<Now.at, w, t>> \in Fn.interp <=> Interprets(program, X, t, w)
           /\ \A l \in Needs(program, Now.key, Here, w) : <<Here.to[l], w>> \in DOMAIN cache
           /\ \A key \in DOMAIN cache : X[key] = cache[key].exits
           /\ Now.w \in {m, Unknown}
           /\ Post = cache[Now.key].post[<<Now.at, Now.w>>]
    <2> SUFFICES ASSUME Native
                 PROVE
           /\ \A v \in Post : <<Now.at + 1, v>> \in DOMAIN Fn.post
           /\ Post = UNION {OnFrom(program, X, Here.to[l], w) : l \in DOMAIN Here.to}
           /\ <<Now.at, w, t>> \in Fn.interp <=> Interprets(program, X, t, w)
           /\ \A l \in Needs(program, Now.key, Here, w) : <<Here.to[l], w>> \in DOMAIN cache
           /\ \A key \in DOMAIN cache : X[key] = cache[key].exits
           /\ Now.w \in {m, Unknown}
           /\ Post = cache[Now.key].post[<<Now.at, Now.w>>]
      OBVIOUS
    <2> DEFINE k == <<Now.at, Now.w>>
    <2>1. /\ Flow(program, X, Now.key, Fn, k, DOMAIN Fn.post)
          /\ Post = Fn.post[k] /\ Here = program.code[k[1]]
          /\ k[1] = Now.at /\ k[2] = w /\ Now.w \in {m, Unknown}
          /\ DOMAIN X = DOMAIN cache
          /\ \A key \in DOMAIN cache : X[key] = cache[key].exits
      BY NativeIs
    <2>2. Post = cache[Now.key].post[<<Now.at, Now.w>>]  BY <2>1 DEF Fn
    <2>3. program.code[k[1]].op = "call" /\ t = Here.to[n]  BY <1>1, <1>4, <2>1
    <2> HIDE DEF k, X, w
    <2>4. LET i == program.code[k[1]] IN
          /\ \A v \in Fn.post[k] : <<k[1] + 1, v>> \in DOMAIN Fn.post
          /\ Fn.post[k] = UNION {OnFrom(program, X, i.to[l], k[2]) : l \in DOMAIN i.to}
          /\ \A l \in DOMAIN i.to :
               <<k[1], k[2], i.to[l]>> \in Fn.interp <=> Interprets(program, X, i.to[l], k[2])
          /\ \A l \in Needs(program, Now.key, i, k[2]) : <<i.to[l], k[2]>> \in DOMAIN X
      <3> DEFINE D == DOMAIN Fn.post
                 fn == Fn
                 own == Now.key
      <3>1. Flow(program, X, own, fn, k, D) /\ program.code[k[1]].op = "call"  BY <2>1, <2>3
      <3> HIDE DEF D, fn, own
      <3>2. LET i == program.code[k[1]] IN
            /\ \A v \in fn.post[k] : <<k[1] + 1, v>> \in D
            /\ fn.post[k] = UNION {OnFrom(program, X, i.to[l], k[2]) : l \in DOMAIN i.to}
            /\ \A l \in DOMAIN i.to :
                 <<k[1], k[2], i.to[l]>> \in fn.interp <=> Interprets(program, X, i.to[l], k[2])
            /\ \A l \in Needs(program, own, i, k[2]) : <<i.to[l], k[2]>> \in DOMAIN X
        BY <3>1 DEF Flow
      <3> QED  BY <3>2 DEF D, fn, own
    <2>5. <<Now.at, w, t>> \in Fn.interp <=> Interprets(program, X, t, w)
      BY <2>1, <2>3, <2>4, <1>4
    <2>6. Post = UNION {OnFrom(program, X, Here.to[l], w) : l \in DOMAIN Here.to}
      BY <2>1, <2>4
    <2>7. \A v \in Post : <<Now.at + 1, v>> \in DOMAIN Fn.post
      BY <2>1, <2>4
    <2>8. \A l \in Needs(program, Now.key, Here, w) : <<Here.to[l], w>> \in DOMAIN cache
      BY <2>1, <2>4
    <2> QED  BY <2>1, <2>2, <2>5, <2>6, <2>7, <2>8
  <1> HIDE DEF X
  <1>7. Last(run).key # NoKey => program.code[Last(run).at].op = "call"  BY <1>1
  <1>8. CASE ~Native \/ <<Now.at, Now.w, t>> \in Fn.interp
    <2> DEFINE x == Frame(NoKey, t, Unknown, TRUE)
    <2>1. x \in Calls /\ x.key = NoKey /\ x.was = NoKey /\ x.via
      <3>1. NoKey \in Keys \union {NoKey} /\ t \in Nat /\ Unknown \in States  BY <1>5 DEF States
      <3>2. x \in Calls  BY <3>1, FrameIs
      <3> QED  BY <3>2 DEF Frame
    <2>2. run' = Append(run, x) /\ stop' = stop  BY <1>3, <1>8
    <2> HIDE DEF x
    <2>3. Placed(cache, x)  BY <2>1 DEF Placed
    <2>4. Expects(cache, Now, x)
      <3>1. CASE Now.key = NoKey  BY <3>1 DEF Expects
      <3>2. CASE Now.key # NoKey
        <4>1. Native  BY <3>2 DEF Native
        <4>2. OnFrom(program, X, Here.to[n], w) = {w}  BY <1>4, <1>6, <1>8, <4>1 DEF OnFrom
        <4>3. w \in Post  BY <1>6, <4>1, <4>2
        <4> QED  BY <1>6, <2>1, <4>1, <4>3 DEF Expects
      <3> QED  BY <3>1, <3>2
    <2>5. RunSound(program, cache, run')  BY <1>1, <1>7, <2>1, <2>2, <2>3, <2>4, CallPushed
    <2>6. run \in Seq(Calls)  BY <1>1 DEF RunSound
    <2>7. Last(run') = x  BY <2>1, <2>2, <2>6, Pushed
    <2> QED  BY <1>1, <2>1, <2>2, <2>5, <2>7 DEF RunStep, TopRight
  <1>9. CASE Native /\ <<Now.at, Now.w, t>> \notin Fn.interp
    <2> DEFINE key == <<t, w>>
               x == Frame(key, t, w, FALSE)
    <2>1. w \in program.states[t] /\ Unknown \notin X[key]
      BY <1>6, <1>9 DEF Interprets
    <2>2. /\ key \in DOMAIN cache /\ key \in Keys /\ w \in Widths
          /\ key \in DOMAIN cache[key].post
      BY <1>5, <2>1, EntryIs
    <2>3. w = m  BY <1>6, <1>9, <2>2 DEF Widths, Unknown
    <2>4. run' = Append(run, x) /\ stop' = stop  BY <1>3, <1>9, <2>3 DEF EntryOK
    <2>5. x \in Calls /\ x.key = key /\ x.at = t /\ x.w = w /\ x.was = NoKey /\ ~x.via
      <3> HIDE DEF key
      <3>1. w \in States /\ t \in Nat /\ key \in Keys \union {NoKey}  BY <1>5, <2>2 DEF States
      <3>2. x \in Calls  BY <3>1, FrameIs
      <3> QED  BY <3>2 DEF Frame
    <2> HIDE DEF x
    <2>6. Placed(cache, x)
      <3>1. x.key # NoKey  BY <2>2, <2>5, KeysAreKeys
      <3>2. <<x.at, x.w>> = key  BY <2>5
      <3> QED  BY <3>1, <3>2, <2>2, <2>5 DEF Placed
    <2>7. cache[Owner(x)].exits = X[key]  BY <1>6, <1>9, <2>2, <2>5 DEF Owner
    <2>8. ~Interprets(program, X, t, w)  BY <1>6, <1>9
    <2>9. X[key] \subseteq Post
      <3>1. OnFrom(program, X, Here.to[n], w) = X[key]  BY <1>4, <2>8 DEF OnFrom
      <3> QED  BY <1>6, <1>9, <3>1
    <2>10. Unknown \notin Post
      <3>1. ASSUME NEW l \in DOMAIN Here.to  PROVE Unknown \notin OnFrom(program, X, Here.to[l], w)
        <4>1. Unknown # w  BY <2>2 DEF Widths, Unknown
        <4> QED  BY <4>1 DEF OnFrom, Interprets
      <3> QED  BY <1>6, <1>9, <3>1
    <2>11. Expects(cache, Now, x)
      BY <1>6, <1>9, <2>5, <2>7, <2>9, <2>10 DEF Expects
    <2>12. RunSound(program, cache, run')  BY <1>1, <1>7, <2>4, <2>5, <2>6, <2>11, CallPushed
    <2>13. run \in Seq(Calls)  BY <1>1 DEF RunSound
    <2>14. Last(run') = x  BY <2>4, <2>5, <2>13, Pushed
    <2> QED  BY <1>1, <2>3, <2>4, <2>5, <2>12, <2>14 DEF RunStep, TopRight
  <1> QED  BY <1>8, <1>9

(* The last call gone, and its caller changed.                             *)
LEMMA CallerReplaced ==
    ASSUME NEW p, NEW C, NEW G, RunSound(p, C, G), Len(G) # 1,
           NEW x \in Calls, Placed(C, x), x.via = G[Len(G) - 1].via,
           x.via \/ C[Owner(x)].exits \subseteq C[Owner(G[Len(G) - 1])].exits
    PROVE  LET H == Append(SubSeq(G, 1, Len(G) - 2), x) IN
           RunSound(p, C, H) /\ Last(H) = x
  <1> DEFINE e == Len(G) - 2
             s == SubSeq(G, 1, e)
             H == Append(s, x)
  <1>1. G \in Seq(Calls) /\ G # <<>> /\ Len(G) \in Nat /\ Len(G) # 0  BY DEF RunSound
  <1>2. e \in Int /\ 0 <= e /\ e <= Len(G) /\ e + 1 = Len(G) - 1 /\ e + 1 <= Len(G) /\ e \in Nat
    <2> DEFINE l == Len(G)
    <2>1. l \in Nat /\ l # 0 /\ l # 1 /\ e = l - 2  BY <1>1
    <2> HIDE DEF l, e
    <2>2. e \in Int /\ 0 <= e /\ e <= l /\ e + 1 = l - 1 /\ e + 1 <= l /\ e \in Nat  BY <2>1
    <2> QED  BY <2>2 DEF l
  <1> HIDE DEF e
  <1>3. s \in Seq(Calls) /\ Len(s) = e /\ \A n \in 1 .. e : s[n] = G[n]
    BY <1>1, <1>2, Seqs!SubSeqProperties
  <1> HIDE DEF s
  <1>4. /\ H \in Seq(Calls) /\ Len(H) = e + 1 /\ Last(H) = x /\ H[e + 1] = x /\ H # <<>>
        /\ \A n \in 1 .. e : H[n] = s[n]
    BY <1>3, Pushed
  <1> HIDE DEF H
  <1>5. Len(H) <= Len(G) /\ Len(H) - 1 = e /\ G[Len(H)] = G[Len(G) - 1]  BY <1>2, <1>4
  <1>6. \A n \in 1 .. Len(H) - 1 : H[n] = G[n]  BY <1>3, <1>4, <1>5
  <1>7. H[Len(H)] = x  BY <1>4
  <1>8. x.via = G[Len(H)].via /\ (x.via \/ C[Owner(x)].exits \subseteq C[Owner(G[Len(H)])].exits)
    BY <1>5
  <1>9. RunSound(p, C, H)  BY <1>4, <1>5, <1>6, <1>7, <1>8, CallReplaced
  <1> QED  BY <1>4, <1>9 DEF H, s, e

(* The caller that goes on after a return.                                 *)
LEMMA CallerIs ==
    ASSUME RunsOn, Len(run) # 1
    PROVE  LET c == run[Len(run) - 1] IN
           /\ c \in Calls /\ Placed(cache, c) /\ c.at \in Nat /\ c.w \in States
           /\ Expects(cache, c, Now)
           /\ c.key # NoKey =>
                LET after == cache[c.key].post[<<c.at, c.w>>] IN
                /\ after \subseteq States
                /\ \A v \in after : <<c.at + 1, v>> \in DOMAIN cache[c.key].post
  <1> DEFINE N == Len(run) - 1
             c == run[N]
  <1>1. RunSound(program, cache, run) /\ Now = Last(run)  BY NowIs
  <1>2. run \in Seq(Calls) /\ run # <<>> /\ Len(run) \in Nat /\ Len(run) # 0
        /\ Last(run) = run[Len(run)]
    BY <1>1, FrontIs DEF RunSound
  <1>3. N \in 1 .. Len(run) - 1 /\ N \in 1 .. Len(run) /\ run[N + 1] = Now
    <2> DEFINE l == Len(run)
    <2>1. l \in Nat /\ l # 0 /\ l # 1 /\ N = l - 1  BY <1>2
    <2> HIDE DEF l, N
    <2>2. N \in 1 .. l - 1 /\ N \in 1 .. l /\ N + 1 = l  BY <2>1
    <2> QED  BY <1>1, <1>2, <2>2 DEF l
  <1> HIDE DEF N
  <1>4. c \in Calls /\ Placed(cache, c) /\ Expects(cache, c, Now)
        /\ (c.key # NoKey => program.code[c.at].op = "call")
    BY <1>1, <1>2, <1>3 DEF RunSound
  <1> HIDE DEF c
  <1>5. c.at \in Nat /\ c.w \in States  BY <1>4 DEF Calls
  <1>6. ASSUME c.key # NoKey
        PROVE  LET after == cache[c.key].post[<<c.at, c.w>>] IN
               /\ after \subseteq States
               /\ \A v \in after : <<c.at + 1, v>> \in DOMAIN cache[c.key].post
    <2> DEFINE fn == cache[c.key]
               k == <<c.at, c.w>>
               X == Known(cache, assume)
    <2>1. c.key \in DOMAIN cache /\ k \in DOMAIN fn.post  BY <1>4, <1>6 DEF Placed
    <2>2. DecodeInv /\ phase = "run"  BY DEF RunsOn, RunInv, Running
    <2>3. fn \in Fns /\ Closed(program, X, c.key, fn, {})  BY <2>1, <2>2, BuiltIs
    <2> HIDE DEF X, fn
    <2>4. Flow(program, X, c.key, fn, k, DOMAIN fn.post)
      <3>1. DOMAIN fn.post \union {} = DOMAIN fn.post  OBVIOUS
      <3> QED  BY <2>1, <2>3, <3>1 DEF Closed
    <2>5. k[1] = c.at /\ k[2] = c.w  OBVIOUS
    <2> HIDE DEF k
    <2>6. \A v \in fn.post[k] : <<c.at + 1, v>> \in DOMAIN fn.post
      BY <1>4, <1>6, <2>4, <2>5 DEF Flow
    <2>7. fn.post[k] \subseteq States
      <3>1. fn.post \in Tables  BY <2>3 DEF Fns
      <3>2. PICK D \in SUBSET Places : fn.post \in [D -> SUBSET States]  BY <3>1 DEF Tables
      <3> QED  BY <2>1, <3>2
    <2> QED  BY <2>6, <2>7 DEF fn, k
  <1> QED  BY <1>4, <1>5, <1>6 DEF c, N

(* It goes on in the width the CPU has, or in one that it does not need.   *)
LEMMA Resumed ==
    ASSUME RunsOn, Len(run) # 1, NEW v \in States,
           run[Len(run) - 1].key # NoKey =>
             /\ v \in {m, Unknown}
             /\ v \in cache[run[Len(run) - 1].key].post[<<run[Len(run) - 1].at,
                                                          run[Len(run) - 1].w>>],
           run' = Append(SubSeq(run, 1, Len(run) - 2),
                         Onward(run[Len(run) - 1], run[Len(run) - 1].at + 1, v)),
           stop' = stop, m' = m
    PROVE  RunStep
  <1> DEFINE c == run[Len(run) - 1]
             a == c.at + 1
             x == Onward(c, a, v)
  <1>1. /\ c \in Calls /\ Placed(cache, c) /\ c.at \in Nat
        /\ c.key # NoKey => <<a, v>> \in DOMAIN cache[c.key].post
    BY CallerIs
  <1>2. RunSound(program, cache, run) /\ m \in States /\ stop = "no"
    BY NowIs DEF RunsOn, Running
  <1>3. a \in Nat  BY <1>1
  <1>4. /\ x \in Calls /\ x.key = c.key /\ x.at = a /\ x.via = c.via /\ x.was = c.was
        /\ c.key # NoKey => x.w = v
    <2> HIDE DEF a, c
    <2> QED  BY <1>1, <1>3, OnwardIs
  <1>5. c.key # NoKey => v \in {m, Unknown}  OBVIOUS
  <1>6. run' = Append(SubSeq(run, 1, Len(run) - 2), x)  OBVIOUS
  <1> HIDE DEF x, a
  <1>7. Placed(cache, x)  BY <1>1, <1>4 DEF Placed
  <1>8. x.via = c.via /\ Owner(x) = Owner(c)  BY <1>4 DEF Owner
  <1>9. RunSound(program, cache, Append(SubSeq(run, 1, Len(run) - 2), x))
        /\ Last(Append(SubSeq(run, 1, Len(run) - 2), x)) = x
    BY <1>2, <1>4, <1>7, <1>8, CallerReplaced
  <1>10. TopRight(m, run')  BY <1>4, <1>5, <1>6, <1>9 DEF TopRight
  <1> QED  BY <1>2, <1>6, <1>9, <1>10 DEF RunStep

(* Or the interpreter goes on with it.                                     *)
LEMMA ResumedRest ==
    ASSUME RunsOn, Len(run) # 1, run[Len(run) - 1].key # NoKey,
           run' = Append(SubSeq(run, 1, Len(run) - 2),
                         Rest(run[Len(run) - 1], run[Len(run) - 1].at + 1)),
           stop' = stop, m' = m
    PROVE  RunStep
  <1> DEFINE c == run[Len(run) - 1]
             x == Rest(c, c.at + 1)
  <1>1. c \in Calls /\ c.at \in Nat  BY CallerIs
  <1>2. RunSound(program, cache, run) /\ m \in States /\ stop = "no"
    BY NowIs DEF RunsOn, Running
  <1>3. x \in Calls /\ x.key = NoKey /\ x.via = c.via /\ x.was # NoKey /\ Owner(x) = Owner(c)
    <2>1. c.at + 1 \in Nat  BY <1>1
    <2>2. c.key # NoKey  OBVIOUS
    <2> HIDE DEF c
    <2> QED  BY <1>1, <2>1, <2>2, RestIs
  <1>4. run' = Append(SubSeq(run, 1, Len(run) - 2), x)  OBVIOUS
  <1> HIDE DEF x
  <1>5. Placed(cache, x)  BY <1>3 DEF Placed
  <1>6. RunSound(program, cache, Append(SubSeq(run, 1, Len(run) - 2), x))
        /\ Last(Append(SubSeq(run, 1, Len(run) - 2), x)) = x
    BY <1>2, <1>3, <1>5, CallerReplaced
  <1>7. TopRight(m, run')  BY <1>3, <1>4, <1>6 DEF TopRight
  <1> QED  BY <1>2, <1>4, <1>6, <1>7 DEF RunStep

(* A native caller of a native function that has not strayed: the width of *)
(* the return is one it was compiled for.                                  *)
LEMMA ReturnsIn ==
    ASSUME RunsOn, Return, ~Strays(Now), ~Now.via,
           NEW P, cache[Owner(Now)].exits \subseteq P, Unknown \notin P
    PROVE  m \in P
  <1>1. Here.op = "ret" /\ Placed(cache, Now)  BY NowIs DEF Return, Executes
  <1>2. CASE Now.was # NoKey  BY <1>2 DEF Strays, Owner
  <1>3. CASE Now.was = NoKey
    <2>1. Native  BY <1>1, <1>3 DEF Placed, Native
    <2> DEFINE k == <<Now.at, Now.w>>
    <2>2. /\ Flow(program, Known(cache, assume), Now.key, Fn, k, DOMAIN Fn.post)
          /\ Here = program.code[k[1]] /\ k[2] = Now.w /\ Now.w \in {m, Unknown}
      BY <2>1, NativeIs
    <2> HIDE DEF k
    <2>3. Now.w \in Fn.exits  BY <1>1, <2>2 DEF Flow
    <2>4. Now.w \in P  BY <1>3, <2>3 DEF Owner, Fn
    <2> QED  BY <2>2, <2>4
  <1> QED  BY <1>2, <1>3

LEMMA ReturnStep == RunsOn /\ Return /\ ~Strays(Now) => RunStep
  <1> SUFFICES ASSUME RunsOn, Return, ~Strays(Now)  PROVE RunStep
    OBVIOUS
  <1>1. m \in States /\ m' = m /\ stop = "no"  BY NowIs DEF Return, RunsOn, Running
  <1>2. CASE Len(run) = 1
    <2>1. stop' = "end"  BY <1>2 DEF Return, Halt
    <2> QED  BY <1>1, <2>1 DEF RunStep
  <1>3. CASE Len(run) # 1
    <2> DEFINE c == run[Len(run) - 1]
               a == c.at + 1
               after == cache[c.key].post[<<c.at, c.w>>]
               On(f) == run' = Append(SubSeq(run, 1, Len(run) - 2), f) /\ stop' = stop
    <2>1. c.w \in States /\ Expects(cache, c, Now) /\ (c.key # NoKey => after \subseteq States)
      BY <1>3, CallerIs
    <2>2. IF c.key = NoKey THEN On(Onward(c, a, Unknown))
          ELSE IF Now.via
          THEN IF CameBackAsAssumed(c) THEN On(Onward(c, a, c.w)) ELSE On(Rest(c, a))
          ELSE IF \E w \in after : after = {w} THEN On(Onward(c, a, CHOOSE w \in after : TRUE))
          ELSE IF m \in after THEN On(Onward(c, a, m))
          ELSE Halt("exits")
      BY <1>3 DEF Return, Resume
    <2>3. CASE c.key = NoKey
      <3>1. On(Onward(c, a, Unknown))  BY <2>2, <2>3
      <3> QED  BY <1>1, <1>3, <2>3, <3>1, Resumed DEF States
    <2>4. CASE c.key # NoKey /\ Now.via
      <3>1. c.w \in after  BY <2>1, <2>4 DEF Expects
      <3>2. CASE c.w \in {m, Unknown}
        <4>1. On(Onward(c, a, c.w))  BY <2>2, <2>4, <3>2 DEF CameBackAsAssumed
        <4> QED  BY <1>1, <1>3, <2>1, <3>1, <3>2, <4>1, Resumed
      <3>3. CASE c.w \notin {m, Unknown}
        <4>1. On(Rest(c, a))  BY <2>2, <2>4, <3>3 DEF CameBackAsAssumed
        <4> QED  BY <1>1, <1>3, <2>4, <4>1, ResumedRest
      <3> QED  BY <3>2, <3>3
    <2>5. CASE c.key # NoKey /\ ~Now.via
      <3>1. cache[Owner(Now)].exits \subseteq after /\ Unknown \notin after
        BY <2>1, <2>5 DEF Expects
      <3>2. m \in after
        <4> HIDE DEF after
        <4> QED  BY <2>5, <3>1, ReturnsIn
      <3>3. On(Onward(c, a, m))
        <4>1. CASE \E w \in after : after = {w}
          <5>1. (CHOOSE w \in after : TRUE) = m
            <6> HIDE DEF after
            <6>1. after = {m}  BY <3>2, <4>1
            <6> QED  BY <6>1, ChooseOne
          <5>2. On(Onward(c, a, CHOOSE w \in after : TRUE))  BY <2>2, <2>5, <4>1
          <5> QED  BY <5>1, <5>2
        <4>2. CASE ~ \E w \in after : after = {w}  BY <2>2, <2>5, <3>2, <4>2
        <4> QED  BY <4>1, <4>2
      <3> QED  BY <1>1, <1>3, <3>2, <3>3, Resumed
    <2> QED  BY <2>3, <2>4, <2>5
  <1> QED  BY <1>2, <1>3

-----------------------------------------------------------------------------
(* Every step of the program keeps it.                                     *)

LEMMA StartStep ==
    ASSUME RunInv, Start
    PROVE  m' \in States /\ RunSound(program, cache, run') /\ TopRight(m', run')
  <1>1. DecodeInv /\ phase \in {"built", "run"}  BY DEF Start, RunInv
  <1>2. PICK key \in DOMAIN cache : m' = key[2] /\ run' = <<Frame(key, key[1], key[2], TRUE)>>
    BY DEF Start
  <1>3. key \in Keys /\ key \in DOMAIN cache[key].post
    <2>1. key \in Keys /\ Closed(program, Known(cache, assume), key, cache[key], {})
      BY <1>1, <1>2, BuiltIs
    <2> QED  BY <2>1 DEF Closed
  <1>4. key[1] \in Nat /\ key[2] \in States /\ key = <<key[1], key[2]>> /\ key # NoKey
    BY <1>3, KeysAreKeys DEF Keys, States
  <1> DEFINE x == Frame(key, key[1], key[2], TRUE)
  <1>5. x \in Calls /\ x.key = key /\ x.at = key[1] /\ x.w = key[2] /\ x.was = NoKey
    <2> DEFINE at == key[1]
               w == key[2]
    <2>1. key \in Keys \union {NoKey} /\ at \in Nat /\ w \in States  BY <1>3, <1>4
    <2> HIDE DEF at, w
    <2>2. Frame(key, at, w, TRUE) \in Calls  BY <2>1, FrameIs
    <2> QED  BY <2>2 DEF Frame, at, w
  <1>6. run' = <<x>>  BY <1>2
  <1> HIDE DEF x
  <1>7. Placed(cache, x)  BY <1>2, <1>3, <1>4, <1>5 DEF Placed
  <1>8. run' \in Seq(Calls) /\ run' # <<>> /\ Len(run') = 1 /\ run'[1] = x /\ Last(run') = x
    BY <1>5, <1>6 DEF Last
  <1>9. \A n \in 1 .. Len(run') : Placed(cache, run'[n])
    <2>1. \A n \in 1 .. Len(run') : n = 1  BY <1>8
    <2> QED  BY <1>7, <1>8, <2>1
  <1>10. \A n \in 1 .. Len(run') - 1 : FALSE  BY <1>8
  <1>11. RunSound(program, cache, run')  BY <1>8, <1>9, <1>10 DEF RunSound
  <1>12. TopRight(m', run')  BY <1>2, <1>5, <1>8 DEF TopRight
  <1> QED  BY <1>2, <1>4, <1>11, <1>12

LEMMA RunInit == Init => RunInv
  <1> SUFFICES ASSUME Init  PROVE RunInv
    OBVIOUS
  <1>1. DecodeInv  BY InitSound
  <1> QED  BY <1>1 DEF Init, DecodeInit, RunInv, States

LEMMA RunSteps == RunInv /\ [Next]_vars /\ [Confirms]_decodeVars => RunInv'
  <1> SUFFICES ASSUME RunInv, [Next]_vars, [Confirms]_decodeVars  PROVE RunInv'
    OBVIOUS
  <1>1. DecodeInv'  BY DecodeSteps DEF RunInv
  <1>2. CASE DecodeNext /\ UNCHANGED <<m, run, stop, strayed>>
    <2>1. phase' # "run"
      BY <1>2 DEF DecodeNext, PathMet, NotCode, Fail, Visit, Enter, Recurse, Cache, Iterate,
                  NoConvergence, Root, Emit, Decoding, Unread, Finished
    <2> QED  BY <1>1, <1>2, <2>1 DEF RunInv
  <1>3. CASE UNCHANGED vars  BY <1>1, <1>3 DEF RunInv, vars, decodeVars
  <1>4. CASE Start
    <2>1. m' \in States /\ RunSound(program, cache, run') /\ TopRight(m', run')
      BY <1>4, StartStep DEF RunInv
    <2>2. program' = program /\ cache' = cache /\ strayed' = strayed /\ stop' = stop
      BY <1>4 DEF Start
    <2> QED  BY <1>1, <2>1, <2>2 DEF RunInv
  <1>5. CASE Dispatch \/ SetWidth \/ Plp \/ Branch \/ Jump \/ Call
    <2>1. strayed' = strayed /\ program' = program /\ cache' = cache /\ phase' = phase
      BY <1>5 DEF Dispatch, SetWidth, Plp, Branch, Jump, Call, RunUnchanged, decodeVars
    <2>2. Running
      BY <1>5 DEF Dispatch, SetWidth, Plp, Branch, Jump, Call, Executes
    <2>3. CASE strayed  BY <1>1, <2>1, <2>3 DEF RunInv
    <2>4. CASE ~strayed
      <3>1. RunsOn  BY <2>2, <2>4 DEF RunsOn
      <3>2. RunStep
        BY <1>5, <3>1, DispatchStep, SetWidthStep, PlpStep, BranchStep, JumpStep, CallStep
      <3>3. strayed' \in BOOLEAN  BY <2>1 DEF RunInv
      <3> QED  BY <1>1, <2>1, <3>2, <3>3 DEF RunStep, RunInv
    <2> QED  BY <2>3, <2>4
  <1>6. CASE Return
    <2>1. /\ strayed' = (strayed \/ Strays(Now)) /\ program' = program /\ cache' = cache
          /\ phase' = phase /\ Running
      BY <1>6 DEF Return, decodeVars, Executes
    <2>2. strayed' \in BOOLEAN  BY <2>1 DEF RunInv, Strays
    <2>3. CASE strayed \/ Strays(Now)
      <3>1. strayed'  BY <2>1, <2>3
      <3> QED  BY <1>1, <2>2, <3>1 DEF RunInv
    <2>4. CASE ~strayed /\ ~Strays(Now)
      <3>1. RunsOn  BY <2>1, <2>4 DEF RunsOn
      <3>2. RunStep  BY <1>6, <2>4, <3>1, ReturnStep
      <3> QED  BY <1>1, <2>1, <2>2, <3>2 DEF RunStep, RunInv
    <2> QED  BY <2>3, <2>4
  <1> QED  BY <1>2, <1>3, <1>4, <1>5, <1>6 DEF Next, RunNext

LEMMA RunIsRight == RunInv => RightWidth
  <1> SUFFICES ASSUME RunInv, ~strayed  PROVE InWidth /\ stop \notin {"enter", "exits"}
    BY DEF RightWidth
  <1>1. stop \notin {"enter", "exits"}  BY DEF RunInv
  <1>2. Running => TopRight(m, run)  BY DEF RunInv, Running
  <1> QED  BY <1>1, <1>2 DEF InWidth, TopRight, Native, Now

(* Native code runs each instruction in the width it was compiled for, and *)
(* no call enters a function or comes back from one in another, until a    *)
(* function the interpreter finished returns in a width it was not         *)
(* compiled to return in: so the checks of M that the emitter leaves out   *)
(* (recomp/emit.py), after a call of one exit and at an instruction that   *)
(* runs on in one width, would never have failed.                          *)
THEOREM RightWidthTheorem == Spec /\ Confirmed => []RightWidth
  <1>1. Spec /\ Confirmed => []RunInv
    BY RunInit, RunSteps, PTL DEF Spec, Confirmed
  <1> QED  BY <1>1, RunIsRight, PTL
=============================================================================
