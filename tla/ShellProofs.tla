---------------------------- MODULE ShellProofs ----------------------------
(***************************************************************************)
(* Proofs about Shell: for every keyboard, every set of scripts, folders   *)
(* and stack frames, and buffers of any length.                            *)
(***************************************************************************)
EXTENDS Shell, FiniteSetTheorems, WellFoundedInduction, TLAPS

Bytes == Letters \cup {NUL}

-----------------------------------------------------------------------------
(* Numbers and finite sets of them.                                        *)

LEMMA LeastNatural ==
  ASSUME NEW T, T \subseteq Nat, T # {}
  PROVE  \E m \in T : \A k \in T : m <= k
<1>1. OpToRel(<, Nat) = {ss \in Nat \X Nat : ss[1] < ss[2]}
  BY DEF OpToRel
<1>2. PICK m \in T : \A k \in T : ~(<<k, m>> \in OpToRel(<, Nat))
  BY NatLessThanWellFounded, WFMin
<1>3. ASSUME NEW k \in T, k < m PROVE FALSE
  <2>1. <<k, m>> \in OpToRel(<, Nat)
    BY <1>1, <1>3
  <2> QED BY <1>2, <2>1
<1>4. \A k \in T : k \in Nat /\ m \in Nat
  OBVIOUS
<1> QED BY <1>3, <1>4

LEMMA GreatestOf ==
  ASSUME NEW n \in Nat, NEW T, T \subseteq 0..n, T # {}
  PROVE  \E m \in T : \A k \in T : k <= m
<1> DEFINE D == {n - k : k \in T}
<1>1. D \subseteq Nat /\ D # {}
  <2>1. \A k \in T : n - k \in Nat
    OBVIOUS
  <2> QED BY <2>1
<1>2. PICK d \in D : \A e \in D : d <= e
  BY <1>1, LeastNatural
<1>3. PICK m \in T : d = n - m
  OBVIOUS
<1>4. ASSUME NEW k \in T PROVE k <= m
  <2>1. n - k \in D
    OBVIOUS
  <2>2. n - m <= n - k
    BY <1>2, <1>3, <2>1
  <2>3. m \in Int /\ k \in Int /\ n \in Int
    OBVIOUS
  <2> HIDE DEF D
  <2> QED BY <2>2, <2>3
<1> QED BY <1>4

Below(S, p) == {q \in S : q < p}

LEMMA BelowFinite ==
  ASSUME NEW n \in Nat, NEW S, S \subseteq 0..n, NEW p
  PROVE  /\ IsFiniteSet(S) /\ IsFiniteSet(Below(S, p))
         /\ Cardinality(S) \in Nat /\ Cardinality(Below(S, p)) \in Nat
<1>1. IsFiniteSet(0..n)
  BY FS_Interval
<1>2. IsFiniteSet(S)
  BY <1>1, FS_Subset
<1>3. Below(S, p) \subseteq S
  BY DEF Below
<1>4. IsFiniteSet(Below(S, p))
  BY <1>2, <1>3, FS_Subset
<1> QED BY <1>2, <1>4, FS_CardinalityType

\* A set of more than k numbers has one with exactly k below it: were the least
\* with at least k below it above more than those, the greatest of them would do.
LEMMA NthIsIn ==
  ASSUME NEW n \in Nat, NEW S, S \subseteq 0..n, NEW k \in Nat, k < Cardinality(S)
  PROVE  Nth(S, k) \in S
<1> DEFINE High == {p \in S : Cardinality(Below(S, p)) >= k}
<1>1. S # {}
  BY FS_EmptySet
<1>2. PICK g \in S : \A p \in S : p <= g
  BY <1>1, GreatestOf
<1>3. Cardinality(Below(S, g)) = Cardinality(S) - 1
  <2>1. \A q \in S : q < g <=> q # g
    BY <1>2
  <2>2. Below(S, g) = S \ {g}
    BY <2>1 DEF Below
  <2>3. IsFiniteSet(S)
    BY BelowFinite
  <2> QED BY <2>2, <2>3, FS_RemoveElement
<1>4. High # {} /\ High \subseteq Nat
  <2>1. Cardinality(S) \in Nat
    BY BelowFinite
  <2>2. Cardinality(Below(S, g)) >= k
    BY <1>3, <2>1
  <2>3. g \in High
    BY <2>2
  <2>4. High \subseteq S /\ S \subseteq Nat
    OBVIOUS
  <2> QED BY <2>3, <2>4
<1>5. PICK p \in High : \A q \in High : p <= q
  BY <1>4, LeastNatural
<1>6. Cardinality(Below(S, p)) = k
  <2>1. SUFFICES ASSUME Cardinality(Below(S, p)) # k PROVE FALSE
    OBVIOUS
  <2>2. /\ IsFiniteSet(Below(S, p)) /\ Cardinality(Below(S, p)) \in Nat
        /\ Cardinality(Below(S, p)) > k /\ p \in 0..n
    <3>1. p \in S /\ Cardinality(Below(S, p)) >= k
      BY <1>5
    <3>2. IsFiniteSet(Below(S, p)) /\ Cardinality(Below(S, p)) \in Nat
      BY BelowFinite
    <3> QED BY <2>1, <3>1, <3>2
  <2>3. Below(S, p) # {}
    BY <2>2, FS_EmptySet
  <2>4. PICK r \in Below(S, p) : \A q \in Below(S, p) : q <= r
    BY <2>3, GreatestOf DEF Below
  <2>5. Below(S, r) = Below(S, p) \ {r} /\ r \in S /\ r < p
    <3>1. r \in S /\ r < p
      BY <2>4 DEF Below
    <3>2. \A q \in S : q < r <=> q < p /\ q # r
      BY <2>2, <2>4, <3>1 DEF Below
    <3> QED BY <3>1, <3>2 DEF Below
  <2>6. Cardinality(Below(S, r)) = Cardinality(Below(S, p)) - 1
    BY <2>2, <2>5, FS_RemoveElement
  <2>7. r \in High
    BY <2>1, <2>2, <2>5, <2>6
  <2> QED BY <1>5, <2>5, <2>7
<1>7. p \in S /\ Cardinality({q \in S : q < p}) = k
  BY <1>6 DEF Below
<1> QED BY <1>7 DEF Nth

-----------------------------------------------------------------------------
(* Strings.                                                                *)

\* b is memory that holds bytes, with a NUL at n.
Terminated(b, n) ==
  /\ n \in Nat /\ 0..n \subseteq DOMAIN b /\ DOMAIN b \subseteq Int
  /\ \A p \in DOMAIN b : b[p] \in Bytes
  /\ b[n] = NUL

Strings == UNION {{b \in [0..m -> Bytes] : b[m] = NUL} : m \in Nat}

LEMMA StopIs ==
  ASSUME NEW n \in Nat, NEW b, 0..n \subseteq DOMAIN b, DOMAIN b \subseteq Int,
         NEW S, b[n] \in S, NEW p \in 0..n
  PROVE  /\ Stop(b, p, S) \in p..n /\ b[Stop(b, p, S)] \in S
         /\ \A j \in p..(Stop(b, p, S) - 1) : b[j] \notin S
<1> DEFINE T == {e \in p..n : b[e] \in S}
<1>1. T \subseteq Nat /\ n \in T
  OBVIOUS
<1>2. PICK m \in T : \A k \in T : m <= k
  BY <1>1, LeastNatural
<1>3. m \in DOMAIN b /\ m >= p /\ b[m] \in S /\ \A j \in p..(m - 1) : b[j] \notin S
  BY <1>2
<1> DEFINE Found(e) == e >= p /\ b[e] \in S /\ \A j \in p..(e - 1) : b[j] \notin S
<1>4. Stop(b, p, S) \in DOMAIN b /\ Found(Stop(b, p, S))
  BY <1>3 DEF Stop
<1>5. Stop(b, p, S) <= n
  BY <1>1, <1>4
<1> QED BY <1>4, <1>5

\* There is only one such place.
LEMMA StopIsOnly ==
  ASSUME NEW n \in Nat, NEW b, 0..n \subseteq DOMAIN b, DOMAIN b \subseteq Int,
         NEW S, b[n] \in S, NEW p \in 0..n,
         NEW e \in p..n, b[e] \in S, \A j \in p..(e - 1) : b[j] \notin S
  PROVE  Stop(b, p, S) = e
BY StopIs

LEMMA StringIsTerminated ==
  ASSUME NEW b \in Strings
  PROVE  \E m \in Nat : Terminated(b, m) /\ DOMAIN b = 0..m
BY DEF Strings, Terminated

LEMMA TerminatedIsString ==
  ASSUME NEW b, NEW m \in Nat, b = [p \in 0..m |-> b[p]], Terminated(b, m)
  PROVE  b \in Strings
<1>1. b \in [0..m -> Bytes] /\ b[m] = NUL
  BY DEF Terminated
<1> QED BY <1>1 DEF Strings

LEMMA StrLenIs ==
  ASSUME NEW n, NEW b, Terminated(b, n)
  PROVE  /\ StrLen(b) \in 0..n /\ b[StrLen(b)] = NUL
         /\ \A p \in 0..(StrLen(b) - 1) : b[p] # NUL /\ b[p] \in Letters
         /\ Starts(b) \subseteq 0..n
         /\ \A p \in Starts(b) : p < StrLen(b) /\ p \in 0..n
<1>1. StrLen(b) \in 0..n /\ b[StrLen(b)] = NUL /\ \A p \in 0..(StrLen(b) - 1) : b[p] # NUL
  BY StopIs DEF StrLen, Terminated
<1>2. \A p \in 0..(StrLen(b) - 1) : b[p] \in Letters
  BY <1>1 DEF Terminated, Bytes
<1> QED BY <1>1, <1>2 DEF Starts, Terminated

LEMMA FunctionIsSequence ==
  ASSUME NEW S, NEW n \in Nat, NEW f \in [1..n -> S]
  PROVE  f \in Seq(S) /\ Len(f) = n
OBVIOUS

LEMMA CStringType ==
  ASSUME NEW n, NEW b, Terminated(b, n), NEW p \in 0..n
  PROVE  CString(b, p) \in Seq(Letters)
<1> DEFINE e == Stop(b, p, {NUL})
<1>1. e \in p..n /\ \A j \in p..(e - 1) : b[j] \notin {NUL}
  BY StopIs DEF Terminated
<1>2. e - p \in Nat
  BY <1>1 DEF Terminated
<1>3. ASSUME NEW j \in 1..(e - p) PROVE b[p + j - 1] \in Letters
  <2>1. p + j - 1 \in p..(e - 1) /\ p + j - 1 \in 0..n
    BY <1>1 DEF Terminated
  <2> QED BY <1>1, <2>1 DEF Terminated, Bytes
<1>4. [j \in 1..(e - p) |-> b[p + j - 1]] \in [1..(e - p) -> Letters]
  BY <1>3
<1> HIDE DEF e
<1>5. [j \in 1..(e - p) |-> b[p + j - 1]] \in Seq(Letters)
  BY <1>2, <1>4, FunctionIsSequence
<1> QED BY <1>5 DEF CString, Chars, e

LEMMA CStrType ==
  ASSUME NEW s \in Seq(Letters)
  PROVE  CStr(s) \in Strings /\ DOMAIN CStr(s) = 0..Len(s)
<1>1. Len(s) \in Nat
  OBVIOUS
<1>2. CStr(s) \in [0..Len(s) -> Bytes] /\ CStr(s)[Len(s)] = NUL
  <2>1. ASSUME NEW p \in 0..Len(s), p # Len(s) PROVE s[p + 1] \in Letters
    <3>1. p + 1 \in 1..Len(s)
      BY <2>1
    <3> QED BY <3>1
  <2> QED BY <1>1, <2>1 DEF CStr, Bytes
<1> QED BY <1>1, <1>2 DEF Strings

LEMMA SplitType ==
  ASSUME NEW n, NEW b, Terminated(b, n)
  PROVE  Terminated(Split(b), n) /\ DOMAIN Split(b) = DOMAIN b
<1>1. StrLen(b) \in 0..n /\ n \in Nat /\ DOMAIN b \subseteq Int
  BY StrLenIs DEF Terminated
<1>2. DOMAIN Split(b) = DOMAIN b /\ n \in DOMAIN b
  BY DEF Split, Terminated
<1>3. \A p \in DOMAIN b : Split(b)[p] \in {NUL, b[p]}
  BY DEF Split
<1> QED BY <1>2, <1>3 DEF Terminated, Bytes

LEMMA SplitString ==
  ASSUME NEW b \in Strings
  PROVE  Split(b) \in Strings /\ DOMAIN Split(b) = DOMAIN b
<1>1. PICK m \in Nat : Terminated(b, m) /\ DOMAIN b = 0..m
  BY StringIsTerminated
<1>2. Terminated(Split(b), m) /\ DOMAIN Split(b) = 0..m
  BY <1>1, SplitType
<1>3. Split(b) = [p \in 0..m |-> Split(b)[p]]
  BY <1>1 DEF Split
<1> QED BY <1>1, <1>2, <1>3, TerminatedIsString

LEMMA AfterSemicolonType ==
  ASSUME NEW n, NEW b, Terminated(b, n), NEW s \in AfterSemicolon(b)
  PROVE  s \in Seq(Letters)
<1>1. PICK q \in 0..StrLen(b) : s = CString(b, q)
  BY DEF AfterSemicolon
<1>2. q \in 0..n
  BY <1>1, StrLenIs DEF Terminated
<1> QED BY <1>1, <1>2, CStringType
-----------------------------------------------------------------------------
(* Frames.                                                                 *)

Frame == [kind : {"script", "loop"}, data : Seq(Strings), next : Nat]

\* Every string of every frame is where it was, and as long.
ShapeKept ==
  \A f \in DOMAIN frames :
    /\ f \in DOMAIN frames' /\ DOMAIN frames'[f].data = DOMAIN frames[f].data
    /\ \A l \in DOMAIN frames[f].data : DOMAIN frames'[f].data[l] = DOMAIN frames[f].data[l]

LEMMA LiveKept ==
  ASSUME ShapeKept
  PROVE  \A a : Live(a) => Live(a)'
BY DEF ShapeKept, Live

LEMMA NewFrames ==
  /\ \A s \in Scripts : ScriptFrame(s) \in Frame /\ ScriptFrame(s).kind = "script"
  /\ \A s \in Seq(Letters) : /\ LoopFrame(s) \in Frame /\ LoopFrame(s).kind = "loop"
                              /\ 1 \in DOMAIN LoopFrame(s).data
<1>1. ASSUME NEW s \in Scripts PROVE ScriptFrame(s) \in Frame /\ ScriptFrame(s).kind = "script"
  <2>1. s \in Seq(Seq(Letters))
    BY ShellAssumption
  <2>2. Len(s) \in Nat /\ DOMAIN s = 1..Len(s) /\ \A l \in DOMAIN s : s[l] \in Seq(Letters)
    BY <2>1
  <2>3. [l \in DOMAIN s |-> CStr(s[l])] \in [1..Len(s) -> Strings]
    BY <2>2, CStrType
  <2>4. [l \in DOMAIN s |-> CStr(s[l])] \in Seq(Strings)
    BY <2>2, <2>3, FunctionIsSequence
  <2> QED BY <2>4 DEF ScriptFrame, Frame
<1>2. ASSUME NEW s \in Seq(Letters) 
      PROVE  /\ LoopFrame(s) \in Frame /\ LoopFrame(s).kind = "loop"
             /\ 1 \in DOMAIN LoopFrame(s).data
  <2>1. CStr(s) \in Strings
    BY CStrType
  <2>2. <<CStr(s)>> \in Seq(Strings)
    BY <2>1
  <2> QED BY <2>2 DEF LoopFrame, Frame
<1> QED BY <1>1, <1>2

LEMMA Pushed ==
  ASSUME frames \in Seq(Frame), NEW x \in Frame, frames' = Append(frames, x)
  PROVE  /\ frames' \in Seq(Frame) /\ frames' # << >> /\ ShapeKept
         /\ Len(frames') = Len(frames) + 1 /\ frames'[Len(frames) + 1] = x
         /\ \A k \in DOMAIN frames : frames'[k] = frames[k]
<1>1. /\ frames' \in Seq(Frame) /\ frames' # << >>
      /\ Len(frames') = Len(frames) + 1 /\ frames'[Len(frames) + 1] = x
      /\ \A k \in DOMAIN frames : k \in DOMAIN frames' /\ frames'[k] = frames[k]
  OBVIOUS
<1>2. ShapeKept
  BY <1>1 DEF ShapeKept
<1> QED BY <1>1, <1>2

\* The frames with one of the strings of the innermost rewritten.
Rewrite(l, b, m) == [frames EXCEPT ![Len(frames)] = [@ EXCEPT !.data[l] = b, !.next = m]]

LEMMA Rewritten ==
  ASSUME frames \in Seq(Frame), frames # << >>, NEW l \in DOMAIN Top.data, NEW b \in Strings,
         DOMAIN b = DOMAIN Top.data[l], NEW m \in Nat, NEW g, g = Rewrite(l, b, m)
  PROVE  /\ g \in Seq(Frame) /\ Len(g) = Len(frames) /\ g # << >>
         /\ \A k \in DOMAIN frames :
              /\ g[k].kind = frames[k].kind /\ DOMAIN g[k].data = DOMAIN frames[k].data
              /\ \A j \in DOMAIN frames[k].data : DOMAIN g[k].data[j] = DOMAIN frames[k].data[j]
<1> DEFINE n == Len(frames)
           top == [Top EXCEPT !.data[l] = b, !.next = m]
<1>1. n \in 1..n /\ DOMAIN frames = 1..n /\ Top \in Frame /\ n \in Nat
  BY DEF Top
<1>2. /\ top.kind = Top.kind /\ top.next = m
      /\ top.data = [Top.data EXCEPT ![l] = b]
      /\ Top.data \in Seq(Strings)
  BY <1>1 DEF Frame
<1>3. top \in Frame
  <2>1. top.data \in Seq(Strings)
    BY <1>2
  <2> QED BY <1>1, <1>2, <2>1 DEF Frame
<1>4. g = [frames EXCEPT ![n] = top]
  BY <1>1 DEF Top, Rewrite
<1> HIDE DEF n, top
<1>5. g \in [1..n -> Frame]
  <2>1. frames \in [1..n -> Frame]
    BY DEF n
  <2> QED BY <1>3, <1>4, <2>1
<1>6. g \in Seq(Frame) /\ Len(g) = n
  BY <1>1, <1>5, FunctionIsSequence
<1>7. \A j \in DOMAIN Top.data : DOMAIN top.data[j] = DOMAIN Top.data[j]
  BY <1>2
<1>8. DOMAIN top.data = DOMAIN Top.data
  BY <1>2
<1>9. ASSUME NEW k \in DOMAIN frames
      PROVE  /\ g[k].kind = frames[k].kind /\ DOMAIN g[k].data = DOMAIN frames[k].data
             /\ \A j \in DOMAIN frames[k].data : DOMAIN g[k].data[j] = DOMAIN frames[k].data[j]
  <2>1. CASE k = n
    BY <1>1, <1>2, <1>4, <1>7, <1>8, <2>1 DEF Top, n
  <2>2. CASE k # n
    BY <1>1, <1>4, <2>2
  <2> QED BY <2>1, <2>2
<1> QED BY <1>1, <1>5, <1>6, <1>9 DEF n

LEMMA Looped ==
  ASSUME frames \in Seq(Frame), frames # << >>, Top.kind = "loop", NEW b \in Strings,
         1 \in DOMAIN Top.data, NEW g, g = [frames EXCEPT ![Len(frames)].data[1] = b]
  PROVE  g = Rewrite(1, b, Top.next)
<1> DEFINE n == Len(frames)
<1>1. n \in DOMAIN frames /\ frames[n] \in Frame
  OBVIOUS
<1>2. [frames[n] EXCEPT !.data[1] = b] = [frames[n] EXCEPT !.data[1] = b, !.next = frames[n].next]
  BY <1>1 DEF Frame
<1> QED BY <1>1, <1>2 DEF Top, Rewrite

-----------------------------------------------------------------------------
(* Types.                                                                  *)

Storage ==
  /\ command_buf \in Text /\ command_buf[MaxPos] = NUL
  /\ doc_buf \in Text /\ cursor_pos \in MinPos..MaxPos
  /\ frames \in Seq(Frame) /\ typed \in Seq(Bytes)

Loops == \A k \in DOMAIN frames : frames[k].kind = "loop" => 1 \in DOMAIN frames[k].data

Modes ==
  /\ pc \in {"idle", "run", "next", "halted"}
  /\ editor_mode \in {0, 1} /\ bash_mode \in {0, 1} /\ at_root \in {0, 1}
  /\ argc \in 0..MAX_ARGS
  /\ current_clust \in Folders \cup {Root}
  /\ prompts \in 0..2
  /\ odd \in BOOLEAN /\ spilled \in BOOLEAN /\ nested \in BOOLEAN /\ returned \in BOOLEAN
  /\ pc = "idle" => frames = << >>
  /\ pc = "next" => frames # << >>

Pointers ==
  /\ argv \in [0..(MAX_ARGS - 1) -> Int \X Int \X Int]
  /\ \A k \in 0..(MAX_ARGS - 1) : argv[k] \in {Null, Dead} \/ Live(argv[k])
  /\ argv[0] = Null => \A k \in 0..(MAX_ARGS - 1) : argv[k] = Null

TypeInv == Storage /\ Loops /\ Modes /\ Pointers

LEMMA LineTerminated ==
  ASSUME Storage
  PROVE  Terminated(command_buf, MaxPos) /\ DOMAIN command_buf = MinPos..MaxPos
BY ShellAssumption DEF Storage, Text, Terminated, Bytes, MinPos

LEMMA TopTyped ==
  ASSUME frames \in Seq(Frame), frames # << >>
  PROVE  /\ Len(frames) \in DOMAIN frames /\ Top \in Frame
         /\ \A l \in DOMAIN Top.data : l \in Nat /\ Top.data[l] \in Strings
<1>1. Len(frames) \in DOMAIN frames /\ Top \in Frame
  BY DEF Top
<1>2. Top.data \in Seq(Strings)
  BY <1>1 DEF Frame
<1> QED BY <1>1, <1>2

LEMMA ParseType ==
  ASSUME NEW f \in Nat, NEW l \in Nat, NEW n, NEW b, Terminated(b, n), Parse(f, l, b), Pointers
  PROVE  /\ argc' \in 0..MAX_ARGS /\ argv' \in [0..(MAX_ARGS - 1) -> Int \X Int \X Int]
         /\ \A k \in 0..(MAX_ARGS - 1) :
              argv'[k] = argv[k] \/ \E p \in 0..n : argv'[k] = <<f, l, p>>
         /\ argv'[0] = Null => \A k \in 0..(MAX_ARGS - 1) : argv'[k] = Null
<1> DEFINE c == Cardinality(Starts(b))
<1>1. c \in Nat /\ MAX_ARGS \in Nat /\ n \in Nat
  BY StrLenIs, BelowFinite, ShellAssumption DEF Terminated
<1>2. \A k \in Nat : k < c => Nth(Starts(b), k) \in 0..n
  BY StrLenIs, NthIsIn DEF Terminated
<1>3. argc' \in 0..MAX_ARGS
  BY <1>1 DEF Parse
<1> HIDE DEF c
<1>4. \A k \in 0..(MAX_ARGS - 1) :
        argv'[k] = IF k < c THEN <<f, l, Nth(Starts(b), k)>> ELSE argv[k]
  BY DEF Parse, c
<1>5. \A k \in 0..(MAX_ARGS - 1) :
        argv'[k] = argv[k] \/ \E p \in 0..n : argv'[k] = <<f, l, p>>
  <2>1. ASSUME NEW k \in 0..(MAX_ARGS - 1)
        PROVE  argv'[k] = argv[k] \/ \E p \in 0..n : argv'[k] = <<f, l, p>>
    <3>1. CASE k < c
      <4>1. k \in Nat
        BY <1>1
      <4>2. Nth(Starts(b), k) \in 0..n
        BY <1>2, <3>1, <4>1
      <4>3. argv'[k] = <<f, l, Nth(Starts(b), k)>>
        BY <1>4, <3>1
      <4> QED BY <4>2, <4>3
    <3>2. CASE ~(k < c)
      BY <1>4, <3>2
    <3> QED BY <3>1, <3>2
  <2> QED BY <2>1
<1>6. argv' \in [0..(MAX_ARGS - 1) -> Int \X Int \X Int]
  <2>1. ASSUME NEW k \in 0..(MAX_ARGS - 1) PROVE argv'[k] \in Int \X Int \X Int
    BY <1>5 DEF Pointers
  <2>2. argv' = [k \in 0..(MAX_ARGS - 1) |-> argv'[k]]
    BY DEF Parse
  <2> QED BY <2>1, <2>2
<1>7. ASSUME argv'[0] = Null PROVE \A k \in 0..(MAX_ARGS - 1) : argv'[k] = Null
  <2>1. 0 \in 0..(MAX_ARGS - 1)
    BY ShellAssumption
  <2>2. \A p : <<f, l, p>> # Null
    <3>1. ASSUME NEW p, <<f, l, p>> = Null PROVE FALSE
      <4>1. <<f, l, p>>[1] = f /\ Null[1] = -1
        BY DEF Null
      <4>2. f = -1
        BY <3>1, <4>1
      <4> QED BY <4>2
    <3> QED BY <3>1
  <2>3. ASSUME 0 < c PROVE FALSE
    <3>1. argv'[0] = <<f, l, Nth(Starts(b), 0)>>
      BY <1>4, <2>1, <2>3
    <3> QED BY <1>7, <2>2, <3>1
  <2>4. \A k \in 0..(MAX_ARGS - 1) : argv'[k] = argv[k]
    <3>1. \A k \in 0..(MAX_ARGS - 1) : ~(k < c)
      BY <1>1, <2>3
    <3> QED BY <1>4, <3>1
  <2> QED BY <1>7, <2>1, <2>4 DEF Pointers
<1> QED BY <1>3, <1>5, <1>6, <1>7

LEMMA PointersParsed ==
  ASSUME NEW f \in Nat, NEW l \in Nat, NEW n, NEW b, Terminated(b, n), Parse(f, l, b), Pointers,
         ShapeKept, \A p \in 0..n : Live(<<f, l, p>>)'
  PROVE  Pointers' /\ argc' \in 0..MAX_ARGS
<1>1. /\ argc' \in 0..MAX_ARGS /\ argv' \in [0..(MAX_ARGS - 1) -> Int \X Int \X Int]
      /\ \A k \in 0..(MAX_ARGS - 1) :
           argv'[k] = argv[k] \/ \E p \in 0..n : argv'[k] = <<f, l, p>>
      /\ argv'[0] = Null => \A k \in 0..(MAX_ARGS - 1) : argv'[k] = Null
  BY ParseType
<1>2. ASSUME NEW k \in 0..(MAX_ARGS - 1) PROVE argv'[k] \in {Null, Dead} \/ Live(argv[k])'
  <2>1. CASE argv'[k] = argv[k]
    <3>1. CASE argv[k] \in {Null, Dead}
      BY <2>1, <3>1
    <3>2. CASE Live(argv[k])
      BY <2>1, <3>2 DEF Live, ShapeKept
    <3> QED BY <3>1, <3>2 DEF Pointers
  <2>2. CASE \E p \in 0..n : argv'[k] = <<f, l, p>>
    <3>1. PICK p \in 0..n : argv'[k] = <<f, l, p>>
      BY <2>2
    <3>2. Live(<<f, l, p>>)'
      OBVIOUS
    <3> QED BY <3>1, <3>2 DEF Live
  <2> QED BY <1>1, <2>1, <2>2
<1> QED BY <1>1, <1>2 DEF Pointers

LEMMA PointersKept ==
  ASSUME Pointers, ShapeKept, UNCHANGED argv
  PROVE  Pointers'
<1>1. ASSUME NEW k \in 0..(MAX_ARGS - 1) PROVE argv'[k] \in {Null, Dead} \/ Live(argv[k])'
  <2>1. CASE argv[k] \in {Null, Dead}
    BY <2>1
  <2>2. CASE Live(argv[k])
    BY <2>2 DEF Live, ShapeKept
  <2> QED BY <2>1, <2>2 DEF Pointers
<1> QED BY <1>1 DEF Pointers

LEMMA ShapeUnchanged ==
  ASSUME UNCHANGED frames
  PROVE  ShapeKept
BY DEF ShapeKept

LEMMA LoopsUnchanged ==
  ASSUME Loops, UNCHANGED frames
  PROVE  Loops'
BY DEF Loops

LEMMA LoopsPushed ==
  ASSUME Storage, Loops, NEW x \in Frame, frames' = Append(frames, x),
         x.kind = "loop" => 1 \in DOMAIN x.data
  PROVE  Loops'
<1>1. /\ Len(frames') = Len(frames) + 1 /\ frames'[Len(frames) + 1] = x
      /\ \A k \in DOMAIN frames : frames'[k] = frames[k]
      /\ frames' \in Seq(Frame)
  BY Pushed DEF Storage
<1>2. ASSUME NEW k \in DOMAIN frames' PROVE k \in DOMAIN frames \/ k = Len(frames) + 1
  BY <1>1 DEF Storage
<1> QED BY <1>1, <1>2 DEF Loops

LEMMA CleanupType ==
  ASSUME Storage, Modes, NEW e, NEW b, cmd_cleanup(e, b)
  PROVE  /\ command_buf' \in Text /\ command_buf'[MaxPos] = NUL
         /\ cursor_pos' \in MinPos..MaxPos /\ typed' \in Seq(Bytes)
         /\ prompts' \in 0..2 /\ odd' \in BOOLEAN
<1>1. MinPos..MaxPos = DOMAIN command_buf /\ MaxPos \in MinPos..MaxPos /\ 0 \in MinPos..MaxPos
  BY ShellAssumption DEF Storage, Text, MinPos
<1>2. command_buf' \in Text /\ command_buf'[MaxPos] = NUL
  BY <1>1 DEF cmd_cleanup, Cleared, Storage, Text
<1>3. prompts' \in 0..2
  BY DEF cmd_cleanup, Modes
<1>4. cursor_pos' = 0 /\ typed' = << >> /\ odd' = FALSE
  BY DEF cmd_cleanup
<1>5. << >> \in Seq(Bytes)
  OBVIOUS
<1> QED BY <1>1, <1>2, <1>3, <1>4, <1>5

LEMMA LineSplit ==
  ASSUME Storage
  PROVE  Split(command_buf) \in Text /\ Split(command_buf)[MaxPos] = NUL
<1>1. DOMAIN command_buf = MinPos..MaxPos /\ MaxPos \in MinPos..MaxPos
  BY ShellAssumption DEF Storage, Text, MinPos
<1> QED BY <1>1 DEF Storage, Text, Split

\* The strings a pointer of argv leads to.
LEMMA WordType ==
  ASSUME TypeInv, NEW k \in 0..(MAX_ARGS - 1), argv[k] # Null
  PROVE  StringsAt(argv[k]) \subseteq Seq(Letters)
<1>1. CASE argv[k] = Dead
  BY <1>1, ShellAssumption DEF StringsAt
<1>2. CASE argv[k] # Dead
  <2>1. Live(argv[k])
    BY <1>2 DEF TypeInv, Pointers
  <2>2. StringsAt(argv[k]) = {CString(Memory(argv[k][1], argv[k][2]), argv[k][3])}
    BY <1>2 DEF StringsAt
  <2>3. CASE argv[k][1] = 0 /\ argv[k][3] \in 0..MaxPos
    <3>1. CString(command_buf, argv[k][3]) \in Seq(Letters)
      BY <2>3, LineTerminated, CStringType DEF TypeInv
    <3> QED BY <2>2, <2>3, <3>1 DEF Memory
  <2>4. CASE /\ argv[k][1] \in DOMAIN frames /\ argv[k][2] \in DOMAIN frames[argv[k][1]].data
             /\ argv[k][3] \in DOMAIN frames[argv[k][1]].data[argv[k][2]]
    <3> DEFINE b == frames[argv[k][1]].data[argv[k][2]]
    <3>1. argv[k][1] # 0 /\ frames[argv[k][1]] \in Frame
      BY <2>4 DEF TypeInv, Storage
    <3>2. frames[argv[k][1]].data \in Seq(Strings)
      BY <3>1 DEF Frame
    <3>3. b \in Strings
      BY <2>4, <3>2
    <3>4. PICK m \in Nat : Terminated(b, m) /\ DOMAIN b = 0..m
      BY <3>3, StringIsTerminated
    <3>5. CString(b, argv[k][3]) \in Seq(Letters)
      BY <2>4, <3>4, CStringType
    <3> QED BY <2>2, <3>1, <3>5 DEF Memory
  <2> QED BY <2>1, <2>3, <2>4 DEF Live
<1> QED BY <1>1, <1>2

LEMMA TypeInit == Init => TypeInv
<1> SUFFICES ASSUME Init PROVE TypeInv
  OBVIOUS
<1> USE ShellAssumption
<1>1. Storage
  <2>1. MaxPos \in MinPos..MaxPos /\ 0 \in MinPos..MaxPos
    BY DEF MinPos
  <2>2. frames \in Seq(Frame) /\ typed \in Seq(Bytes)
    BY DEF Init
  <2> QED BY <2>1, <2>2 DEF Init, Storage, Text
<1>2. Modes
  BY DEF Init, Modes
<1>3. Loops
  BY DEF Init, Loops
<1>4. Pointers
  BY DEF Init, Pointers, Null
<1> QED BY <1>1, <1>2, <1>3, <1>4 DEF TypeInv

\* A handler that ends with cmd_cleanup.
LEMMA TypeHandled ==
  ASSUME TypeInv, NEW e \in {0, 1}, NEW b, cmd_cleanup(e, b), editor_mode' = e,
         pc = "run", UNCHANGED <<doc_buf, spilled, argVars, frames, bash_mode, nested>>,
         pc' = "halted" \/ Return,
         at_root' \in {0, 1}, current_clust' \in Folders \cup {Root}, returned' \in BOOLEAN
  PROVE  TypeInv'
<1> USE DEF TypeInv, argVars
<1>1. Storage'
  BY CleanupType DEF Storage
<1>2. Modes'
  <2>1. prompts' \in 0..2 /\ odd' \in BOOLEAN
    BY CleanupType
  <2>2. /\ pc' \in {"idle", "next", "halted"}
        /\ pc' = "idle" => frames = << >>
        /\ pc' = "next" => frames # << >>
    BY DEF Return
  <2> QED BY <2>1, <2>2 DEF Modes
<1>3. Pointers'
  BY ShapeUnchanged, PointersKept
<1> QED BY <1>1, <1>2, <1>3, LoopsUnchanged

LEMMA TypeRun == TypeInv /\ Run => TypeInv'
<1> SUFFICES ASSUME TypeInv, Run PROVE TypeInv'
  OBVIOUS
<1> USE DEF NoEffect, folderVars
<1>m. /\ editor_mode \in {0, 1} /\ at_root \in {0, 1} /\ returned \in BOOLEAN
      /\ current_clust \in Folders \cup {Root}
  BY DEF TypeInv, Modes
<1>1. CASE Plain
  BY <1>m, <1>1, TypeHandled DEF Plain
<1>2. CASE Fault
  BY <1>m, <1>2, TypeHandled DEF Fault
<1>3. CASE Edit
  BY <1>m, <1>3, TypeHandled DEF Edit, Command
<1>4. CASE CdUp
  BY <1>m, <1>4, TypeHandled DEF CdUp, Command
<1>5. CASE CdInto
  BY <1>m, <1>5, TypeHandled DEF CdInto, Command
<1>6. CASE Reboot
  <2>1. Init'
    BY <1>6 DEF Reboot, Init
  <2> QED BY <2>1, TypeInit, PTL
<1>7. CASE IslRun
  <2>1. CASE /\ pc' = "next" /\ \E s \in Scripts : frames' = Append(frames, ScriptFrame(s))
    <3>1. PICK s \in Scripts : frames' = Append(frames, ScriptFrame(s))
      BY <2>1
    <3>2. frames' \in Seq(Frame) /\ frames' # << >> /\ ShapeKept
      BY <3>1, NewFrames, Pushed DEF TypeInv, Storage
    <3>3. Storage'
      BY <1>7, <3>2 DEF IslRun, TypeInv, Storage, keyboardVars
    <3>4. Modes'
      BY <1>7, <2>1, <3>2 DEF IslRun, TypeInv, Modes, keyboardVars, argVars
    <3>5. Pointers'
      BY <1>7, <3>2, PointersKept DEF IslRun, TypeInv, argVars
    <3>6. Loops'
      BY <3>1, NewFrames, LoopsPushed DEF TypeInv
    <3> QED BY <3>3, <3>4, <3>5, <3>6 DEF TypeInv
  <2>2. CASE pc' = "halted" /\ UNCHANGED frames
    <3>1. Storage'
      BY <1>7, <2>2 DEF IslRun, TypeInv, Storage, keyboardVars
    <3>2. Modes'
      BY <1>7, <2>2 DEF IslRun, TypeInv, Modes, keyboardVars, argVars
    <3>3. Pointers'
      BY <1>7, <2>2, ShapeUnchanged, PointersKept DEF IslRun, TypeInv, argVars
    <3> QED BY <2>2, <3>1, <3>2, <3>3, LoopsUnchanged DEF TypeInv
  <2> QED BY <1>7, <2>1, <2>2 DEF IslRun
<1> QED BY <1>1, <1>2, <1>3, <1>4, <1>5, <1>6, <1>7 DEF Run

\* Taking the last element off a sequence.
LEMMA WithoutLast ==
  ASSUME NEW S, NEW s \in Seq(S), s # << >>
  PROVE  /\ SubSeq(s, 1, Len(s) - 1) \in Seq(S)
         /\ Len(SubSeq(s, 1, Len(s) - 1)) = Len(s) - 1
         /\ \A k \in 1..(Len(s) - 1) : SubSeq(s, 1, Len(s) - 1)[k] = s[k]
<1>1. Len(s) \in Nat /\ Len(s) - 1 \in Nat /\ s \in [1..Len(s) -> S]
  OBVIOUS
<1>2. SubSeq(s, 1, Len(s) - 1) = [k \in 1..(Len(s) - 1) |-> s[k]]
  BY <1>1
<1>3. [k \in 1..(Len(s) - 1) |-> s[k]] \in [1..(Len(s) - 1) -> S]
  BY <1>1
<1> QED BY <1>1, <1>2, <1>3, FunctionIsSequence

LEMMA KeysType ==
  /\ Keys \subseteq Bytes /\ EditorKeys \subseteq Bytes /\ SP \in Keys
  /\ Keys \cup EditorKeys \subseteq Keys \cup {NUL, NL}
BY ShellAssumption DEF Bytes

LEMMA TypeKey == TypeInv /\ Key => TypeInv'
<1> SUFFICES ASSUME TypeInv, Key PROVE TypeInv'
  OBVIOUS
<1>m. /\ Under \in Nat /\ MaxPos \in Nat /\ MinPos = 0 - Under
  BY ShellAssumption DEF MinPos
<1>t. /\ command_buf \in [MinPos..MaxPos -> Keys \cup {NUL, NL}] /\ command_buf[MaxPos] = NUL
      /\ doc_buf \in [MinPos..MaxPos -> Keys \cup {NUL, NL}]
      /\ cursor_pos \in MinPos..MaxPos /\ typed \in Seq(Bytes) /\ frames \in Seq(Frame)
  BY DEF TypeInv, Storage, Text
<1>1. CASE Type
  <2>1. PICK c \in Keys :
          /\ command_buf' = [command_buf EXCEPT ![cursor_pos] = c]
          /\ typed' = Append(typed, c) /\ odd' = (odd \/ c = NUL)
    BY <1>1 DEF Type
  <2>2. cursor_pos < MaxPos /\ cursor_pos' = cursor_pos + 1
    BY <1>1 DEF Type
  <2>3. typed' \in Seq(Bytes)
    BY <1>t, <2>1, KeysType
  <2>4. Storage'
    BY <1>1, <1>m, <1>t, <2>1, <2>2, <2>3 DEF Type, Storage, Text
  <2>5. Modes'
    BY <1>1, <2>1 DEF Type, TypeInv, Modes, argVars, folderVars, promptVars
  <2>6. Pointers'
    BY <1>1, ShapeUnchanged, PointersKept DEF Type, TypeInv, argVars
  <2> QED BY <1>1, <2>4, <2>5, <2>6, LoopsUnchanged DEF Type, TypeInv
<1>2. CASE EditorType
  <2>1. PICK c \in EditorKeys :
          /\ doc_buf' = [doc_buf EXCEPT ![cursor_pos] = c]
          /\ typed' = Append(typed, c) /\ odd' = (odd \/ c = NUL)
    BY <1>2 DEF EditorType
  <2>2. cursor_pos < MaxPos /\ cursor_pos' = cursor_pos + 1
    BY <1>2 DEF EditorType
  <2>3. typed' \in Seq(Bytes)
    BY <1>t, <2>1, KeysType
  <2>4. doc_buf' \in [MinPos..MaxPos -> Keys \cup {NUL, NL}]
    BY <1>t, <2>1, KeysType
  <2>5. Storage'
    BY <1>2, <1>m, <1>t, <2>2, <2>3, <2>4 DEF EditorType, Storage, Text
  <2>6. Modes'
    BY <1>2, <2>1 DEF EditorType, TypeInv, Modes, argVars, folderVars, promptVars
  <2>7. Pointers'
    BY <1>2, ShapeUnchanged, PointersKept DEF EditorType, TypeInv, argVars
  <2> QED BY <1>2, <2>5, <2>6, <2>7, LoopsUnchanged DEF EditorType, TypeInv
<1>3. CASE Backspace
  <2>1. /\ command_buf' = [command_buf EXCEPT ![cursor_pos - 1] = SP]
        /\ cursor_pos' = cursor_pos - 1 /\ cursor_pos > MinPos
        /\ typed' = IF typed = << >> THEN typed ELSE SubSeq(typed, 1, Len(typed) - 1)
    BY <1>3 DEF Backspace
  <2>2. typed' \in Seq(Bytes)
    BY <1>t, <2>1, WithoutLast
  <2>3. /\ command_buf' \in [MinPos..MaxPos -> Keys \cup {NUL, NL}]
        /\ command_buf'[MaxPos] = NUL
    BY <1>m, <1>t, <2>1, KeysType
  <2>4. Storage'
    BY <1>3, <1>m, <1>t, <2>1, <2>2, <2>3 DEF Backspace, Storage, Text
  <2>5. Modes'
    BY <1>3, <1>m, <1>t DEF Backspace, TypeInv, Modes, argVars, folderVars, promptVars
  <2>6. Pointers'
    BY <1>3, ShapeUnchanged, PointersKept DEF Backspace, TypeInv, argVars
  <2> QED BY <1>3, <2>4, <2>5, <2>6, LoopsUnchanged DEF Backspace, TypeInv
<1>4. CASE F1
  <2>0. /\ UNCHANGED <<doc_buf, spilled, frames, folderVars>> /\ pc' \in {"idle", "halted"}
        /\ \/ cmd_cleanup(0, bash_mode)
           \/ UNCHANGED <<command_buf, cursor_pos, prompts, typed, odd>>
    BY <1>4 DEF F1
  <2>a. ASSUME cmd_cleanup(0, bash_mode) PROVE Storage'
    BY <2>0, <2>a, CleanupType DEF TypeInv, Storage
  <2>b. ASSUME UNCHANGED <<command_buf, cursor_pos, prompts, typed, odd>> PROVE Storage'
    BY <2>0, <2>b DEF TypeInv, Storage
  <2>1. Storage'
    BY <2>0, <2>a, <2>b
  <2>2. prompts' \in 0..2 /\ odd' \in BOOLEAN
    BY <2>0, CleanupType DEF TypeInv, Modes
  <2>3. Modes'
    BY <1>4, <2>0, <2>2 DEF F1, TypeInv, Modes, argVars, folderVars
  <2>4. Pointers'
    BY <1>4, ShapeUnchanged, PointersKept DEF F1, TypeInv, argVars
  <2> QED BY <1>4, <2>1, <2>3, <2>4, LoopsUnchanged DEF F1, TypeInv
<1>5. CASE Enter
  <2>0. /\ UNCHANGED <<cursor_pos, doc_buf, editor_mode, typed, spilled, bash_mode, folderVars>>
        /\ prompts' \in 0..2 /\ nested' \in BOOLEAN
    <3>1. nested' \in BOOLEAN
      BY <1>5, Zenon DEF Enter
    <3> QED BY <1>5, <3>1 DEF Enter
  <2>1. CASE /\ ExecWords(0, 0, command_buf) /\ command_buf' = Split(command_buf)
             /\ UNCHANGED <<frames, odd>>
    <3>1. Storage'
      BY <2>0, <2>1, <1>t, LineSplit DEF TypeInv, Storage
    <3>2. \A p \in 0..MaxPos : Live(<<0, 0, p>>)'
      BY DEF Live
    <3>3. Pointers' /\ argc' \in 0..MAX_ARGS
      BY <2>1, <3>2, LineTerminated, ShapeUnchanged, PointersParsed DEF ExecWords, TypeInv
    <3>4. Modes'
      BY <2>0, <2>1, <3>3 DEF ExecWords, TypeInv, Modes, folderVars
    <3> QED BY <2>1, <3>1, <3>3, <3>4, LoopsUnchanged DEF TypeInv
  <2>2. CASE ExecLoop(command_buf) /\ UNCHANGED <<command_buf, odd>>
    <3>1. PICK s \in AfterSemicolon(command_buf) : frames' = Append(frames, LoopFrame(s))
      BY <2>2 DEF ExecLoop
    <3>2. s \in Seq(Letters)
      BY LineTerminated, AfterSemicolonType DEF TypeInv
    <3>3. frames' \in Seq(Frame) /\ frames' # << >> /\ ShapeKept
      BY <1>t, <3>1, <3>2, NewFrames, Pushed
    <3>4. Storage'
      BY <2>0, <2>2, <1>t, <3>3 DEF TypeInv, Storage
    <3>5. Modes'
      BY <2>0, <2>2, <3>3 DEF ExecLoop, TypeInv, Modes, folderVars, argVars
    <3>6. Pointers'
      BY <2>2, <3>3, PointersKept DEF ExecLoop, TypeInv, argVars
    <3>7. Loops'
      BY <3>1, <3>2, NewFrames, LoopsPushed DEF TypeInv
    <3> QED BY <3>4, <3>5, <3>6, <3>7 DEF TypeInv
  <2>3. CASE odd' \in BOOLEAN /\ UNCHANGED <<pc, command_buf, frames, argVars>>
    <3>1. Storage'
      BY <2>0, <2>3, <1>t DEF TypeInv, Storage
    <3>2. Modes'
      BY <2>0, <2>3 DEF TypeInv, Modes, folderVars, argVars
    <3>3. Pointers'
      BY <2>3, ShapeUnchanged, PointersKept DEF TypeInv, argVars
    <3> QED BY <2>3, <3>1, <3>2, <3>3, LoopsUnchanged DEF TypeInv
  <2> QED BY <1>5, <2>1, <2>2, <2>3 DEF Enter
<1> QED BY <1>1, <1>2, <1>3, <1>4, <1>5 DEF Key

\* A step of a script or a loop types nothing.
Untouched == UNCHANGED <<keyboardVars, bash_mode, folderVars, promptVars>>

LEMMA TypeResumed ==
  ASSUME TypeInv, Untouched, frames' \in Seq(Frame), frames' # << >>, Loops', Pointers',
         argc' \in 0..MAX_ARGS, pc' \in {"run", "next"}
  PROVE  TypeInv'
<1>1. Storage'
  BY DEF TypeInv, Storage, Untouched, keyboardVars
<1>2. Modes'
  BY DEF TypeInv, Modes, Untouched, keyboardVars, folderVars, promptVars
<1> QED BY <1>1, <1>2 DEF TypeInv

\* One string of the innermost frame is rewritten, by a string as long.
LEMMA RewrittenInv ==
  ASSUME TypeInv, frames # << >>, NEW l \in DOMAIN Top.data, NEW b \in Strings,
         DOMAIN b = DOMAIN Top.data[l], NEW m \in Nat, frames' = Rewrite(l, b, m)
  PROVE  frames' \in Seq(Frame) /\ frames' # << >> /\ ShapeKept /\ Loops'
<1> DEFINE g == Rewrite(l, b, m)
<1>1. /\ g \in Seq(Frame) /\ Len(g) = Len(frames) /\ g # << >>
      /\ \A k \in DOMAIN frames :
           /\ g[k].kind = frames[k].kind /\ DOMAIN g[k].data = DOMAIN frames[k].data
           /\ \A j \in DOMAIN frames[k].data : DOMAIN g[k].data[j] = DOMAIN frames[k].data[j]
  BY Rewritten DEF TypeInv, Storage
<1> HIDE DEF g
<1>g. frames' = g
  BY DEF g
<1>2. DOMAIN g = DOMAIN frames
  BY <1>1 DEF TypeInv, Storage
<1>3. ShapeKept
  BY <1>1, <1>2, <1>g DEF ShapeKept
<1>4. Loops'
  BY <1>1, <1>2, <1>g DEF Loops, TypeInv
<1> QED BY <1>1, <1>3, <1>4, <1>g

\* A string of the innermost frame is rewritten and its words are parsed.
LEMMA TypeParsed ==
  ASSUME TypeInv, Untouched, frames # << >>, NEW l \in DOMAIN Top.data, NEW m \in Nat,
         frames' = Rewrite(l, Split(Top.data[l]), m),
         ExecWords(Len(frames), l, Top.data[l])
  PROVE  TypeInv'
<1> DEFINE b == Top.data[l]
<1>1. b \in Strings /\ l \in Nat /\ Len(frames) \in DOMAIN frames /\ Len(frames) \in Nat
  BY TopTyped DEF TypeInv, Storage
<1>2. Split(b) \in Strings /\ DOMAIN Split(b) = DOMAIN b
  BY <1>1, SplitString
<1>3. frames' \in Seq(Frame) /\ frames' # << >> /\ ShapeKept /\ Loops'
  BY <1>2, RewrittenInv
<1>4. PICK n \in Nat : Terminated(b, n) /\ DOMAIN b = 0..n
  BY <1>1, StringIsTerminated
<1>f. PICK f \in Nat : f = Len(frames)
  BY <1>1
<1>5. \A p \in 0..n : Live(<<f, l, p>>)'
  <2>1. f \in DOMAIN frames' /\ l \in DOMAIN frames'[f].data /\ DOMAIN frames'[f].data[l] = 0..n
    BY <1>1, <1>3, <1>4, <1>f DEF ShapeKept, Top
  <2> QED BY <2>1 DEF Live
<1>p. Parse(f, l, b) /\ Pointers
  BY <1>f DEF ExecWords, TypeInv
<1>6. Pointers' /\ argc' \in 0..MAX_ARGS
  <2> HIDE DEF b
  <2> QED BY <1>1, <1>p, <1>3, <1>4, <1>5, PointersParsed
<1> QED BY <1>3, <1>6, TypeResumed DEF ExecWords

LEMMA TypeNextLine == TypeInv /\ NextLine => TypeInv'
<1> SUFFICES ASSUME TypeInv, NextLine PROVE TypeInv'
  OBVIOUS
<1> USE DEF argVars
<1>0. frames # << >> /\ Untouched /\ pc = "next" /\ frames \in Seq(Frame) /\ argc \in 0..MAX_ARGS
  BY DEF NextLine, TypeInv, Modes, Storage, Untouched
<1>1. PICK l \in LinesLeft :
        \/ /\ ExecWords(Len(frames), l, Top.data[l])
           /\ frames' = Advanced(l, Split(Top.data[l]))
        \/ /\ \E s \in AfterSemicolon(Top.data[l]) :
                frames' = Append(Advanced(l, Top.data[l]), LoopFrame(s))
           /\ UNCHANGED <<pc, argVars>>
        \/ frames' = Advanced(l, Top.data[l]) /\ UNCHANGED <<pc, argVars>>
  BY DEF NextLine
<1>2. l \in DOMAIN Top.data /\ l \in Nat /\ Top.data[l] \in Strings
  BY <1>0, TopTyped DEF LinesLeft
<1>r. \A b : Advanced(l, b) = Rewrite(l, b, l + 1)
  BY DEF Advanced, Rewrite
<1>3. CASE /\ ExecWords(Len(frames), l, Top.data[l])
           /\ frames' = Advanced(l, Split(Top.data[l]))
  BY <1>0, <1>2, <1>3, <1>r, TypeParsed
<1>4. CASE frames' = Advanced(l, Top.data[l]) /\ UNCHANGED <<pc, argVars>>
  <2>1. frames' \in Seq(Frame) /\ frames' # << >> /\ ShapeKept /\ Loops'
    BY <1>0, <1>2, <1>4, <1>r, RewrittenInv
  <2>2. Pointers'
    BY <1>4, <2>1, PointersKept DEF TypeInv
  <2> QED BY <1>0, <1>4, <2>1, <2>2, TypeResumed
<1>5. CASE /\ \E s \in AfterSemicolon(Top.data[l]) :
                frames' = Append(Advanced(l, Top.data[l]), LoopFrame(s))
           /\ UNCHANGED <<pc, argVars>>
  <2> DEFINE g == Advanced(l, Top.data[l])
  <2>1. PICK s \in AfterSemicolon(Top.data[l]) : frames' = Append(g, LoopFrame(s))
    BY <1>5
  <2>2. s \in Seq(Letters)
    BY <1>2, StringIsTerminated, AfterSemicolonType
  <2>3. LoopFrame(s) \in Frame /\ 1 \in DOMAIN LoopFrame(s).data
    BY <2>2, NewFrames
  <2>4. /\ g \in Seq(Frame) /\ Len(g) = Len(frames) /\ g # << >>
        /\ \A k \in DOMAIN frames :
             /\ g[k].kind = frames[k].kind /\ DOMAIN g[k].data = DOMAIN frames[k].data
             /\ \A j \in DOMAIN frames[k].data : DOMAIN g[k].data[j] = DOMAIN frames[k].data[j]
    BY <1>0, <1>2, <1>r, Rewritten
  <2> HIDE DEF g
  <2>5. /\ frames' \in Seq(Frame) /\ frames' # << >>
        /\ Len(frames') = Len(g) + 1 /\ frames'[Len(g) + 1] = LoopFrame(s)
        /\ \A k \in DOMAIN frames : k \in DOMAIN frames' /\ frames'[k] = g[k]
    BY <1>0, <2>1, <2>3, <2>4
  <2>6. ShapeKept
    BY <2>4, <2>5 DEF ShapeKept
  <2>7. Loops'
    <3>1. \A k \in DOMAIN frames' : k \in DOMAIN frames \/ k = Len(g) + 1
      BY <1>0, <2>4, <2>5
    <3> QED BY <2>3, <2>4, <2>5, <3>1 DEF Loops, TypeInv
  <2>8. Pointers'
    BY <1>5, <2>6, PointersKept DEF TypeInv
  <2> QED BY <1>0, <1>5, <2>5, <2>7, <2>8, TypeResumed
<1> QED BY <1>1, <1>3, <1>4, <1>5

LEMMA TypeLoopStep == TypeInv /\ LoopStep => TypeInv'
<1> SUFFICES ASSUME TypeInv, LoopStep PROVE TypeInv'
  OBVIOUS
<1> USE DEF argVars
<1> DEFINE b == Top.data[1]
<1>0. /\ frames # << >> /\ Untouched /\ pc = "next" /\ frames \in Seq(Frame)
      /\ argc \in 0..MAX_ARGS /\ Top.kind = "loop"
  BY DEF LoopStep, TypeInv, Modes, Storage, Untouched
<1>1. 1 \in DOMAIN Top.data /\ b \in Strings /\ Top.next \in Nat
  <2>1. 1 \in DOMAIN Top.data /\ Top \in Frame
    BY <1>0, TopTyped DEF TypeInv, Loops, Top
  <2> QED BY <1>0, <2>1, TopTyped DEF Frame
<1>2. CASE /\ ExecWords(Len(frames), 1, b)
           /\ frames' = [frames EXCEPT ![Len(frames)].data[1] = Split(b)]
  <2>1. Split(b) \in Strings
    BY <1>1, SplitString
  <2>2. frames' = Rewrite(1, Split(b), Top.next)
    BY <1>0, <1>1, <1>2, <2>1, Looped
  <2> QED BY <1>0, <1>1, <1>2, <2>2, TypeParsed
<1>3. CASE ExecLoop(b)
  <2>1. PICK s \in AfterSemicolon(b) : frames' = Append(frames, LoopFrame(s))
    BY <1>3 DEF ExecLoop
  <2>2. s \in Seq(Letters)
    BY <1>1, StringIsTerminated, AfterSemicolonType
  <2>3. frames' \in Seq(Frame) /\ frames' # << >> /\ ShapeKept
    BY <1>0, <2>1, <2>2, NewFrames, Pushed
  <2>4. Loops'
    BY <2>1, <2>2, NewFrames, LoopsPushed DEF TypeInv
  <2>5. Pointers'
    BY <1>3, <2>3, PointersKept DEF ExecLoop, TypeInv
  <2> QED BY <1>0, <1>3, <2>3, <2>4, <2>5, TypeResumed DEF ExecLoop
<1>4. CASE UNCHANGED <<pc, frames, argVars>>
  <2>1. Pointers' /\ Loops'
    BY <1>4, ShapeUnchanged, PointersKept, LoopsUnchanged DEF TypeInv
  <2> QED BY <1>0, <1>4, <2>1, TypeResumed
<1> QED BY <1>2, <1>3, <1>4 DEF LoopStep

\* A pointer into the frame that goes is Dead, the others stay.
LEMMA PointersPopped ==
  ASSUME TypeInv, frames # << >>, frames' = SubSeq(frames, 1, Len(frames) - 1),
         argv' = [k \in DOMAIN argv |-> IF argv[k][1] = Len(frames) THEN Dead ELSE argv[k]]
  PROVE  frames' \in Seq(Frame) /\ Pointers' /\ Loops'
<1>0. frames \in Seq(Frame) /\ DOMAIN argv = 0..(MAX_ARGS - 1)
  BY DEF TypeInv, Storage, Pointers
<1>1. /\ frames' \in Seq(Frame) /\ Len(frames') = Len(frames) - 1
      /\ \A k \in 1..(Len(frames) - 1) : frames'[k] = frames[k]
      /\ Len(frames) \in Nat /\ Len(frames) > 0
  BY <1>0, WithoutLast
<1>2. /\ DOMAIN frames' = 1..(Len(frames) - 1) /\ DOMAIN frames = 1..Len(frames)
      /\ \A k \in DOMAIN frames' : k \in DOMAIN frames /\ frames'[k] = frames[k]
      /\ \A k \in DOMAIN frames : k # Len(frames) => k \in DOMAIN frames'
  BY <1>0, <1>1
<1>3. Loops'
  BY <1>2 DEF Loops, TypeInv
<1>4. ASSUME NEW k \in 0..(MAX_ARGS - 1)
      PROVE  argv'[k] \in {Null, Dead} \/ Live(argv[k])'
  <2>1. CASE argv[k][1] = Len(frames)
    BY <1>0, <2>1
  <2>2. CASE argv[k][1] # Len(frames)
    <3>1. argv'[k] = argv[k]
      BY <1>0, <2>2
    <3>2. argv[k] \in {Null, Dead} \/ Live(argv[k])
      BY DEF TypeInv, Pointers
    <3> QED BY <1>2, <2>2, <3>1, <3>2 DEF Live
  <2> QED BY <2>1, <2>2
<1>5. argv' \in [0..(MAX_ARGS - 1) -> Int \X Int \X Int]
  BY <1>0 DEF TypeInv, Pointers, Dead
<1>6. ASSUME argv'[0] = Null PROVE \A k \in 0..(MAX_ARGS - 1) : argv'[k] = Null
  <2>1. 0 \in 0..(MAX_ARGS - 1)
    BY ShellAssumption
  <2>2. argv[0] = Null
    BY <1>0, <1>6, <2>1 DEF Null, Dead
  <2>3. \A k \in 0..(MAX_ARGS - 1) : argv[k] = Null
    BY <2>2 DEF TypeInv, Pointers
  <2>4. Null[1] # Len(frames)
    BY <1>1 DEF Null
  <2> QED BY <1>0, <2>3, <2>4
<1> QED BY <1>1, <1>3, <1>4, <1>5, <1>6 DEF Pointers

LEMMA TypeScriptEnd == TypeInv /\ ScriptEnd => TypeInv'
<1> SUFFICES ASSUME TypeInv, ScriptEnd PROVE TypeInv'
  OBVIOUS
<1>0. frames # << >> /\ pc = "next" /\ frames \in Seq(Frame)
  BY DEF ScriptEnd, TypeInv, Modes, Storage
<1>1. frames' \in Seq(Frame) /\ Pointers' /\ Loops'
  BY <1>0, PointersPopped DEF ScriptEnd
<1>2. /\ command_buf' \in Text /\ command_buf'[MaxPos] = NUL
      /\ cursor_pos' \in MinPos..MaxPos /\ typed' \in Seq(Bytes)
      /\ prompts' \in 0..2 /\ odd' \in BOOLEAN
  BY CleanupType DEF ScriptEnd, TypeInv
<1>3. Storage'
  BY <1>1, <1>2 DEF ScriptEnd, TypeInv, Storage
<1>4. /\ pc' \in {"idle", "next"}
      /\ pc' = "idle" => frames' = << >>
      /\ pc' = "next" => frames' # << >>
  <2>1. Len(frames') = Len(frames) - 1 /\ Len(frames) \in Nat /\ frames' \in Seq(Frame)
    BY <1>0, <1>1, WithoutLast DEF ScriptEnd
  <2>2. pc' = IF Len(frames) = 1 THEN "idle" ELSE "next"
    BY DEF ScriptEnd, Caller
  <2>3. frames' = << >> <=> Len(frames') = 0
    BY <2>1
  <2> QED BY <2>1, <2>2, <2>3
<1>5. Modes'
  BY <1>2, <1>4 DEF ScriptEnd, TypeInv, Modes, folderVars
<1> QED BY <1>1, <1>3, <1>5 DEF TypeInv

LEMMA TypeStep == TypeInv /\ [Next]_vars => TypeInv'
<1> SUFFICES ASSUME TypeInv, [Next]_vars PROVE TypeInv'
  OBVIOUS
<1>1. CASE UNCHANGED vars
  <2>1. UNCHANGED <<pc, keyboardVars, argVars, frames, bash_mode, folderVars, promptVars>>
    BY <1>1 DEF vars
  <2>2. Storage' /\ Modes'
    BY <2>1 DEF TypeInv, Storage, Modes, keyboardVars, argVars, folderVars, promptVars
  <2>3. Pointers' /\ Loops'
    BY <2>1, ShapeUnchanged, PointersKept, LoopsUnchanged DEF TypeInv, argVars
  <2> QED BY <2>2, <2>3 DEF TypeInv
<1>2. CASE Next
  BY <1>2, TypeKey, TypeRun, TypeNextLine, TypeScriptEnd, TypeLoopStep DEF Next, Kernel
<1> QED BY <1>1, <1>2

LEMMA TypeSafe == Spec => []TypeInv
BY TypeInit, TypeStep, PTL DEF Spec

\* What the kernel keeps has its types, whatever is typed and whatever the scripts
\* hold: the pointers of argv above all lead to a byte of command_buf or of a script
\* that is still on the stack, or are known to be dead.
THEOREM ShellTypeCorrect == Spec => []TypeOK
<1>1. TypeInv => TypeOK
  BY DEF TypeInv, Storage, Modes, Pointers, TypeOK
<1> QED BY <1>1, TypeSafe, PTL

-----------------------------------------------------------------------------
(* Which scripts and loops are running.                                    *)

KindsKept ==
  DOMAIN frames' = DOMAIN frames /\ \A k \in DOMAIN frames : frames'[k].kind = frames[k].kind

KindPushed(kind) ==
  /\ DOMAIN frames' = 1..(Len(frames) + 1) /\ frames'[Len(frames) + 1].kind = kind
  /\ \A k \in DOMAIN frames : frames'[k].kind = frames[k].kind

KindPopped ==
  /\ frames # << >> /\ DOMAIN frames' = 1..(Len(frames) - 1)
  /\ \A k \in DOMAIN frames' : frames'[k].kind = frames[k].kind

LEMMA RunningType ==
  ASSUME frames \in Seq(Frame), NEW kind
  PROVE  /\ IsFiniteSet(Running(kind)) /\ Cardinality(Running(kind)) \in Nat
         /\ Running(kind) \subseteq 1..Len(frames)
         /\ DOMAIN frames = 1..Len(frames) /\ Len(frames) \in Nat
<1>1. DOMAIN frames = 1..Len(frames) /\ Len(frames) \in Nat
  OBVIOUS
<1>2. Running(kind) \subseteq 1..Len(frames)
  BY <1>1 DEF Running
<1>3. IsFiniteSet(1..Len(frames))
  BY <1>1, FS_Interval
<1> QED BY <1>1, <1>2, <1>3, FS_Subset, FS_CardinalityType

LEMMA RunningKept ==
  ASSUME KindsKept, NEW kind
  PROVE  Running(kind)' = Running(kind)
BY DEF KindsKept, Running

LEMMA RunningPushed ==
  ASSUME frames \in Seq(Frame), NEW kind, NEW other, KindPushed(other)
  PROVE  Running(kind)' = IF kind = other THEN Running(kind) \cup {Len(frames) + 1}
                          ELSE Running(kind)
<1>1. DOMAIN frames' = DOMAIN frames \cup {Len(frames) + 1} /\ Len(frames) + 1 \notin DOMAIN frames
  BY RunningType DEF KindPushed
<1> QED BY <1>1 DEF KindPushed, Running

LEMMA RunningPopped ==
  ASSUME frames \in Seq(Frame), NEW kind, KindPopped
  PROVE  Running(kind)' \subseteq Running(kind)
<1>1. DOMAIN frames' \subseteq DOMAIN frames
  BY RunningType DEF KindPopped
<1> QED BY <1>1 DEF KindPopped, Running

LEMMA KindsOfPush ==
  ASSUME frames \in Seq(Frame), NEW x \in Frame, frames' = Append(frames, x)
  PROVE  KindPushed(x.kind)
<1>1. frames' \in Seq(Frame) /\ Len(frames') = Len(frames) + 1 /\ frames'[Len(frames) + 1] = x
      /\ \A k \in DOMAIN frames : frames'[k] = frames[k]
  BY Pushed
<1>2. DOMAIN frames' = 1..Len(frames')
  BY <1>1
<1> QED BY <1>1, <1>2 DEF KindPushed

LEMMA KindsOfRewrite ==
  ASSUME frames \in Seq(Frame), frames # << >>, NEW l \in DOMAIN Top.data, NEW b \in Strings,
         DOMAIN b = DOMAIN Top.data[l], NEW m \in Nat, NEW g, g = Rewrite(l, b, m)
  PROVE  /\ DOMAIN g = DOMAIN frames /\ Len(g) = Len(frames) /\ g \in Seq(Frame)
         /\ \A k \in DOMAIN frames : g[k].kind = frames[k].kind
<1>1. /\ g \in Seq(Frame) /\ Len(g) = Len(frames)
      /\ \A k \in DOMAIN frames : g[k].kind = frames[k].kind
  BY Rewritten
<1> QED BY <1>1

LEMMA KindsStep ==
  ASSUME TypeInv
  PROVE  /\ NextLine \/ LoopStep \/ Enter => KindsKept \/ KindPushed("loop")
         /\ ScriptEnd => KindPopped
         /\ IslRun => /\ nested' = (nested \/ Running("script") # {})
                      /\ \/ /\ Cardinality(Running("script")) < StackFrames
                            /\ KindPushed("script") /\ pc' = "next"
                         \/ /\ ~(Cardinality(Running("script")) < StackFrames)
                            /\ KindsKept /\ pc' = "halted"
<1>0. frames \in Seq(Frame)
  BY DEF TypeInv, Storage
<1>k. UNCHANGED frames => KindsKept
  BY DEF KindsKept
<1>l. ASSUME NEW b, ExecLoop(b), \E n : Terminated(b, n) PROVE KindPushed("loop")
  <2>1. PICK s \in AfterSemicolon(b) : frames' = Append(frames, LoopFrame(s))
    BY <1>l DEF ExecLoop
  <2>2. s \in Seq(Letters)
    BY <1>l, AfterSemicolonType
  <2>3. LoopFrame(s) \in Frame /\ LoopFrame(s).kind = "loop"
    BY <2>2, NewFrames
  <2>4. KindPushed(LoopFrame(s).kind)
    BY <1>0, <2>1, <2>3, KindsOfPush
  <2> QED BY <2>3, <2>4
<1>1. ASSUME NextLine PROVE KindsKept \/ KindPushed("loop")
  <2>0. frames # << >>
    BY <1>1 DEF NextLine, TypeInv, Modes
  <2>1. PICK l \in LinesLeft :
          \/ frames' = Advanced(l, Split(Top.data[l]))
          \/ \E s \in AfterSemicolon(Top.data[l]) :
               frames' = Append(Advanced(l, Top.data[l]), LoopFrame(s))
          \/ frames' = Advanced(l, Top.data[l])
    BY <1>1 DEF NextLine
  <2>2. l \in DOMAIN Top.data /\ l \in Nat /\ Top.data[l] \in Strings
    BY <1>0, <2>0, TopTyped DEF LinesLeft
  <2>3. ASSUME NEW b \in Strings, DOMAIN b = DOMAIN Top.data[l]
        PROVE  /\ DOMAIN Advanced(l, b) = DOMAIN frames /\ Len(Advanced(l, b)) = Len(frames)
               /\ Advanced(l, b) \in Seq(Frame)
               /\ \A k \in DOMAIN frames : Advanced(l, b)[k].kind = frames[k].kind
    <3>1. Advanced(l, b) = Rewrite(l, b, l + 1) /\ l + 1 \in Nat
      BY <2>2 DEF Advanced, Rewrite
    <3> QED BY <1>0, <2>0, <2>2, <2>3, <3>1, KindsOfRewrite
  <2>4. CASE frames' = Advanced(l, Split(Top.data[l]))
    BY <2>2, <2>3, <2>4, SplitString DEF KindsKept
  <2>5. CASE frames' = Advanced(l, Top.data[l])
    BY <2>2, <2>3, <2>5 DEF KindsKept
  <2>6. CASE \E s \in AfterSemicolon(Top.data[l]) :
               frames' = Append(Advanced(l, Top.data[l]), LoopFrame(s))
    <3> DEFINE g == Advanced(l, Top.data[l])
    <3>1. PICK s \in AfterSemicolon(Top.data[l]) : frames' = Append(g, LoopFrame(s))
      BY <2>6
    <3>2. LoopFrame(s) \in Frame /\ LoopFrame(s).kind = "loop"
      BY <2>2, StringIsTerminated, AfterSemicolonType, NewFrames
    <3>3. /\ DOMAIN g = DOMAIN frames /\ Len(g) = Len(frames) /\ g \in Seq(Frame)
          /\ \A k \in DOMAIN frames : g[k].kind = frames[k].kind
      BY <2>2, <2>3
    <3> HIDE DEF g
    <3>4. /\ DOMAIN frames' = 1..(Len(g) + 1) /\ frames'[Len(g) + 1] = LoopFrame(s)
          /\ \A k \in DOMAIN g : frames'[k] = g[k]
      BY <3>1, <3>2, <3>3
    <3> QED BY <3>2, <3>3, <3>4 DEF KindPushed
  <2> QED BY <2>1, <2>4, <2>5, <2>6
<1>2. ASSUME LoopStep PROVE KindsKept \/ KindPushed("loop")
  <2>0. frames # << >> /\ Top.kind = "loop"
    BY <1>2 DEF LoopStep, TypeInv, Modes
  <2>1. 1 \in DOMAIN Top.data /\ Top.data[1] \in Strings /\ Top.next \in Nat
    <3>1. 1 \in DOMAIN Top.data /\ Top \in Frame
      BY <1>0, <2>0, TopTyped DEF TypeInv, Loops, Top
    <3> QED BY <1>0, <2>0, <3>1, TopTyped DEF Frame
  <2>2. CASE frames' = [frames EXCEPT ![Len(frames)].data[1] = Split(Top.data[1])]
    <3>1. Split(Top.data[1]) \in Strings /\ DOMAIN Split(Top.data[1]) = DOMAIN Top.data[1]
      BY <2>1, SplitString
    <3>2. frames' = Rewrite(1, Split(Top.data[1]), Top.next)
      BY <1>0, <2>0, <2>1, <2>2, <3>1, Looped
    <3>3. /\ DOMAIN frames' = DOMAIN frames
          /\ \A k \in DOMAIN frames : frames'[k].kind = frames[k].kind
      BY <1>0, <2>0, <2>1, <3>1, <3>2, KindsOfRewrite
    <3> QED BY <3>3 DEF KindsKept
  <2>3. CASE ExecLoop(Top.data[1])
    BY <1>l, <2>1, <2>3, StringIsTerminated
  <2> QED BY <1>2, <1>k, <2>2, <2>3 DEF LoopStep
<1>3. ASSUME Enter PROVE KindsKept \/ KindPushed("loop")
  <2>1. CASE ExecLoop(command_buf)
    BY <1>l, <2>1, LineTerminated DEF TypeInv
  <2> QED BY <1>3, <1>k, <2>1 DEF Enter
<1>4. ASSUME ScriptEnd PROVE KindPopped
  <2>0. frames # << >>
    BY <1>4 DEF ScriptEnd, TypeInv, Modes
  <2>1. /\ frames' \in Seq(Frame) /\ Len(frames') = Len(frames) - 1
        /\ \A k \in 1..(Len(frames) - 1) : frames'[k] = frames[k]
    BY <1>0, <1>4, <2>0, WithoutLast DEF ScriptEnd
  <2>2. DOMAIN frames' = 1..Len(frames')
    BY <2>1
  <2> QED BY <2>0, <2>1, <2>2 DEF KindPopped
<1>5. ASSUME IslRun
      PROVE  /\ nested' = (nested \/ Running("script") # {})
             /\ \/ /\ Cardinality(Running("script")) < StackFrames
                   /\ KindPushed("script") /\ pc' = "next"
                \/ /\ ~(Cardinality(Running("script")) < StackFrames)
                   /\ KindsKept /\ pc' = "halted"
  <2>1. ASSUME NEW s \in Scripts, frames' = Append(frames, ScriptFrame(s))
        PROVE  KindPushed("script")
    <3>1. ScriptFrame(s) \in Frame /\ ScriptFrame(s).kind = "script"
      BY NewFrames
    <3>2. KindPushed(ScriptFrame(s).kind)
      BY <1>0, <2>1, <3>1, KindsOfPush
    <3> QED BY <3>1, <3>2
  <2> QED BY <1>5, <1>k, <2>1 DEF IslRun
<1> QED BY <1>1, <1>2, <1>3, <1>4, <1>5

-----------------------------------------------------------------------------
(* The ways to stop.                                                       *)

\* argv[0] is null only until a line with a word in it has been parsed.
WordKept == argv[0] = Null => ~worded

HaltInv == HaltsOnlySo /\ Cardinality(Running("script")) <= StackFrames /\ WordKept

\* parse_command sets argv[0] when there is a word, and leaves it alone otherwise.
LEMMA WordsParsed ==
  ASSUME NEW f \in Nat, NEW l, NEW n, NEW b, Terminated(b, n), ExecWords(f, l, b),
         DOMAIN argv = 0..(MAX_ARGS - 1), WordKept
  PROVE  WordKept'
<1>1. n \in Nat /\ 0 \in 0..(MAX_ARGS - 1)
  BY ShellAssumption DEF Terminated
<1>2. IsFiniteSet(Starts(b)) /\ Cardinality(Starts(b)) \in Nat
  BY <1>1, StrLenIs, BelowFinite
<1>3. argv'[0] = IF 0 < Cardinality(Starts(b)) THEN <<f, l, Nth(Starts(b), 0)>> ELSE argv[0]
  BY <1>1 DEF ExecWords, Parse
<1>4. worded' <=> worded \/ Starts(b) # {}
  BY DEF ExecWords
<1>5. CASE Starts(b) = {}
  <2>1. Cardinality(Starts(b)) = 0
    BY <1>5, FS_EmptySet
  <2>2. argv'[0] = argv[0]
    BY <1>3, <2>1
  <2> QED BY <1>4, <1>5, <2>2 DEF WordKept
<1>6. CASE Starts(b) # {}
  <2>1. 0 < Cardinality(Starts(b))
    BY <1>2, <1>6, FS_EmptySet
  <2>2. argv'[0] = <<f, l, Nth(Starts(b), 0)>>
    BY <1>3, <2>1
  <2>3. argv'[0][1] = f /\ Null[1] = -1
    BY <2>2 DEF Null
  <2>4. argv'[0] # Null
    BY <2>3
  <2> QED BY <2>4 DEF WordKept
<1> QED BY <1>5, <1>6

LEMMA WordStep == TypeInv /\ WordKept /\ [Next]_vars => WordKept'
<1> SUFFICES ASSUME TypeInv, WordKept, [Next]_vars PROVE WordKept'
  OBVIOUS
<1>0. DOMAIN argv = 0..(MAX_ARGS - 1) /\ 0 \in 0..(MAX_ARGS - 1)
  BY ShellAssumption DEF TypeInv, Pointers
<1>1. CASE UNCHANGED argVars
  BY <1>1 DEF argVars, WordKept
<1>2. CASE ExecWords(0, 0, command_buf)
  BY <1>0, <1>2, LineTerminated, WordsParsed DEF TypeInv
<1>3. ASSUME frames # << >>, NEW l \in DOMAIN Top.data, ExecWords(Len(frames), l, Top.data[l])
      PROVE  WordKept'
  <2>1. Top.data[l] \in Strings /\ Len(frames) \in Nat
    BY <1>3, TopTyped DEF TypeInv, Storage
  <2>2. \E n : Terminated(Top.data[l], n)
    BY <2>1, StringIsTerminated
  <2> QED BY <1>0, <1>3, <2>1, <2>2, WordsParsed
<1>4. CASE ScriptEnd
  <2>1. /\ argv'[0] = IF argv[0][1] = Len(frames) THEN Dead ELSE argv[0]
        /\ UNCHANGED worded
    BY <1>0, <1>4 DEF ScriptEnd
  <2>2. Dead[1] = -2 /\ Null[1] = -1
    BY DEF Dead, Null
  <2>3. Dead # Null
    BY <2>2
  <2> QED BY <2>1, <2>3 DEF WordKept
<1>5. CASE Reboot
  BY <1>5 DEF Reboot, WordKept
<1>6. CASE Enter
  BY <1>1, <1>2, <1>6 DEF Enter, ExecLoop
<1>7. CASE NextLine
  <2>1. frames # << >>
    BY <1>7 DEF NextLine, TypeInv, Modes
  <2> QED BY <1>1, <1>3, <1>7, <2>1 DEF NextLine, LinesLeft
<1>8. CASE LoopStep
  <2>1. frames # << >>
    BY <1>8 DEF LoopStep, TypeInv, Modes
  <2>2. 1 \in DOMAIN Top.data
    BY <1>8, <2>1, TopTyped DEF LoopStep, TypeInv, Storage, Loops, Top
  <2> QED BY <1>1, <1>3, <1>8, <2>1, <2>2 DEF LoopStep, ExecLoop
<1>9. CASE Type \/ EditorType \/ Backspace \/ F1
  BY <1>1, <1>9 DEF Type, EditorType, Backspace, F1
<1>10. CASE Plain \/ Fault \/ Edit \/ CdUp \/ CdInto \/ IslRun
  BY <1>1, <1>10 DEF Plain, Fault, Edit, CdUp, CdInto, IslRun, NoEffect
<1>11. CASE UNCHANGED vars
  BY <1>1, <1>11 DEF vars
<1> QED BY <1>4, <1>5, <1>6, <1>7, <1>8, <1>9, <1>10, <1>11 DEF Next, Key, Kernel, Run

\* Only F1 and a handler stop the kernel, and then nothing goes on.
LEMMA OnlyRunHalts ==
  ASSUME TypeInv, Next
  PROVE  pc # "halted" /\ (pc' = "halted" => F1 \/ Fault \/ IslRun)
<1>1. pc # "halted"
  BY DEF Next, Key, Type, EditorType, Backspace, F1, Enter, Kernel, Run, Plain, Fault, Edit, CdUp,
         CdInto, Reboot, IslRun, Command, NextLine, ScriptEnd, LoopStep
<1>2. ASSUME Key, ~F1 PROVE pc' # "halted"
  BY <1>2 DEF Key, Type, EditorType, Backspace, Enter, ExecWords, ExecLoop
<1>3. ASSUME Plain \/ Edit \/ CdUp \/ CdInto \/ Reboot PROVE pc' # "halted"
  BY <1>3 DEF Plain, Edit, CdUp, CdInto, Reboot, Return
<1>4. ASSUME NextLine \/ LoopStep PROVE pc' # "halted"
  BY <1>4 DEF NextLine, LoopStep, ExecWords, ExecLoop
<1>5. ASSUME ScriptEnd PROVE pc' # "halted"
  BY <1>5 DEF ScriptEnd, Caller
<1> QED BY <1>1, <1>2, <1>3, <1>4, <1>5 DEF Next, Kernel, Run

LEMMA HaltInit == Init => HaltInv
<1> SUFFICES ASSUME Init PROVE HaltInv
  OBVIOUS
<1>1. Running("script") = {}
  BY DEF Init, Running
<1>2. Cardinality(Running("script")) <= StackFrames
  <2>1. Cardinality(Running("script")) = 0
    BY <1>1, FS_EmptySet
  <2>2. StackFrames \in Nat
    BY ShellAssumption
  <2> QED BY <2>1, <2>2
<1>3. HaltsOnlySo /\ WordKept
  BY DEF Init, HaltsOnlySo, WordKept
<1> QED BY <1>2, <1>3 DEF HaltInv

\* The frames after a step hold at most the scripts before it, and one more only
\* where isl_run found room.
LEMMA ScriptsStep ==
  ASSUME TypeInv, Next, ~IslRun
  PROVE  Running("script")' \subseteq Running("script")
<1>0. frames \in Seq(Frame)
  BY DEF TypeInv, Storage
<1>1. CASE NextLine \/ LoopStep \/ Enter
  <2>1. KindsKept \/ KindPushed("loop")
    BY <1>1, KindsStep
  <2>2. "script" # "loop"
    OBVIOUS
  <2> QED BY <1>0, <2>1, <2>2, RunningKept, RunningPushed
<1>2. CASE ScriptEnd
  BY <1>0, <1>2, KindsStep, RunningPopped
<1>3. CASE UNCHANGED frames
  BY <1>3 DEF Running
<1>4. CASE Reboot
  BY <1>4 DEF Reboot, Running
<1> QED BY <1>1, <1>2, <1>3, <1>4
        DEF Next, Key, Type, EditorType, Backspace, F1, Kernel, Run, Plain, Fault, Edit, CdUp,
            CdInto, NoEffect

LEMMA HaltStep == TypeInv /\ HaltInv /\ [Next]_vars => HaltInv'
<1> SUFFICES ASSUME TypeInv, HaltInv, [Next]_vars PROVE HaltInv'
  OBVIOUS
<1> DEFINE S == Running("script")
<1>0. frames \in Seq(Frame) /\ DOMAIN argv = 0..(MAX_ARGS - 1)
  BY DEF TypeInv, Storage, Pointers
<1>f. IsFiniteSet(S) /\ Cardinality(S) \in Nat
  BY <1>0, RunningType
<1>w. WordKept'
  BY WordStep DEF HaltInv
<1>1. CASE UNCHANGED vars
  <2>1. UNCHANGED <<pc, worded, saving, nested, frames>>
    BY <1>1 DEF vars, argVars, keyboardVars, promptVars
  <2> QED BY <1>w, <2>1 DEF HaltInv, HaltsOnlySo, Running
<1>2. CASE Next /\ ~IslRun
  <2>1. S' \subseteq S
    BY <1>2, ScriptsStep
  <2>2. Cardinality(S') <= Cardinality(S) /\ Cardinality(S') \in Nat
    <3> HIDE DEF S
    <3>1. IsFiniteSet(S')
      BY <1>f, <2>1, FS_Subset
    <3> QED BY <1>f, <2>1, <3>1, FS_Subset, FS_CardinalityType
  <2>3. ASSUME pc' = "halted" PROVE saving' \/ ~worded'
    <3>1. CASE Fault
      BY <3>1 DEF Fault, NoEffect, argVars, HaltInv, WordKept
    <3>2. CASE F1
      BY <3>2 DEF F1
    <3> QED BY <1>2, <2>3, <3>1, <3>2, OnlyRunHalts
  <2> QED BY <1>f, <1>w, <2>2, <2>3, ShellAssumption DEF HaltInv, HaltsOnlySo
<1>3. CASE IslRun
  <2>1. CASE Cardinality(S) < StackFrames /\ KindPushed("script") /\ pc' = "next"
    <3>1. S' = S \cup {Len(frames) + 1} /\ Len(frames) + 1 \notin S
      BY <1>0, <2>1, RunningPushed, RunningType
    <3>2. Cardinality(S') = Cardinality(S) + 1
      <4> HIDE DEF S
      <4> QED BY <1>f, <3>1, FS_AddElement
    <3>3. Cardinality(S') <= StackFrames
      BY <1>f, <2>1, <3>2, ShellAssumption
    <3> QED BY <1>w, <2>1, <3>3 DEF HaltInv, HaltsOnlySo
  <2>2. CASE ~(Cardinality(S) < StackFrames) /\ KindsKept
    <3>1. S' = S
      BY <2>2, RunningKept
    <3>2. Cardinality(S) = StackFrames
      BY <1>f, <2>2, ShellAssumption DEF HaltInv
    <3>3. Cardinality(S') = StackFrames
      BY <3>1, <3>2
    <3>4. S # {}
      BY <3>2, FS_EmptySet, ShellAssumption
    <3>5. nested'
      BY <1>3, <3>4 DEF IslRun
    <3> QED BY <1>w, <3>3, <3>5, ShellAssumption DEF HaltInv, HaltsOnlySo
  <2> QED BY <1>3, <2>1, <2>2, KindsStep
<1> QED BY <1>1, <1>2, <1>3

\* HaltsOnlySo, for any number of scripts the stack holds: the kernel stops in a
\* save, at a line without a word when none with a word has been parsed, or when
\* scripts that run one another exhaust its stack.
THEOREM ShellHaltsOnlySo == Spec => []HaltsOnlySo
<1>1. TypeInv /\ HaltInv /\ [Next]_vars => TypeInv' /\ HaltInv'
  BY TypeStep, HaltStep
<1>2. HaltInv => HaltsOnlySo
  BY DEF HaltInv
<1> QED BY <1>1, <1>2, TypeInit, HaltInit, PTL DEF Spec

-----------------------------------------------------------------------------
(* The text in the editor.                                                 *)

\* A step that leaves the editor's variables alone.
LEMMA TextKept ==
  ASSUME TextIsTyped, UNCHANGED <<editor_mode, odd, cursor_pos, typed, doc_buf>>
  PROVE  TextIsTyped'
BY DEF TextIsTyped

\* cmd_cleanup begins an empty text.
LEMMA TextCleaned ==
  ASSUME NEW e, NEW b, cmd_cleanup(e, b)
  PROVE  TextIsTyped'
BY DEF cmd_cleanup, TextIsTyped

LEMMA TextKey == TypeInv /\ TextIsTyped /\ Key => TextIsTyped'
<1> SUFFICES ASSUME TypeInv, TextIsTyped, Key PROVE TextIsTyped'
  OBVIOUS
<1>t. /\ doc_buf \in [MinPos..MaxPos -> Keys \cup {NUL, NL}] /\ MinPos \in Int /\ MaxPos \in Nat
      /\ cursor_pos \in MinPos..MaxPos /\ typed \in Seq(Bytes) /\ Len(typed) \in Nat
      /\ odd \in BOOLEAN /\ CleanLen \in Nat
  BY ShellAssumption DEF TypeInv, Storage, Modes, Text, MinPos
<1>1. CASE Type
  BY <1>1 DEF Type, TextIsTyped
<1>2. CASE EditorType
  <2>1. PICK c \in EditorKeys :
          /\ doc_buf' = [doc_buf EXCEPT ![cursor_pos] = c]
          /\ typed' = Append(typed, c) /\ odd' = (odd \/ c = NUL)
    BY <1>2 DEF EditorType
  <2>2. editor_mode = 1 /\ cursor_pos' = cursor_pos + 1
    BY <1>2 DEF EditorType
  <2>3. SUFFICES ASSUME ~odd'
        PROVE  /\ cursor_pos' = Len(typed')
               /\ \A p \in 1..Len(typed') : doc_buf'[p - 1] = typed'[p]
    BY DEF TextIsTyped
  <2>4. /\ cursor_pos = Len(typed)
        /\ \A p \in 1..Len(typed) : doc_buf[p - 1] = typed[p]
    BY <2>1, <2>2, <2>3 DEF TextIsTyped
  <2>5. c \in Bytes
    BY <2>1, KeysType
  <2>6. /\ Len(typed') = Len(typed) + 1 /\ typed'[Len(typed) + 1] = c
        /\ \A p \in 1..Len(typed) : typed'[p] = typed[p]
    BY <1>t, <2>1, <2>5
  <2>7. ASSUME NEW p \in 1..Len(typed') PROVE doc_buf'[p - 1] = typed'[p]
    <3>1. CASE p = Len(typed) + 1
      BY <1>t, <2>1, <2>4, <2>6, <3>1
    <3>2. CASE p \in 1..Len(typed)
      <4>1. p - 1 # cursor_pos /\ p - 1 \in MinPos..MaxPos
        BY <1>t, <2>4, <3>2, ShellAssumption DEF MinPos
      <4> QED BY <1>t, <2>1, <2>4, <2>6, <3>2, <4>1
    <3> QED BY <1>t, <2>6, <3>1, <3>2
  <2> QED BY <2>2, <2>4, <2>6, <2>7
<1>3. CASE Backspace
  <2>1. /\ cursor_pos' = cursor_pos - 1 /\ UNCHANGED <<doc_buf, editor_mode>>
        /\ typed' = IF typed = << >> THEN typed ELSE SubSeq(typed, 1, Len(typed) - 1)
        /\ odd' = (odd \/ cursor_pos <= 0)
    BY <1>3 DEF Backspace
  <2>2. SUFFICES ASSUME editor_mode = 1, ~odd'
        PROVE  /\ cursor_pos' = Len(typed')
               /\ \A p \in 1..Len(typed') : doc_buf'[p - 1] = typed'[p]
    BY <2>1 DEF TextIsTyped
  <2>3. /\ cursor_pos = Len(typed) /\ cursor_pos > 0
        /\ \A p \in 1..Len(typed) : doc_buf[p - 1] = typed[p]
    BY <1>t, <2>1, <2>2 DEF TextIsTyped
  <2>4. typed # << >>
    BY <2>3
  <2>5. /\ Len(typed') = Len(typed) - 1
        /\ \A p \in 1..(Len(typed) - 1) : typed'[p] = typed[p]
    BY <1>t, <2>1, <2>4, WithoutLast
  <2> QED BY <1>t, <2>1, <2>3, <2>5
<1>4. CASE F1
  <2>1. CASE cmd_cleanup(0, bash_mode)
    BY <2>1, TextCleaned
  <2> QED BY <1>4, <2>1 DEF F1, TextIsTyped
<1>5. CASE Enter
  BY <1>5 DEF Enter, TextIsTyped
<1> QED BY <1>1, <1>2, <1>3, <1>4, <1>5 DEF Key

LEMMA TextStep == TypeInv /\ TextIsTyped /\ [Next]_vars => TextIsTyped'
<1> SUFFICES ASSUME TypeInv, TextIsTyped, [Next]_vars PROVE TextIsTyped'
  OBVIOUS
<1>1. CASE UNCHANGED vars
  BY <1>1, TextKept DEF vars, keyboardVars
<1>2. CASE Key
  BY <1>2, TextKey
<1>3. CASE Plain \/ Fault \/ Edit \/ CdUp \/ CdInto \/ ScriptEnd
  BY <1>3, TextCleaned DEF Plain, Fault, Edit, CdUp, CdInto, ScriptEnd
<1>4. CASE Reboot
  BY <1>4 DEF Reboot, TextIsTyped
<1>5. CASE IslRun \/ NextLine \/ LoopStep
  BY <1>5, TextKept DEF IslRun, NextLine, LoopStep, keyboardVars
<1> QED BY <1>1, <1>2, <1>3, <1>4, <1>5 DEF Next, Kernel, Run

\* TextIsTyped, for every keyboard and every length of the buffers: the text F1
\* saves begins with what was typed in the editor and not taken back.
THEOREM ShellTextIsTyped == Spec => []TextIsTyped
<1>1. Init => TextIsTyped
  BY DEF Init, TextIsTyped
<1>2. TypeInv /\ TextIsTyped /\ [Next]_vars => TypeInv' /\ TextIsTyped'
  BY TypeStep, TextStep
<1> QED BY <1>1, <1>2, TypeInit, PTL DEF Spec

-----------------------------------------------------------------------------
(* One prompt for a command.                                               *)

\* Without scripts or loops bash_mode is off and a command begins outside the editor.
Alone ==
  /\ frames = << >> /\ pc # "halted" => bash_mode = 0
  /\ frames = << >> /\ pc = "run" => editor_mode = 0

\* A command that has neither nested scripts nor started a loop runs one script at
\* most, in bash_mode, and has printed no prompt.
Answering ==
  ~nested /\ Running("loop") = {} =>
    /\ Len(frames) <= 1 /\ (frames # << >> => bash_mode = 1)
    /\ pc \in {"run", "next"} => prompts = 0

\* Once it is over it has printed one, but in the editor none.
Answered ==
  pc = "idle" /\ ~nested =>
    IF editor_mode = 1 THEN prompts = 0 ELSE odd \/ prompts = 1

PromptInv == Alone /\ Answering /\ Answered

LEMMA NoFrames ==
  ASSUME frames \in Seq(Frame)
  PROVE  /\ frames = << >> => \A kind : Running(kind) = {}
         /\ Running("script") = {} /\ Running("loop") = {} => frames = << >>
<1>1. ASSUME frames # << >> PROVE Running("script") # {} \/ Running("loop") # {}
  <2>1. 1 \in DOMAIN frames /\ frames[1] \in Frame
    BY <1>1
  <2> QED BY <2>1 DEF Frame, Running
<1>2. frames = << >> => DOMAIN frames = {}
  OBVIOUS
<1> QED BY <1>1, <1>2 DEF Running

LEMMA PromptInit == Init => PromptInv
BY DEF Init, PromptInv, Alone, Answering, Answered

\* A handler that ends with cmd_cleanup.
LEMMA PromptHandled ==
  ASSUME TypeInv, PromptInv, NEW e \in {0, 1}, cmd_cleanup(e, bash_mode), editor_mode' = e,
         e = editor_mode \/ e = 1, pc = "run", UNCHANGED <<frames, bash_mode, nested>>,
         pc' = "halted" \/ Return
  PROVE  PromptInv'
<1>0. frames \in Seq(Frame) /\ prompts \in 0..2
  BY DEF TypeInv, Storage, Modes
<1>1. Alone'
  BY DEF PromptInv, Alone, Return
<1>2. Running("loop")' = Running("loop")
  BY DEF Running
<1>3. Answering'
  <2> SUFFICES ASSUME ~nested, Running("loop") = {}
               PROVE  /\ Len(frames) <= 1 /\ (frames # << >> => bash_mode = 1)
                      /\ pc' \in {"run", "next"} => prompts' = 0
    BY <1>2 DEF Answering
  <2>1. Len(frames) <= 1 /\ (frames # << >> => bash_mode = 1) /\ prompts = 0
    BY DEF PromptInv, Answering
  <2>2. pc' \in {"run", "next"} => frames # << >>
    BY DEF Return
  <2> QED BY <2>1, <2>2 DEF cmd_cleanup, Quiet
<1>4. Answered'
  <2> SUFFICES ASSUME pc' = "idle", ~nested
               PROVE  IF e = 1 THEN prompts' = 0 ELSE prompts' = 1
    BY DEF Answered
  <2>1. frames = << >>
    BY DEF Return
  <2>2. bash_mode = 0 /\ editor_mode = 0 /\ prompts = 0
    BY <1>0, <2>1, NoFrames DEF PromptInv, Alone, Answering
  <2> QED BY <2>2 DEF cmd_cleanup, Quiet
<1> QED BY <1>1, <1>3, <1>4 DEF PromptInv

LEMMA PromptRun == TypeInv /\ PromptInv /\ Run => PromptInv'
<1> SUFFICES ASSUME TypeInv, PromptInv, Run PROVE PromptInv'
  OBVIOUS
<1> USE DEF NoEffect
<1>0. frames \in Seq(Frame) /\ editor_mode \in {0, 1} /\ DOMAIN frames = 1..Len(frames)
  BY DEF TypeInv, Storage, Modes
<1>1. CASE Plain
  BY <1>0, <1>1, PromptHandled DEF Plain
<1>2. CASE Fault
  BY <1>0, <1>2, PromptHandled DEF Fault
<1>3. CASE Edit
  BY <1>3, PromptHandled DEF Edit, Command
<1>4. CASE CdUp
  BY <1>0, <1>4, PromptHandled DEF CdUp, Command
<1>5. CASE CdInto
  BY <1>0, <1>5, PromptHandled DEF CdInto, Command
<1>6. CASE Reboot
  BY <1>6 DEF Reboot, PromptInv, Alone, Answering, Answered
<1>7. CASE IslRun
  <2>0. /\ nested' = (nested \/ Running("script") # {}) /\ bash_mode' = 1 /\ pc = "run"
        /\ UNCHANGED <<prompts, editor_mode>>
    BY <1>7 DEF IslRun, Command, keyboardVars
  <2>1. CASE KindPushed("script") /\ pc' = "next"
    <3>1. Running("loop")' = Running("loop")
      BY <1>0, <2>1, RunningPushed
    <3>2. frames' # << >> /\ Len(frames') = Len(frames) + 1
      <4>1. DOMAIN frames' = 1..(Len(frames) + 1) /\ frames' \in Seq(Frame) /\ Len(frames) \in Nat
        <5>1. TypeInv'
          BY <1>7, TypeRun DEF Run
        <5> QED BY <1>0, <2>1, <5>1 DEF KindPushed, TypeInv, Storage
      <4> QED BY <4>1
    <3>3. Answering'
      <4> SUFFICES ASSUME ~nested', Running("loop") = {} PROVE Len(frames') <= 1 /\ prompts = 0
        BY <2>0, <3>1 DEF Answering
      <4>1. frames = << >> /\ ~nested
        BY <1>0, <2>0, NoFrames
      <4> QED BY <2>0, <3>2, <4>1 DEF PromptInv, Answering
    <3> QED BY <2>1, <3>2, <3>3 DEF PromptInv, Alone, Answered
  <2>2. CASE pc' = "halted" /\ UNCHANGED frames
    <3>1. Running("loop")' = Running("loop")
      BY <2>2 DEF Running
    <3>2. Answering'
      <4>1. ~nested' /\ Running("loop")' = {} => ~nested /\ Running("loop") = {}
        BY <2>0, <3>1
      <4>2. ~nested' /\ Running("loop")' = {} => Len(frames') <= 1
        BY <2>2, <4>1 DEF PromptInv, Answering
      <4> QED BY <2>0, <2>2, <4>2 DEF Answering
    <3>3. Alone' /\ Answered'
      BY <2>2 DEF Alone, Answered
    <3> QED BY <3>2, <3>3 DEF PromptInv
  <2>3. \/ KindPushed("script") /\ pc' = "next"
        \/ pc' = "halted" /\ UNCHANGED frames
    <3>1. CASE Cardinality(Running("script")) < StackFrames
      BY <1>7, <3>1, KindsStep
    <3>2. CASE ~(Cardinality(Running("script")) < StackFrames)
      BY <1>7, <3>2 DEF IslRun
    <3> QED BY <3>1, <3>2
  <2> QED BY <2>1, <2>2, <2>3
<1> QED BY <1>1, <1>2, <1>3, <1>4, <1>5, <1>6, <1>7 DEF Run

\* A script or a loop goes on.
LEMMA PromptResumed == TypeInv /\ PromptInv /\ (NextLine \/ LoopStep) => PromptInv'
<1> SUFFICES ASSUME TypeInv, PromptInv, NextLine \/ LoopStep PROVE PromptInv'
  OBVIOUS
<1>0. /\ frames \in Seq(Frame) /\ frames' \in Seq(Frame) /\ frames # << >>
      /\ UNCHANGED <<prompts, nested, bash_mode>> /\ pc' \in {"run", "next"} /\ pc = "next"
  <2>1. frames' \in Seq(Frame)
    BY TypeNextLine, TypeLoopStep DEF TypeInv, Storage
  <2> QED BY <2>1 DEF NextLine, LoopStep, ExecWords, ExecLoop, TypeInv, Storage, Modes, promptVars
<1>1. CASE KindsKept
  <2>1. Running("loop")' = Running("loop") /\ Len(frames') = Len(frames) /\ frames' # << >>
    BY <1>0, <1>1, RunningKept DEF KindsKept
  <2>2. Answering'
    BY <1>0, <2>1 DEF PromptInv, Answering
  <2> QED BY <1>0, <2>1, <2>2 DEF PromptInv, Alone, Answered
<1>2. CASE KindPushed("loop")
  <2>1. Running("loop")' # {} /\ frames' # << >>
    <3>1. Running("loop")' = Running("loop") \cup {Len(frames) + 1}
      BY <1>0, <1>2, RunningPushed
    <3>2. DOMAIN frames' = 1..(Len(frames) + 1) /\ Len(frames) \in Nat
      BY <1>0, <1>2 DEF KindPushed
    <3>3. 1 \in DOMAIN frames'
      BY <3>2
    <3> QED BY <1>0, <3>1, <3>3
  <2> QED BY <1>0, <2>1 DEF PromptInv, Alone, Answering, Answered
<1> QED BY <1>1, <1>2, KindsStep

LEMMA PromptScriptEnd == TypeInv /\ PromptInv /\ ScriptEnd => PromptInv'
<1> SUFFICES ASSUME TypeInv, PromptInv, ScriptEnd PROVE PromptInv'
  OBVIOUS
<1>0. /\ frames \in Seq(Frame) /\ frames # << >> /\ Len(frames) \in Nat
      /\ DOMAIN frames = 1..Len(frames) /\ bash_mode' = 0 /\ pc = "next" /\ Top.kind = "script"
      /\ pc' = IF Len(frames) = 1 THEN "idle" ELSE "next"
      /\ UNCHANGED <<editor_mode, nested>> /\ cmd_cleanup(editor_mode, 0)
      /\ editor_mode \in {0, 1}
  BY DEF ScriptEnd, Caller, TypeInv, Storage, Modes
<1>1. KindPopped
  BY KindsStep
<1>2. frames' \in Seq(Frame) /\ DOMAIN frames' = 1..(Len(frames) - 1)
  <2>1. TypeInv'
    BY TypeScriptEnd
  <2> QED BY <1>1, <2>1 DEF KindPopped, TypeInv, Storage
<1>3. Len(frames') = Len(frames) - 1
  BY <1>0, WithoutLast DEF ScriptEnd
<1>4. Running("loop")' = Running("loop")
  <2>1. \A k \in DOMAIN frames : frames[k].kind = "loop" => k # Len(frames)
    BY <1>0 DEF Top
  <2>2. \A k \in DOMAIN frames : k # Len(frames) <=> k \in DOMAIN frames'
    BY <1>0, <1>2
  <2>3. \A k \in DOMAIN frames' : k \in DOMAIN frames
    BY <1>0, <1>2
  <2> QED BY <1>1, <2>1, <2>2, <2>3 DEF Running, KindPopped
<1>5. Alone'
  BY <1>0 DEF Alone
<1>6. Answering'
  <2> SUFFICES ASSUME ~nested, Running("loop") = {}
               PROVE  Len(frames') <= 1 /\ frames' = << >> /\ pc' = "idle"
    BY <1>0, <1>4 DEF Answering
  <2>1. Len(frames) = 1
    BY <1>0 DEF PromptInv, Answering
  <2> QED BY <1>0, <1>2, <1>3, <2>1
<1>7. Answered'
  <2> SUFFICES ASSUME pc' = "idle", ~nested
               PROVE  IF editor_mode = 1 THEN prompts' = 0 ELSE prompts' = 1
    BY <1>0 DEF Answered
  <2>1. Len(frames) = 1
    BY <1>0
  <2>2. Running("loop") = {}
    BY <1>0, <2>1 DEF Running, Top
  <2>3. prompts = 0
    BY <1>0, <2>2 DEF PromptInv, Answering
  <2> QED BY <1>0, <2>3 DEF cmd_cleanup, Quiet
<1> QED BY <1>5, <1>6, <1>7 DEF PromptInv

LEMMA PromptKey == TypeInv /\ PromptInv /\ Key => PromptInv'
<1> SUFFICES ASSUME TypeInv, PromptInv, Key PROVE PromptInv'
  OBVIOUS
<1>0. /\ frames \in Seq(Frame) /\ pc = "idle" /\ frames = << >> /\ bash_mode = 0
      /\ \A kind : Running(kind) = {}
  <2>1. pc = "idle"
    BY DEF Key, Type, EditorType, Backspace, F1, Enter
  <2>2. frames \in Seq(Frame) /\ frames = << >>
    BY <2>1 DEF TypeInv, Storage, Modes
  <2> QED BY <2>1, <2>2, NoFrames DEF PromptInv, Alone
<1>1. CASE Type \/ EditorType \/ Backspace
  <2>1. /\ UNCHANGED <<pc, editor_mode, frames, bash_mode, prompts, nested>>
        /\ odd => odd'
    BY <1>1 DEF Type, EditorType, Backspace, promptVars
  <2>2. Running("loop")' = Running("loop")
    BY <2>1 DEF Running
  <2>3. Alone' /\ Answering'
    BY <1>0, <2>1, <2>2 DEF PromptInv, Alone, Answering
  <2> QED BY <2>1, <2>3 DEF PromptInv, Answered
<1>2. CASE F1
  <2>1. /\ UNCHANGED <<frames, bash_mode, nested>> /\ editor_mode = 1 /\ editor_mode' = 0
        /\ \/ pc' = "idle" /\ cmd_cleanup(0, bash_mode)
           \/ pc' = "halted"
    BY <1>0, <1>2 DEF F1
  <2>2. Running("loop")' = Running("loop")
    BY <2>1 DEF Running
  <2>3. Alone' /\ Answering'
    BY <1>0, <2>1, <2>2 DEF PromptInv, Alone, Answering
  <2>4. Answered'
    BY <1>0, <2>1 DEF PromptInv, Answered, cmd_cleanup, Quiet
  <2> QED BY <2>3, <2>4 DEF PromptInv
<1>3. CASE Enter
  <2>0. prompts' = 0 /\ editor_mode = 0 /\ UNCHANGED <<editor_mode, bash_mode>>
    BY <1>3 DEF Enter
  <2>1. CASE pc' = "run" /\ UNCHANGED frames
    <3>1. Alone' /\ Answering' /\ Answered'
      BY <1>0, <2>0, <2>1 DEF Alone, Answering, Answered
    <3> QED BY <3>1 DEF PromptInv
  <2>2. CASE odd' = TRUE /\ UNCHANGED <<pc, frames>>
    <3>1. Alone' /\ Answering' /\ Answered'
      BY <1>0, <2>0, <2>2 DEF Alone, Answering, Answered
    <3> QED BY <3>1 DEF PromptInv
  <2>3. CASE ExecLoop(command_buf)
    <3>1. PICK s : frames' = Append(frames, LoopFrame(s)) /\ pc' = "next"
      BY <2>3 DEF ExecLoop
    <3>2. frames' = <<LoopFrame(s)>>
      BY <1>0, <3>1
    <3>3. frames' # << >> /\ Running("loop")' # {}
      BY <3>2 DEF Running, LoopFrame
    <3>4. Alone' /\ Answering' /\ Answered'
      BY <3>1, <3>3 DEF Alone, Answering, Answered
    <3> QED BY <3>4 DEF PromptInv
  <2> QED BY <1>3, <2>1, <2>2, <2>3 DEF Enter, ExecWords
<1> QED BY <1>1, <1>2, <1>3 DEF Key

LEMMA PromptStep == TypeInv /\ PromptInv /\ [Next]_vars => PromptInv'
<1> SUFFICES ASSUME TypeInv, PromptInv, [Next]_vars PROVE PromptInv'
  OBVIOUS
<1>1. CASE UNCHANGED vars
  <2>1. UNCHANGED <<pc, frames, bash_mode, editor_mode, odd, prompts, nested>>
    BY <1>1 DEF vars, keyboardVars, promptVars
  <2> QED BY <2>1 DEF PromptInv, Alone, Answering, Answered, Running
<1>2. CASE Next
  BY <1>2, PromptKey, PromptRun, PromptResumed, PromptScriptEnd DEF Next, Kernel
<1> QED BY <1>1, <1>2

\* OnePrompt, for any mix of scripts and editor sessions: a command line is answered
\* by one prompt, unless it nested scripts or was a lone `;'.
THEOREM ShellOnePrompt == Spec => []OnePrompt
<1>1. PromptInv => OnePrompt
  BY DEF PromptInv, Answered, OnePrompt
<1>2. TypeInv /\ PromptInv /\ [Next]_vars => TypeInv' /\ PromptInv'
  BY TypeStep, PromptStep
<1> QED BY <1>1, <1>2, TypeInit, PromptInit, PTL DEF Spec

-----------------------------------------------------------------------------
(* The directory in the prompt.                                            *)

\* folder_name holds s, and nothing but NULs behind it.
Named(s) ==
  /\ s \in Seq(Letters) /\ Len(s) <= PathLen /\ DOMAIN folder_name = 0..PathLen
  /\ \A p \in 0..PathLen : folder_name[p] = IF p < Len(s) THEN s[p + 1] ELSE NUL

PathInv ==
  /\ at_root = 1 <=> current_clust = Root
  /\ ~returned => Named(path)

LEMMA NamedLength ==
  ASSUME NEW s, Named(s)
  PROVE  StrLen(folder_name) = Len(s) /\ CString(folder_name, 0) = s
<1>0. Len(s) \in 0..PathLen /\ PathLen \in Nat /\ Len(s) \in Nat /\ NUL \notin Letters
  BY ShellAssumption DEF Named
<1>1. \A j \in 0..(Len(s) - 1) : folder_name[j] = s[j + 1] /\ s[j + 1] \in Letters
  BY <1>0 DEF Named
<1>2. folder_name[Len(s)] = NUL /\ folder_name[PathLen] = NUL /\ DOMAIN folder_name = 0..PathLen
  BY <1>0 DEF Named
<1>3. Stop(folder_name, 0, {NUL}) = Len(s)
  <2>1. /\ 0..PathLen \subseteq DOMAIN folder_name /\ DOMAIN folder_name \subseteq Int
        /\ folder_name[PathLen] \in {NUL} /\ 0 \in 0..PathLen
        /\ folder_name[Len(s)] \in {NUL}
    BY <1>0, <1>2
  <2>2. \A j \in 0..(Len(s) - 1) : folder_name[j] \notin {NUL}
    BY <1>0, <1>1
  <2> QED BY <1>0, <2>1, <2>2, StopIsOnly
<1>4. [j \in 1..(Len(s) - 0) |-> folder_name[0 + j - 1]] = s
  <2>1. s = [j \in 1..Len(s) |-> s[j]]
    BY DEF Named
  <2>2. \A j \in 1..Len(s) : folder_name[0 + j - 1] = s[j]
    BY <1>0, <1>1
  <2> QED BY <1>0, <2>1, <2>2
<1> QED BY <1>3, <1>4 DEF StrLen, CString, Chars

LEMMA Concatenated ==
  ASSUME NEW S, NEW s \in Seq(S), NEW t \in Seq(S)
  PROVE  /\ s \o t \in Seq(S) /\ Len(s \o t) = Len(s) + Len(t)
         /\ \A j \in 1..Len(s) : (s \o t)[j] = s[j]
         /\ \A j \in 1..Len(t) : (s \o t)[Len(s) + j] = t[j]
OBVIOUS

LEMMA NamedExtended ==
  ASSUME Named(path), NEW w \in Seq(Letters), StrLen(folder_name) + Len(w) + 1 < PathLen,
         folder_name' = Extended(w), path' = path \o w \o <<"/">>
  PROVE  Named(path)'
<1> DEFINE n == Len(path)
           m == Len(w)
<1>0. /\ n \in Nat /\ m \in Nat /\ PathLen \in Nat /\ StrLen(folder_name) = n
      /\ n + m + 1 < PathLen /\ path \in Seq(Letters) /\ "/" \in Letters
      /\ DOMAIN folder_name = 0..PathLen
  BY NamedLength, ShellAssumption DEF Named
<1>1. /\ path' \in Seq(Letters) /\ Len(path') = n + m + 1
      /\ \A j \in 1..n : path'[j] = path[j]
      /\ \A j \in 1..m : path'[n + j] = w[j]
      /\ path'[n + m + 1] = "/"
  <2> DEFINE q == path \o w
  <2>1. /\ q \in Seq(Letters) /\ Len(q) = n + m
        /\ \A j \in 1..n : q[j] = path[j]
        /\ \A j \in 1..m : q[n + j] = w[j]
    BY <1>0
  <2> HIDE DEF q
  <2>2. /\ q \o <<"/">> \in Seq(Letters) /\ Len(q \o <<"/">>) = n + m + 1
        /\ \A j \in 1..(n + m) : (q \o <<"/">>)[j] = q[j]
        /\ (q \o <<"/">>)[n + m + 1] = "/"
    <3> DEFINE t == <<"/">>
    <3>1. t \in Seq(Letters) /\ Len(t) = 1 /\ t[1] = "/"
      BY <1>0
    <3> HIDE DEF t
    <3>2. /\ q \o t \in Seq(Letters) /\ Len(q \o t) = n + m + 1
          /\ \A j \in 1..(n + m) : (q \o t)[j] = q[j]
          /\ (q \o t)[n + m + 1] = "/"
      <4>1. /\ q \o t \in Seq(Letters) /\ Len(q \o t) = Len(q) + 1
            /\ \A j \in 1..Len(q) : (q \o t)[j] = q[j]
            /\ (q \o t)[Len(q) + 1] = t[1]
        <5>1. /\ q \o t \in Seq(Letters) /\ Len(q \o t) = Len(q) + Len(t)
              /\ \A j \in 1..Len(q) : (q \o t)[j] = q[j]
              /\ \A j \in 1..Len(t) : (q \o t)[Len(q) + j] = t[j]
          <6>1. q \in Seq(Letters) /\ t \in Seq(Letters)
            BY <2>1, <3>1
          <6> QED BY <6>1, Concatenated
        <5>2. 1 \in 1..Len(t)
          BY <3>1
        <5> QED BY <3>1, <5>1, <5>2
      <4> QED BY <2>1, <3>1, <4>1
    <3> QED BY <3>2 DEF t
  <2>3. path' = q \o <<"/">>
    BY DEF q
  <2> QED BY <1>0, <2>1, <2>2, <2>3
<1>2. /\ DOMAIN folder_name' = 0..PathLen
      /\ \A p \in 0..PathLen :
           folder_name'[p] = IF p \in n..(n + m - 1) THEN w[p - n + 1]
                             ELSE IF p = n + m THEN "/" ELSE folder_name[p]
  BY <1>0 DEF Extended
<1> HIDE DEF n, m
<1>3. ASSUME NEW p \in 0..PathLen
      PROVE  folder_name'[p] = IF p < Len(path') THEN path'[p + 1] ELSE NUL
  <2>1. CASE p \in 0..(n - 1)
    <3>1. folder_name'[p] = path[p + 1]
      BY <1>0, <1>2, <2>1 DEF Named, n
    <3>2. path'[p + 1] = path[p + 1] /\ p < Len(path')
      BY <1>0, <1>1, <2>1
    <3> QED BY <3>1, <3>2
  <2>2. CASE p \in n..(n + m - 1)
    <3>1. folder_name'[p] = w[p - n + 1]
      BY <1>2, <2>2
    <3>2. p - n + 1 \in 1..m /\ n + (p - n + 1) = p + 1 /\ p < Len(path')
      BY <1>0, <1>1, <2>2
    <3> QED BY <1>1, <3>1, <3>2
  <2>3. CASE p = n + m
    <3>1. folder_name'[p] = "/"
      BY <1>0, <1>2, <2>3
    <3> QED BY <1>0, <1>1, <2>3, <3>1
  <2>4. CASE p > n + m
    <3>1. folder_name'[p] = NUL
      BY <1>0, <1>2, <2>4 DEF Named, n
    <3> QED BY <1>0, <1>1, <2>4, <3>1
  <2> QED BY <1>0, <2>1, <2>2, <2>3, <2>4
<1> QED BY <1>0, <1>1, <1>2, <1>3 DEF Named

LEMMA PathInit == Init => PathInv
<1> SUFFICES ASSUME Init PROVE PathInv
  OBVIOUS
<1>1. Named(path)
  BY ShellAssumption DEF Init, Named, Zero
<1> QED BY <1>1 DEF Init, PathInv

LEMMA PathStep == TypeInv /\ PathInv /\ [Next]_vars => PathInv'
<1> SUFFICES ASSUME TypeInv, PathInv, [Next]_vars PROVE PathInv'
  OBVIOUS
<1>1. CASE UNCHANGED folderVars
  BY <1>1 DEF folderVars, PathInv, Named
<1>2. CASE CdUp
  BY <1>2 DEF CdUp, PathInv
<1>3. CASE CdInto
  <2>1. /\ argv[1] # Null /\ at_root' = 0 /\ current_clust' # Root /\ returned' = returned
    BY <1>3, ShellAssumption DEF CdInto, Argument
  <2>2. PICK w \in StringsAt(argv[1]) :
          /\ StrLen(folder_name) + Len(w) + 1 < PathLen
          /\ folder_name' = Extended(w) /\ path' = path \o w \o <<"/">>
    BY <1>3 DEF CdInto, Argument
  <2>3. w \in Seq(Letters)
    BY <2>1, <2>2, WordType, ShellAssumption
  <2>4. ~returned => Named(path)'
    BY <2>2, <2>3, NamedExtended DEF PathInv
  <2> QED BY <2>1, <2>4 DEF PathInv
<1>4. CASE Reboot
  <2>1. Init'
    BY <1>4 DEF Reboot, Init
  <2> QED BY <2>1, PathInit, PTL
<1> QED BY <1>1, <1>2, <1>3, <1>4
        DEF vars, Next, Key, Type, EditorType, Backspace, F1, Enter, Kernel, Run, Plain, Fault,
            Edit, IslRun, NoEffect, NextLine, ScriptEnd, LoopStep

\* PromptNamesDirectory, for folders with any names and at any depth the buffer has
\* room for: no folder in the root directory, and else, as long as nothing has been
\* left with cd .., the folders that lead to the current one.
THEOREM ShellNamesDirectory == Spec => []PromptNamesDirectory
<1>1. PathInv => PromptNamesDirectory
  BY NamedLength DEF PathInv, PromptNamesDirectory
<1>2. TypeInv /\ PathInv /\ [Next]_vars => TypeInv' /\ PathInv'
  BY TypeStep, PathStep
<1> QED BY <1>1, <1>2, TypeInit, PathInit, PTL DEF Spec

-----------------------------------------------------------------------------
(* The line that Enter executes.                                           *)

\* The line editor shows what was typed, and blanks or NULs behind it.
LineShown ==
  /\ typed \in Seq(Letters) /\ cursor_pos = Len(typed)
  /\ \A p \in 0..(Len(typed) - 1) : command_buf[p] = typed[p + 1]
  /\ \A p \in Len(typed)..MaxPos : command_buf[p] \in {NUL, SP}

LineInv ==
  /\ ~spilled => \A p \in CleanLen..MaxPos : command_buf[p] = NUL
  /\ pc = "idle" /\ editor_mode = 0 /\ ~odd /\ ~spilled => LineShown

\* Two strings that agree on the first n bytes, where one ends and the other has
\* nothing but blanks and NULs from there on, have the same words.
LEMMA SameWords ==
  ASSUME NEW b, NEW m, Terminated(b, m), NEW s \in Seq(Letters), Len(s) <= m,
         \A p \in 0..(Len(s) - 1) : b[p] = s[p + 1],
         \A p \in Len(s)..m : b[p] \in {NUL, SP}
  PROVE  Words(b) = Words(CStr(s))
<1> DEFINE n == Len(s)
           c == CStr(s)
<1>0. /\ n \in Nat /\ m \in Nat /\ n \in 0..m /\ NUL \notin Letters /\ SP \in Letters
      /\ 0..m \subseteq DOMAIN b /\ DOMAIN b \subseteq Int /\ b[m] = NUL
  BY ShellAssumption DEF Terminated
<1>c. /\ DOMAIN c = 0..n /\ c[n] = NUL /\ Terminated(c, n)
      /\ \A p \in 0..(n - 1) : c[p] = s[p + 1] /\ c[p] \in Letters
  <2>1. ASSUME NEW p \in 0..(n - 1) PROVE c[p] = s[p + 1] /\ s[p + 1] \in Letters
    BY <1>0, <2>1 DEF CStr
  <2>2. DOMAIN c = 0..n /\ c[n] = NUL
    BY <1>0 DEF CStr
  <2>3. ASSUME NEW p \in 0..n PROVE c[p] \in Bytes
    BY <1>0, <2>1, <2>2 DEF Bytes
  <2>4. \A p \in 0..(n - 1) : c[p] = s[p + 1] /\ c[p] \in Letters
    BY <2>1
  <2> HIDE DEF c, n
  <2>5. Terminated(c, n)
    BY <1>0, <2>2, <2>3 DEF Terminated
  <2> QED BY <2>2, <2>4, <2>5
<1>e. \A p \in 0..(n - 1) : b[p] = c[p]
  BY <1>c
<1> HIDE DEF c, n
<1>1. StrLen(c) = n
  <2>1. StrLen(c) \in 0..n /\ c[StrLen(c)] = NUL
    BY <1>c, StrLenIs
  <2>2. ASSUME StrLen(c) \in 0..(n - 1) PROVE FALSE
    BY <1>0, <1>c, <2>1, <2>2
  <2> QED BY <1>0, <2>1, <2>2
<1>2. StrLen(b) \in n..m
  <2>1. StrLen(b) \in 0..m /\ b[StrLen(b)] = NUL
    BY StrLenIs
  <2>2. ASSUME StrLen(b) < n PROVE FALSE
    BY <1>0, <1>c, <1>e, <2>1, <2>2
  <2> QED BY <1>0, <2>1, <2>2
<1>3. Starts(b) = Starts(c)
  <2>1. ASSUME NEW p \in 0..(StrLen(b) - 1), b[p] # SP PROVE p \in 0..(n - 1)
    <3>1. p \in 0..m /\ b[p] # NUL
      BY <1>2, <1>0, StrLenIs
    <3>2. ASSUME p \in n..m PROVE FALSE
      BY <2>1, <3>1, <3>2 DEF n
    <3> QED BY <1>0, <3>1, <3>2
  <2>2. \A p \in 0..(n - 1) : p \in 0..(StrLen(b) - 1) /\ b[p] = c[p]
                              /\ (p # 0 => b[p - 1] = c[p - 1])
    BY <1>0, <1>2, <1>e
  <2>3. ASSUME NEW p PROVE p \in Starts(b) <=> p \in Starts(c)
    BY <1>1, <2>1, <2>2 DEF Starts
  <2> QED BY <2>3 DEF Starts
<1>4. ASSUME NEW p \in Starts(b) PROVE Chars(b, p, {NUL, SP}) = Chars(c, p, {NUL, SP})
  <2> DEFINE e == Stop(c, p, {NUL, SP})
  <2>1. p \in 0..(n - 1) /\ p \in 0..n
    BY <1>0, <1>1, <1>3 DEF Starts
  <2>2. e \in p..n /\ c[e] \in {NUL, SP} /\ \A j \in p..(e - 1) : c[j] \notin {NUL, SP}
    <3>1. 0..n \subseteq DOMAIN c /\ DOMAIN c \subseteq Int /\ c[n] \in {NUL, SP}
      BY <1>0, <1>c
    <3> QED BY <1>0, <2>1, <3>1, StopIs
  <2> HIDE DEF e
  <2>3. b[e] \in {NUL, SP}
    <3>1. CASE e = n
      <4>1. n \in Len(s)..m
        BY <1>0 DEF n
      <4> QED BY <3>1, <4>1
    <3>2. CASE e # n
      <4>1. e \in 0..(n - 1)
        BY <1>0, <2>1, <2>2, <3>2
      <4> QED BY <1>e, <2>2, <4>1
    <3> QED BY <3>1, <3>2
  <2>4. \A j \in p..(e - 1) : j \in 0..(n - 1) /\ b[j] = c[j] /\ b[j] \notin {NUL, SP}
    BY <1>0, <1>e, <2>1, <2>2
  <2>5. Stop(b, p, {NUL, SP}) = e
    <3>1. b[m] \in {NUL, SP} /\ p \in 0..m /\ e \in p..m
      BY <1>0, <2>1, <2>2
    <3> QED BY <1>0, <2>3, <2>4, <3>1, StopIsOnly
  <2>6. \A j \in 1..(e - p) : b[p + j - 1] = c[p + j - 1]
    BY <2>1, <2>2, <2>4
  <2> QED BY <2>5, <2>6 DEF Chars, e
<1>5. ASSUME NEW k \in 1..Cardinality(Starts(b)) PROVE Nth(Starts(b), k - 1) \in Starts(b)
  <2>1. Starts(b) \subseteq 0..m /\ Cardinality(Starts(b)) \in Nat
    BY <1>0, StrLenIs, BelowFinite
  <2>2. k - 1 \in Nat /\ k - 1 < Cardinality(Starts(b))
    BY <2>1
  <2> QED BY <1>0, <2>1, <2>2, NthIsIn
<1> QED BY <1>3, <1>4, <1>5 DEF Words, c

LEMMA LineInit == Init => LineInv
<1> SUFFICES ASSUME Init PROVE LineInv
  OBVIOUS
<1>1. \A p \in 0..MaxPos : command_buf[p] = NUL
  BY ShellAssumption DEF Init, MinPos
<1>2. typed \in Seq(Letters) /\ Len(typed) = 0 /\ cursor_pos = 0
  BY DEF Init
<1>3. LineShown
  BY <1>1, <1>2 DEF LineShown
<1> QED BY <1>1, <1>3, ShellAssumption DEF LineInv

\* cmd_cleanup leaves an empty line, unless something lies beyond what it zeroes.
LEMMA LineCleaned ==
  ASSUME TypeInv, LineInv, NEW e, NEW b, cmd_cleanup(e, b), UNCHANGED spilled
  PROVE  LineInv'
<1>0. /\ CleanLen \in 1..MaxPos /\ MaxPos \in Nat /\ DOMAIN command_buf = MinPos..MaxPos
      /\ MinPos \in Int /\ MinPos <= 0
  BY LineTerminated, ShellAssumption DEF TypeInv, MinPos
<1>1. /\ \A p \in 0..(CleanLen - 1) : command_buf'[p] = NUL
      /\ \A p \in CleanLen..MaxPos : command_buf'[p] = command_buf[p]
  BY <1>0 DEF cmd_cleanup, Cleared
<1>2. ASSUME ~spilled PROVE \A p \in 0..MaxPos : command_buf'[p] = NUL
  <2>1. \A p \in CleanLen..MaxPos : command_buf'[p] = NUL
    BY <1>1, <1>2 DEF LineInv
  <2> QED BY <1>0, <1>1, <2>1
<1>3. typed' = << >> /\ cursor_pos' = 0
  BY DEF cmd_cleanup
<1>4. typed' \in Seq(Letters) /\ Len(typed') = 0
  BY <1>3
<1>5. ~spilled => LineShown'
  BY <1>2, <1>3, <1>4 DEF LineShown
<1> QED BY <1>0, <1>2, <1>5 DEF LineInv

LEMMA LineKey == TypeInv /\ LineInv /\ Key => LineInv'
<1> SUFFICES ASSUME TypeInv, LineInv, Key PROVE LineInv'
  OBVIOUS
<1>t. /\ command_buf \in [MinPos..MaxPos -> Keys \cup {NUL, NL}]
      /\ cursor_pos \in MinPos..MaxPos /\ CleanLen \in 1..MaxPos /\ MaxPos \in Nat
      /\ MinPos \in Int /\ MinPos <= 0 /\ SP \in Letters /\ NUL \notin Letters
      /\ odd \in BOOLEAN /\ spilled \in BOOLEAN
  BY ShellAssumption DEF TypeInv, Storage, Modes, Text, MinPos
<1>1. CASE Type
  <2>1. PICK c \in Keys :
          /\ command_buf' = [command_buf EXCEPT ![cursor_pos] = c]
          /\ typed' = Append(typed, c) /\ odd' = (odd \/ c = NUL)
    BY <1>1 DEF Type
  <2>2. /\ editor_mode = 0 /\ pc = "idle" /\ cursor_pos < MaxPos /\ cursor_pos' = cursor_pos + 1
        /\ spilled' = (spilled \/ cursor_pos >= CleanLen)
    BY <1>1 DEF Type
  <2>3. ASSUME ~spilled' PROVE \A p \in CleanLen..MaxPos : command_buf'[p] = NUL
    <3>1. ~spilled /\ cursor_pos < CleanLen
      <4>1. ~spilled /\ ~(cursor_pos >= CleanLen)
        BY <2>2, <2>3, Zenon
      <4> QED BY <1>t, <4>1
    <3> QED BY <1>t, <2>1, <3>1 DEF LineInv
  <2>4. ASSUME ~odd', ~spilled' PROVE LineShown'
    <3>1. LineShown /\ c \in Letters
      BY <1>t, <2>1, <2>2, <2>4, ShellAssumption DEF LineInv
    <3> DEFINE n == Len(typed)
    <3>2. /\ n \in Nat /\ cursor_pos = n /\ typed \in Seq(Letters) /\ cursor_pos' = n + 1
          /\ typed' \in Seq(Letters) /\ Len(typed') = n + 1 /\ typed'[n + 1] = c
          /\ \A p \in 1..n : typed'[p] = typed[p]
      BY <2>1, <2>2, <3>1 DEF LineShown
    <3>3. /\ command_buf'[n] = c /\ n < MaxPos
          /\ \A p \in 0..MaxPos : p # n => command_buf'[p] = command_buf[p]
      BY <1>t, <2>1, <2>2, <3>2
    <3>4. /\ \A p \in 0..(n - 1) : command_buf[p] = typed[p + 1]
          /\ \A p \in n..MaxPos : command_buf[p] \in {NUL, SP}
      BY <3>1 DEF LineShown
    <3> HIDE DEF n
    <3>5. ASSUME NEW p \in 0..(n + 1 - 1) PROVE command_buf'[p] = typed'[p + 1]
      <4>1. CASE p = n
        BY <3>2, <3>3, <4>1
      <4>2. CASE p \in 0..(n - 1)
        BY <1>t, <3>2, <3>3, <3>4, <4>2
      <4> QED BY <3>2, <4>1, <4>2
    <3>6. ASSUME NEW p \in (n + 1)..MaxPos PROVE command_buf'[p] \in {NUL, SP}
      BY <1>t, <3>2, <3>3, <3>4
    <3> QED BY <3>2, <3>5, <3>6 DEF LineShown
  <2> QED BY <2>3, <2>4 DEF LineInv
<1>2. CASE EditorType
  BY <1>2 DEF EditorType, LineInv
<1>3. CASE Backspace
  <2>1. /\ cursor_pos > MinPos /\ cursor_pos' = cursor_pos - 1 /\ editor_mode' = editor_mode
        /\ command_buf' = [command_buf EXCEPT ![cursor_pos - 1] = SP] /\ pc = "idle"
        /\ typed' = IF typed = << >> THEN typed ELSE SubSeq(typed, 1, Len(typed) - 1)
        /\ odd' = (odd \/ cursor_pos <= 0) /\ spilled' = (spilled \/ cursor_pos > CleanLen)
    BY <1>3 DEF Backspace
  <2>2. ASSUME ~spilled' PROVE \A p \in CleanLen..MaxPos : command_buf'[p] = NUL
    <3>1. ~spilled /\ cursor_pos <= CleanLen
      <4>1. ~spilled /\ ~(cursor_pos > CleanLen)
        BY <2>1, <2>2, Zenon
      <4> QED BY <1>t, <4>1
    <3> QED BY <1>t, <2>1, <3>1 DEF LineInv
  <2>3. ASSUME editor_mode = 0, ~odd', ~spilled' PROVE LineShown'
    <3>1. LineShown /\ cursor_pos > 0
      BY <1>t, <2>1, <2>3 DEF LineInv
    <3> DEFINE n == Len(typed)
    <3>2. n \in Nat /\ cursor_pos = n /\ typed \in Seq(Letters) /\ typed # << >> /\ n > 0
      BY <3>1 DEF LineShown
    <3>3. /\ typed' \in Seq(Letters) /\ Len(typed') = n - 1
          /\ \A p \in 1..(n - 1) : typed'[p] = typed[p]
      BY <2>1, <3>2, WithoutLast
    <3>4. /\ command_buf'[n - 1] = SP /\ cursor_pos' = n - 1
          /\ \A p \in 0..MaxPos : p # n - 1 => command_buf'[p] = command_buf[p]
      BY <1>t, <2>1, <3>2
    <3>5. /\ \A p \in 0..(n - 1) : command_buf[p] = typed[p + 1]
          /\ \A p \in n..MaxPos : command_buf[p] \in {NUL, SP}
      BY <3>1 DEF LineShown
    <3> HIDE DEF n
    <3>6. ASSUME NEW p \in 0..(n - 1 - 1) PROVE command_buf'[p] = typed'[p + 1]
      <4>1. p \in 0..MaxPos /\ p # n - 1 /\ p + 1 \in 1..(n - 1) /\ p \in 0..(n - 1)
        BY <1>t, <3>2
      <4> QED BY <3>3, <3>4, <3>5, <4>1
    <3>7. ASSUME NEW p \in (n - 1)..MaxPos PROVE command_buf'[p] \in {NUL, SP}
      <4>1. CASE p = n - 1
        BY <3>4, <4>1
      <4>2. CASE p # n - 1
        <5>1. p \in n..MaxPos /\ p \in 0..MaxPos
          BY <3>2, <4>2
        <5> QED BY <3>4, <3>5, <4>2, <5>1
      <4> QED BY <4>1, <4>2
    <3> QED BY <3>3, <3>4, <3>6, <3>7 DEF LineShown
  <2> QED BY <2>1, <2>2, <2>3 DEF LineInv
<1>4. CASE F1
  <2>1. CASE cmd_cleanup(0, bash_mode)
    BY <1>4, <2>1, LineCleaned DEF F1
  <2>2. CASE pc' = "halted" /\ UNCHANGED command_buf
    BY <1>4, <2>2 DEF F1, LineInv
  <2> QED BY <1>4, <2>1, <2>2 DEF F1
<1>5. CASE Enter
  <2>0. UNCHANGED spilled
    BY <1>5 DEF Enter
  <2>1. CASE ExecWords(0, 0, command_buf) /\ command_buf' = Split(command_buf)
    <3>1. \A p \in 0..MaxPos : command_buf[p] = NUL => command_buf'[p] = NUL
      BY <1>t, <2>1 DEF Split
    <3> QED BY <1>t, <2>0, <2>1, <3>1 DEF LineInv, ExecWords
  <2>2. CASE ExecLoop(command_buf) /\ UNCHANGED command_buf
    BY <2>0, <2>2 DEF LineInv, ExecLoop
  <2>3. CASE odd' = TRUE /\ UNCHANGED command_buf
    BY <2>0, <2>3 DEF LineInv
  <2> QED BY <1>5, <2>1, <2>2, <2>3 DEF Enter
<1> QED BY <1>1, <1>2, <1>3, <1>4, <1>5 DEF Key

LEMMA LineStep == TypeInv /\ LineInv /\ [Next]_vars => LineInv'
<1> SUFFICES ASSUME TypeInv, LineInv, [Next]_vars PROVE LineInv'
  OBVIOUS
<1>1. CASE UNCHANGED vars
  <2>1. UNCHANGED <<pc, command_buf, cursor_pos, editor_mode, typed, odd, spilled>>
    BY <1>1 DEF vars, keyboardVars
  <2> QED BY <2>1 DEF LineInv, LineShown
<1>2. CASE Key
  BY <1>2, LineKey
<1>3. CASE Plain \/ Fault \/ Edit \/ CdUp \/ CdInto \/ ScriptEnd
  BY <1>3, LineCleaned DEF Plain, Fault, Edit, CdUp, CdInto, ScriptEnd, NoEffect
<1>4. CASE Reboot
  <2>1. Init'
    BY <1>4 DEF Reboot, Init
  <2> QED BY <2>1, LineInit, PTL
<1>5. CASE IslRun \/ NextLine \/ LoopStep
  <2>1. UNCHANGED <<command_buf, spilled>> /\ pc' # "idle"
    BY <1>5 DEF IslRun, NextLine, LoopStep, ExecWords, ExecLoop, keyboardVars
  <2> QED BY <2>1 DEF LineInv
<1> QED BY <1>1, <1>2, <1>3, <1>4, <1>5 DEF Next, Kernel, Run

\* LineIsTyped, for lines and buffers of any length: when Enter is pressed the words
\* of command_buf are those of what was typed, unless a key the line editor cannot
\* follow was among it or a line got longer than the bytes cmd_cleanup zeroes.
THEOREM ShellLineIsTyped == Spec => []LineIsTyped
<1>1. TypeInv /\ LineInv => LineIsTyped
  <2> SUFFICES ASSUME TypeInv, LineShown PROVE Words(command_buf) = Words(CStr(typed))
    BY DEF LineInv, LineIsTyped
  <2>1. Terminated(command_buf, MaxPos) /\ cursor_pos <= MaxPos
    BY LineTerminated DEF TypeInv, Storage
  <2> QED BY <2>1, SameWords DEF LineShown
<1>2. TypeInv /\ LineInv /\ [Next]_vars => TypeInv' /\ LineInv'
  BY TypeStep, LineStep
<1> QED BY <1>1, <1>2, TypeInit, LineInit, PTL DEF Spec
=============================================================================
