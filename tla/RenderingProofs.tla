---------------------------- MODULE RenderingProofs ----------------------------
(***************************************************************************)
(* The text of a packet, for every number of messages, every size of a      *)
(* flag set and every length of a group.                                    *)
(***************************************************************************)
EXTENDS RenderingProperties, Recursion, SequenceTheorems, FiniteSetTheorems

(***************************************************************************)
(* The automaton.  Reads(s, tokens, t): from state s the tokens lead to     *)
(* state t.                                                                *)
(***************************************************************************)
Run(run, s, tokens) ==
  /\ run \in [0 .. Len(tokens) -> States]
  /\ run[0] = s
  /\ \A n \in 1 .. Len(tokens) : run[n] = Read(run[n - 1], tokens[n])

Reads(s, tokens, t) == \E run : Run(run, s, tokens) /\ run[Len(tokens)] = t

Brackets == {"{", "["}

(* Removing the innermost bracket leaves brackets.                          *)
LEMMA FrontOfBrackets ==
  ASSUME NEW open \in Seq(Brackets)
  PROVE  Front(open) \in Seq(Brackets)
<1>1. \A n \in 1 .. Len(open) - 1 : open[n] \in Brackets
  OBVIOUS
<1>2. 1 \in Int /\ Len(open) - 1 \in Int
  OBVIOUS
<1>3. SubSeq(open, 1, Len(open) - 1) \in Seq(Brackets)
  BY <1>1, <1>2, SubSeqProperties
<1> QED
  BY <1>3 DEF Front

(* Every token leads from a state to a state.                               *)
LEMMA ReadType ==
  ASSUME NEW s \in States, NEW token
  PROVE  Read(s, token) \in States
<1>1. /\ s.open \in Seq(Brackets)
      /\ s.next \in {"value", "element", "member", "key", "colon", "after", "error"}
      /\ s.outer \in Nat /\ s.inner \in Nat
      /\ s = [open |-> s.open, next |-> s.next, outer |-> s.outer, inner |-> s.inner]
  BY DEF States, Brackets
<1>2. ASSUME NEW open \in Seq(Brackets) PROVE Completed(s, open) \in States
  <2>1. /\ (IF open = <<>> THEN s.outer + 1 ELSE s.outer) \in Nat
        /\ (IF Len(open) = 1 THEN s.inner + 1 ELSE s.inner) \in Nat
    BY <1>1
  <2> QED
    BY <1>2, <2>1 DEF Completed, States, Brackets
<1>3. Completed(s, s.open) \in States /\ Completed(s, Front(s.open)) \in States
  BY <1>1, <1>2, FrontOfBrackets
<1>4. /\ Append(s.open, "{") \in Seq(Brackets) /\ Append(s.open, "[") \in Seq(Brackets)
  <2>1. ASSUME NEW open \in Seq(Brackets)
        PROVE  Append(open, "{") \in Seq(Brackets) /\ Append(open, "[") \in Seq(Brackets)
    <3>1. "{" \in Brackets /\ "[" \in Brackets
      BY DEF Brackets
    <3> QED
      BY <3>1, AppendProperties
  <2> QED
    BY <1>1, <2>1
<1>5. \A next \in {"value", "element", "member", "key", "colon", "after", "error"} :
        /\ [s EXCEPT !.next = next] \in States
        /\ [s EXCEPT !.next = next, !.inner = 0] \in States
        /\ [s EXCEPT !.open = Append(@, "{"), !.next = next] \in States
        /\ [s EXCEPT !.open = Append(@, "["), !.next = next] \in States
  BY <1>1, <1>4 DEF States, Brackets
<1> QED
  BY <1>3, <1>5 DEF Read

(* The tokens lead from every state to exactly one.                         *)
LEMMA ReadsSome ==
  ASSUME NEW s \in States, NEW tokens \in Seq(Tokens)
  PROVE  \E t \in States : Reads(s, tokens, t)
<1> DEFINE N == Len(tokens)
           step == [vn \in States \X (1 .. N) |-> Read(vn[1], tokens[vn[2]])]
<1>1. N \in Nat
  OBVIOUS
<1>2. step \in [States \X (1 .. N) -> States]
  BY ReadType
<1>3. PICK f : IsIteration(f, N, States, s, step)
  <2> HIDE DEF step, N
  <2> QED
    BY <1>1, <1>2, Iteration
<1>4. f \in [0 .. N -> States] /\ f[0] = s
      /\ \A n \in 1 .. N : f[n] = step[<<f[n - 1], n>>]
  BY <1>3 DEF IsIteration
<1>5. ASSUME NEW n \in 1 .. N PROVE f[n] = Read(f[n - 1], tokens[n])
  <2>1. n - 1 \in 0 .. N
    BY <1>1
  <2>2. f[n - 1] \in States
    BY <2>1, <1>4
  <2> QED
    BY <1>4, <2>2
<1>6. f[N] \in States
  BY <1>1, <1>4
<1> QED
  BY <1>4, <1>5, <1>6 DEF Reads, Run

(* The state a text leads to is the only one.                              *)
LEMMA ReadsOne ==
  ASSUME NEW s \in States, NEW tokens \in Seq(Tokens), NEW t, NEW u,
         Reads(s, tokens, t), Reads(s, tokens, u)
  PROVE  t = u /\ t \in States
<1> DEFINE N == Len(tokens)
<1>1. PICK f : Run(f, s, tokens) /\ f[N] = t
  BY DEF Reads
<1>2. PICK g : Run(g, s, tokens) /\ g[N] = u
  BY DEF Reads
<1>3. N \in Nat
  OBVIOUS
<1> DEFINE S == {n \in 0 .. N : f[n] = g[n]}
<1>4. 0 \in S
  BY <1>1, <1>2, <1>3 DEF Run
<1>5. ASSUME NEW n \in 1 .. N, n - 1 \in S PROVE n \in S
  BY <1>5, <1>1, <1>2 DEF Run
<1> HIDE DEF S
<1>6. 0 .. N \subseteq S
  BY <1>3, <1>4, <1>5, BoundedInduction
<1>7. N \in S
  BY <1>3, <1>6
<1>8. f[N] \in States
  BY <1>1, <1>3 DEF Run
<1> QED
  BY <1>1, <1>2, <1>7, <1>8 DEF S

(* No tokens, one token, and one sequence after another.                    *)
LEMMA ReadsNothing ==
  ASSUME NEW s \in States
  PROVE  Reads(s, <<>>, s)
<1> DEFINE run == [n \in 0 .. 0 |-> s]
<1>1. Run(run, s, <<>>) /\ run[Len(<<>>)] = s
  BY DEF Run
<1> QED
  BY <1>1 DEF Reads

(* A text of one token.                                                    *)
LEMMA ReadsToken ==
  ASSUME NEW s \in States, NEW token
  PROVE  Reads(s, <<token>>, Read(s, token))
<1> DEFINE run == [n \in 0 .. 1 |-> IF n = 0 THEN s ELSE Read(s, token)]
<1>1. Len(<<token>>) = 1 /\ <<token>>[1] = token
  OBVIOUS
<1>2. run \in [0 .. 1 -> States]
  BY ReadType
<1>3. run[0] = s /\ run[1] = Read(s, token)
  OBVIOUS
<1>4. \A n \in 1 .. 1 : n = 1 /\ n - 1 = 0
  OBVIOUS
<1> HIDE DEF run
<1>5. Run(run, s, <<token>>)
  BY <1>1, <1>2, <1>3, <1>4 DEF Run
<1> QED
  BY <1>1, <1>3, <1>5 DEF Reads

(* One text behind another.                                                *)
LEMMA ReadsConcat ==
  ASSUME NEW a \in Seq(Tokens), NEW b \in Seq(Tokens), NEW s, NEW t, NEW u,
         Reads(s, a, t), Reads(t, b, u)
  PROVE  Reads(s, a \o b, u)
<1>1. PICK f : Run(f, s, a) /\ f[Len(a)] = t
  BY DEF Reads
<1>2. PICK g : Run(g, t, b) /\ g[Len(b)] = u
  BY DEF Reads
<1> DEFINE M == Len(a)
           N == Len(b)
           h == [n \in 0 .. M + N |-> IF n <= M THEN f[n] ELSE g[n - M]]
<1>3. M \in Nat /\ N \in Nat /\ Len(a \o b) = M + N
  OBVIOUS
<1>4. \A n \in 1 .. M + N : (a \o b)[n] = IF n <= M THEN a[n] ELSE b[n - M]
  BY ConcatProperties
<1>5. /\ f \in [0 .. M -> States] /\ f[0] = s /\ f[M] = t
      /\ g \in [0 .. N -> States] /\ g[0] = t /\ g[N] = u
      /\ \A n \in 1 .. M : f[n] = Read(f[n - 1], a[n])
      /\ \A n \in 1 .. N : g[n] = Read(g[n - 1], b[n])
  BY <1>1, <1>2 DEF Run
<1> HIDE DEF M, N
<1>6. h \in [0 .. M + N -> States]
  <2>1. ASSUME NEW n \in 0 .. M + N
        PROVE  (IF n <= M THEN f[n] ELSE g[n - M]) \in States
    <3>1. CASE n <= M
      <4>1. n \in 0 .. M
        BY <3>1, <1>3
      <4> QED
        BY <3>1, <4>1, <1>5
    <3>2. CASE ~(n <= M)
      <4>1. n - M \in 0 .. N
        BY <3>2, <1>3
      <4> QED
        BY <3>2, <4>1, <1>5
    <3> QED
      BY <3>1, <3>2
  <2> QED
    BY <2>1
<1>7. h[0] = s
  <2>1. 0 \in 0 .. M + N /\ 0 <= M
    BY <1>3
  <2> QED
    BY <2>1, <1>5
<1>8. h[M + N] = u
  <2>1. M + N \in 0 .. M + N
    BY <1>3
  <2>2. CASE N = 0
    <3>1. M + N = M /\ M + N <= M
      BY <2>2, <1>3
    <3> QED
      BY <2>1, <3>1, <2>2, <1>5
  <2>3. CASE N # 0
    <3>1. ~(M + N <= M) /\ (M + N) - M = N
      BY <2>3, <1>3
    <3> QED
      BY <2>1, <3>1, <1>5
  <2> QED
    BY <2>2, <2>3
<1>9. ASSUME NEW n \in 1 .. M + N PROVE h[n] = Read(h[n - 1], (a \o b)[n])
  <2>1. n \in 0 .. M + N /\ n - 1 \in 0 .. M + N
    BY <1>3
  <2>2. CASE n <= M
    <3>1. n \in 1 .. M /\ n - 1 <= M
      BY <2>2, <1>3
    <3>2. h[n] = f[n] /\ h[n - 1] = f[n - 1] /\ (a \o b)[n] = a[n]
      BY <2>1, <2>2, <3>1, <1>4
    <3> QED
      BY <3>1, <3>2, <1>5
  <2>3. CASE ~(n <= M)
    <3>1. n - M \in 1 .. N
      BY <2>3, <1>3
    <3>2. h[n] = g[n - M] /\ (a \o b)[n] = b[n - M]
      BY <2>1, <2>3, <1>4
    <3>3. h[n - 1] = g[(n - M) - 1]
      <4>1. CASE n - 1 <= M
        <5>1. n - 1 = M /\ (n - M) - 1 = 0
          BY <4>1, <2>3, <1>3
        <5> QED
          BY <4>1, <5>1, <2>1, <1>5
      <4>2. CASE ~(n - 1 <= M)
        <5>1. (n - 1) - M = (n - M) - 1
          BY <1>3
        <5> QED
          BY <4>2, <5>1, <2>1
      <4> QED
        BY <4>1, <4>2
    <3> QED
      BY <3>1, <3>2, <3>3, <1>5
  <2> QED
    BY <2>2, <2>3
<1> HIDE DEF h
<1>10. Run(h, s, a \o b)
  BY <1>3, <1>6, <1>7, <1>9 DEF Run
<1> QED
  BY <1>3, <1>8, <1>10 DEF Reads

(* The state after all tokens is reached only by their reading.             *)
LEMMA ReadsOnly ==
  ASSUME NEW s \in States, NEW a \in Seq(Tokens), NEW b \in Seq(Tokens), NEW u \in States,
         Reads(s, a \o b, u)
  PROVE  \E t \in States : Reads(s, a, t) /\ Reads(t, b, u)
<1>1. PICK t \in States : Reads(s, a, t)
  BY ReadsSome
<1>2. PICK v \in States : Reads(t, b, v)
  BY ReadsSome
<1>3. Reads(s, a \o b, v)
  BY <1>1, <1>2, ReadsConcat
<1>4. a \o b \in Seq(Tokens)
  OBVIOUS
<1>5. u = v
  BY <1>3, <1>4, ReadsOne
<1> QED
  BY <1>1, <1>2, <1>5

(* Nothing is expected after an error.                                      *)
LEMMA ErrorStays ==
  ASSUME NEW s \in States, s.next = "error", NEW tokens \in Seq(Tokens)
  PROVE  Reads(s, tokens, s)
<1>1. \A token : Read(s, token) = s
  <2>1. Expected(s) = {}
    BY DEF Expected
  <2>2. [s EXCEPT !.next = "error"] = s
    BY DEF States
  <2> QED
    BY <2>1, <2>2 DEF Read
<1> DEFINE run == [n \in 0 .. Len(tokens) |-> s]
<1>2. Len(tokens) \in Nat
  OBVIOUS
<1>3. Run(run, s, tokens) /\ run[Len(tokens)] = s
  <2>1. \A n \in 1 .. Len(tokens) : run[n] = s /\ run[n - 1] = s
    BY <1>2
  <2>2. run[0] = s /\ run[Len(tokens)] = s
    BY <1>2
  <2> QED
    BY <1>1, <2>1, <2>2 DEF Run
<1> QED
  BY <1>3 DEF Reads

(***************************************************************************)
(* Parsed, by halves, reads the tokens from the start.                      *)
(***************************************************************************)
Halves(tokens, read) ==
  read = [run \in States \X (1 .. Len(tokens) + 1) \X (0 .. Len(tokens)) |->
            LET state == run[1]
                from == run[2]
                to == run[3]
                middle == (from + to) \div 2
            IN  IF from > to THEN state
                ELSE IF from = to THEN Read(state, tokens[from])
                ELSE read[<<read[<<state, from, middle>>], middle + 1, to>>]]

ByHalves(tokens, read) ==
  \A state \in States, from \in 1 .. Len(tokens) + 1, to \in 0 .. Len(tokens) :
    read[<<state, from, to>>] =
      LET middle == (from + to) \div 2
      IN  IF from > to THEN state
          ELSE IF from = to THEN Read(state, tokens[from])
          ELSE read[<<read[<<state, from, middle>>], middle + 1, to>>]

ReadsPart(tokens, state, from, to, t) == Reads(state, SubSeq(tokens, from, to), t)

(* The part of the tokens from a position to another.                       *)
LEMMA PartType ==
  ASSUME NEW tokens \in Seq(Tokens),
         NEW from \in 1 .. Len(tokens) + 1, NEW to \in 0 .. Len(tokens)
  PROVE  /\ SubSeq(tokens, from, to) \in Seq(Tokens)
         /\ from > to => SubSeq(tokens, from, to) = <<>>
         /\ from = to => SubSeq(tokens, from, to) = <<tokens[from]>>
<1>1. Len(tokens) \in Nat /\ from \in Int /\ to \in Int
  OBVIOUS
<1>2. \A k \in from .. to : tokens[k] \in Tokens
  BY <1>1
<1>3. SubSeq(tokens, from, to) \in Seq(Tokens)
  BY <1>1, <1>2, SubSeqProperties
<1>4. from > to => SubSeq(tokens, from, to) = <<>>
  BY <1>1, SubSeqEmpty
<1>5. ASSUME from = to PROVE SubSeq(tokens, from, to) = <<tokens[from]>>
  <2> DEFINE part == SubSeq(tokens, from, to)
  <2>1. /\ part \in Seq(Tokens)
        /\ Len(part) = IF from <= to THEN to - from + 1 ELSE 0
        /\ \A k \in 1 .. to - from + 1 : part[k] = tokens[from + k - 1]
    BY <1>1, <1>2, SubSeqProperties
  <2>2. Len(part) = 1 /\ from <= to /\ to - from + 1 = 1 /\ from + 1 - 1 = from
    BY <1>5, <1>1, <2>1
  <2>3. part[1] = tokens[from]
    BY <2>1, <2>2
  <2> HIDE DEF part
  <2>4. part = <<tokens[from]>>
    BY <2>1, <2>2, <2>3
  <2> QED
    BY <2>4 DEF part
<1> QED
  BY <1>3, <1>4, <1>5

(* The two halves of a part.                                                *)
LEMMA HalfParts ==
  ASSUME NEW tokens \in Seq(Tokens),
         NEW from \in 1 .. Len(tokens) + 1, NEW to \in 0 .. Len(tokens), from < to,
         NEW middle, middle = (from + to) \div 2
  PROVE  /\ middle \in from .. to - 1
         /\ middle \in 0 .. Len(tokens) /\ middle + 1 \in 1 .. Len(tokens) + 1
         /\ SubSeq(tokens, from, to) =
              SubSeq(tokens, from, middle) \o SubSeq(tokens, middle + 1, to)
<1>1. Len(tokens) \in Nat /\ from \in Nat /\ to \in Nat
  OBVIOUS
<1>2. middle \in from .. to - 1
  BY <1>1, Z3
<1>3. /\ middle \in from - 1 .. Len(tokens) /\ to \in middle .. Len(tokens)
      /\ middle \in 0 .. Len(tokens) /\ middle + 1 \in 1 .. Len(tokens) + 1
  BY <1>1, <1>2
<1>4. SubSeq(tokens, from, middle) \o SubSeq(tokens, middle + 1, to)
        = SubSeq(tokens, from, to)
  BY <1>3, ConcatAdjacentSubSeq
<1> QED
  BY <1>2, <1>3, <1>4

(* Whatever obeys the equation reads every part.                            *)
LEMMA ByHalvesReads ==
  ASSUME NEW tokens \in Seq(Tokens), NEW read, ByHalves(tokens, read)
  PROVE  \A state \in States, from \in 1 .. Len(tokens) + 1, to \in 0 .. Len(tokens) :
           /\ read[<<state, from, to>>] \in States
           /\ ReadsPart(tokens, state, from, to, read[<<state, from, to>>])
<1> DEFINE N == Len(tokens)
           Right(state, from, to) ==
             /\ read[<<state, from, to>>] \in States
             /\ ReadsPart(tokens, state, from, to, read[<<state, from, to>>])
           S == {n \in 0 .. N : \A state \in States, from \in 1 .. N + 1, to \in 0 .. N :
                                  to < from + n => Right(state, from, to)}
<1>1. N \in Nat
  OBVIOUS
<1>2. ASSUME NEW state \in States, NEW from \in 1 .. N + 1, NEW to \in 0 .. N, from > to
      PROVE  Right(state, from, to)
  <2>1. read[<<state, from, to>>] = state
    <3>1. ~(from = to) /\ ~(from < to)
      BY <1>2
    <3> QED
      BY <1>2, <3>1 DEF ByHalves
  <2>2. SubSeq(tokens, from, to) = <<>>
    BY <1>2, PartType
  <2> QED
    BY <2>1, <2>2, ReadsNothing DEF ReadsPart
<1>3. ASSUME NEW state \in States, NEW from \in 1 .. N + 1, NEW to \in 0 .. N, from = to
      PROVE  Right(state, from, to)
  <2>1. read[<<state, from, to>>] = Read(state, tokens[from])
    <3>1. ~(from > to) /\ ~(from < to)
      BY <1>3
    <3> QED
      BY <1>3, <3>1 DEF ByHalves
  <2>2. SubSeq(tokens, from, to) = <<tokens[from]>>
    BY <1>3, PartType
  <2> QED
    BY <2>1, <2>2, ReadsToken, ReadType DEF ReadsPart
<1>4. 0 \in S
  <2>1. ASSUME NEW state \in States, NEW from \in 1 .. N + 1, NEW to \in 0 .. N, to < from + 0
        PROVE  from > to
    BY <2>1
  <2> QED
    BY <1>1, <1>2, <2>1
<1>5. ASSUME NEW n \in 1 .. N, n - 1 \in S PROVE n \in S
  <2>1. ASSUME NEW state \in States, NEW from \in 1 .. N + 1, NEW to \in 0 .. N, to < from + n,
               from < to
        PROVE  Right(state, from, to)
    <3> DEFINE middle == (from + to) \div 2
               between == read[<<state, from, middle>>]
               end == read[<<between, middle + 1, to>>]
    <3>1. read[<<state, from, to>>] = end
      <4>1. ~(from > to) /\ ~(from = to)
        BY <2>1
      <4> QED
        BY <2>1, <4>1 DEF ByHalves
    <3>2. /\ middle \in from .. to - 1
          /\ middle \in 0 .. N /\ middle + 1 \in 1 .. N + 1
          /\ SubSeq(tokens, from, to) =
               SubSeq(tokens, from, middle) \o SubSeq(tokens, middle + 1, to)
      BY <2>1, HalfParts
    <3>3. /\ SubSeq(tokens, from, middle) \in Seq(Tokens)
          /\ SubSeq(tokens, middle + 1, to) \in Seq(Tokens)
      BY <3>2, PartType
    <3> HIDE DEF middle
    <3>4. middle < from + (n - 1) /\ to < (middle + 1) + (n - 1)
      BY <2>1, <3>2, <1>1
    <3>5. Right(state, from, middle)
      BY <3>2, <3>4, <1>5
    <3>6. Right(between, middle + 1, to)
      BY <3>2, <3>4, <3>5, <1>5
    <3>7. Reads(state, SubSeq(tokens, from, middle), between)
          /\ Reads(between, SubSeq(tokens, middle + 1, to), end)
      BY <3>5, <3>6 DEF ReadsPart
    <3>8. Reads(state, SubSeq(tokens, from, to), end)
      <4> HIDE DEF between, end
      <4> QED
        BY <3>2, <3>3, <3>7, ReadsConcat
    <3> QED
      BY <3>1, <3>6, <3>8 DEF ReadsPart
  <2>2. \A from \in 1 .. N + 1, to \in 0 .. N : from > to \/ from = to \/ from < to
    OBVIOUS
  <2> HIDE DEF Right
  <2> QED
    BY <1>2, <1>3, <2>1, <2>2
<1> HIDE DEF S
<1>6. 0 .. N \subseteq S
  <2> HIDE DEF N
  <2> QED
    BY <1>1, <1>4, <1>5, BoundedInduction
<1>7. N \in S
  BY <1>1, <1>6
<1> HIDE DEF Right
<1>8. ASSUME NEW state \in States, NEW from \in 1 .. N + 1, NEW to \in 0 .. N
      PROVE  Right(state, from, to)
  <2>1. to < from + N
    BY <1>1
  <2> QED
    BY <1>7, <2>1 DEF S
<1> QED
  BY <1>8 DEF Right

(* Something obeys it.                                                      *)
LEMMA HalvesExists ==
  ASSUME NEW tokens \in Seq(Tokens)
  PROVE  \E read : Halves(tokens, read)
<1> DEFINE N == Len(tokens)
           Runs == States \X (1 .. N + 1) \X (0 .. N)
           w == [run \in Runs |->
                   CHOOSE t \in States : ReadsPart(tokens, run[1], run[2], run[3], t)]
<1>1. N \in Nat
  OBVIOUS
<1>2. ASSUME NEW state \in States, NEW from \in 1 .. N + 1, NEW to \in 0 .. N
      PROVE  /\ w[<<state, from, to>>] \in States
             /\ ReadsPart(tokens, state, from, to, w[<<state, from, to>>])
  <2>1. \E t \in States : ReadsPart(tokens, state, from, to, t)
    BY PartType, ReadsSome DEF ReadsPart
  <2>2. <<state, from, to>> \in Runs
    OBVIOUS
  <2>3. w[<<state, from, to>>] = CHOOSE t \in States : ReadsPart(tokens, state, from, to, t)
    BY <2>2
  <2> HIDE DEF w
  <2> QED
    BY <2>1, <2>3
<1>3. ASSUME NEW state \in States, NEW from \in 1 .. N + 1, NEW to \in 0 .. N,
             NEW t, ReadsPart(tokens, state, from, to, t)
      PROVE  w[<<state, from, to>>] = t
  <2> HIDE DEF w
  <2>1. SubSeq(tokens, from, to) \in Seq(Tokens)
    BY PartType
  <2> QED
    BY <1>2, <1>3, <2>1, ReadsOne DEF ReadsPart
<1> DEFINE Body(run) ==
             LET state == run[1]
                 from == run[2]
                 to == run[3]
                 middle == (from + to) \div 2
             IN  IF from > to THEN state
                 ELSE IF from = to THEN Read(state, tokens[from])
                 ELSE w[<<w[<<state, from, middle>>], middle + 1, to>>]
<1> HIDE DEF w
<1>4. ASSUME NEW state \in States, NEW from \in 1 .. N + 1, NEW to \in 0 .. N
      PROVE  w[<<state, from, to>>] = Body(<<state, from, to>>)
  <2>1. CASE from > to
    <3>1. ReadsPart(tokens, state, from, to, state)
      BY <2>1, PartType, ReadsNothing DEF ReadsPart
    <3>2. Body(<<state, from, to>>) = state
      BY <2>1
    <3> QED
      BY <3>1, <3>2, <1>3
  <2>2. CASE from = to
    <3>1. ReadsPart(tokens, state, from, to, Read(state, tokens[from]))
      BY <2>2, PartType, ReadsToken DEF ReadsPart
    <3>2. Body(<<state, from, to>>) = Read(state, tokens[from])
      <4>1. ~(from > to) /\ ~(from < to)
        BY <2>2
      <4> QED
        BY <2>2, <4>1
    <3> QED
      BY <3>1, <3>2, <1>3
  <2>3. CASE from < to
    <3> DEFINE middle == (from + to) \div 2
               between == w[<<state, from, middle>>]
               end == w[<<between, middle + 1, to>>]
    <3>1. /\ middle \in 0 .. N /\ middle + 1 \in 1 .. N + 1
          /\ SubSeq(tokens, from, to) =
               SubSeq(tokens, from, middle) \o SubSeq(tokens, middle + 1, to)
      BY <2>3, HalfParts
    <3>2. Body(<<state, from, to>>) = end
      <4>1. ~(from > to) /\ ~(from = to)
        BY <2>3
      <4> QED
        BY <2>3, <4>1
    <3> HIDE DEF middle, Body
    <3>3. /\ between \in States
          /\ Reads(state, SubSeq(tokens, from, middle), between)
      BY <3>1, <1>2 DEF ReadsPart
    <3>4. Reads(between, SubSeq(tokens, middle + 1, to), end)
      <4> HIDE DEF between
      <4> QED
        BY <3>1, <3>3, <1>2 DEF ReadsPart
    <3>5. /\ SubSeq(tokens, from, middle) \in Seq(Tokens)
          /\ SubSeq(tokens, middle + 1, to) \in Seq(Tokens)
      BY <3>1, PartType
    <3> HIDE DEF between, end
    <3>6. ReadsPart(tokens, state, from, to, end)
      BY <3>1, <3>3, <3>4, <3>5, ReadsConcat DEF ReadsPart
    <3> QED
      BY <3>2, <3>6, <1>3
  <2>4. from > to \/ from = to \/ from < to
    OBVIOUS
  <2> QED
    BY <2>1, <2>2, <2>3, <2>4
<1>5. ASSUME NEW run \in Runs PROVE w[run] = Body(run)
  <2>1. PICK state \in States, from \in 1 .. N + 1, to \in 0 .. N : run = <<state, from, to>>
    OBVIOUS
  <2> HIDE DEF Body
  <2> QED
    BY <2>1, <1>4
<1>6. w = [run \in Runs |-> w[run]]
  BY DEF w
<1>7. w = [run \in Runs |-> Body(run)]
  <2> HIDE DEF Body, Runs
  <2> QED
    BY <1>5, <1>6
<1>8. Halves(tokens, w)
  BY <1>7 DEF Halves
<1> QED
  BY <1>8

(* The function of Parsed, in terms of its three arguments.                *)
LEMMA HalvesIsByHalves ==
  ASSUME NEW tokens \in Seq(Tokens), NEW read, Halves(tokens, read)
  PROVE  ByHalves(tokens, read)
<1> SUFFICES ASSUME NEW state \in States, NEW from \in 1 .. Len(tokens) + 1,
                    NEW to \in 0 .. Len(tokens)
             PROVE  read[<<state, from, to>>] =
                      LET middle == (from + to) \div 2
                      IN  IF from > to THEN state
                          ELSE IF from = to THEN Read(state, tokens[from])
                          ELSE read[<<read[<<state, from, middle>>], middle + 1, to>>]
  BY DEF ByHalves
<1>1. <<state, from, to>> \in States \X (1 .. Len(tokens) + 1) \X (0 .. Len(tokens))
  OBVIOUS
<1>2. /\ <<state, from, to>>[1] = state /\ <<state, from, to>>[2] = from
      /\ <<state, from, to>>[3] = to
  OBVIOUS
<1> QED
  BY <1>1, <1>2 DEF Halves

(* The automaton's result is the state its tokens lead to from the start.   *)
LEMMA ParsedReads ==
  ASSUME NEW tokens \in Seq(Tokens)
  PROVE  Start \in States /\ Reads(Start, tokens, Parsed(tokens))
<1>1. Start \in States
  <2>1. <<>> \in Seq(Brackets)
    OBVIOUS
  <2> QED
    BY <2>1 DEF Start, States, Brackets
<1>2. PICK read : Halves(tokens, read) /\ Parsed(tokens) = read[<<Start, 1, Len(tokens)>>]
  <2> DEFINE read == CHOOSE read : Halves(tokens, read)
  <2>1. Halves(tokens, read)
    BY HalvesExists
  <2>2. Parsed(tokens) = read[<<Start, 1, Len(tokens)>>]
    BY DEF Parsed, Halves
  <2> QED
    BY <2>1, <2>2
<1>3. Len(tokens) \in Nat /\ SubSeq(tokens, 1, Len(tokens)) = tokens
  BY SubSeqFull
<1>4. 1 \in 1 .. Len(tokens) + 1 /\ Len(tokens) \in 0 .. Len(tokens)
  BY <1>3
<1>5. ReadsPart(tokens, Start, 1, Len(tokens), read[<<Start, 1, Len(tokens)>>])
  BY <1>1, <1>2, <1>4, HalvesIsByHalves, ByHalvesReads
<1> QED
  BY <1>1, <1>2, <1>3, <1>5 DEF ReadsPart

(***************************************************************************)
(* Lists with a comma between two elements.                                 *)
(***************************************************************************)
Texts == Seq(Tokens)

Flattens(seqs, flat) ==
  /\ flat \in [0 .. Len(seqs) -> Texts]
  /\ flat[0] = <<>>
  /\ \A n \in 1 .. Len(seqs) : flat[n] = flat[n - 1] \o seqs[n]

(* FlattenSeq appends one element after the other.                          *)
LEMMA FlattenDef ==
  ASSUME NEW seqs \in Seq(Texts)
  PROVE  \E flat : Flattens(seqs, flat) /\ FlattenSeq(seqs) = flat[Len(seqs)]
<1> DEFINE N == Len(seqs)
           step == [vn \in Texts \X (1 .. N) |-> vn[1] \o seqs[vn[2]]]
<1>1. N \in Nat /\ \A n \in 1 .. N : seqs[n] \in Texts
  OBVIOUS
<1>2. step \in [Texts \X (1 .. N) -> Texts]
  <2>1. \A a, b \in Texts : a \o b \in Texts
    BY DEF Texts
  <2> HIDE DEF Texts
  <2> QED
    BY <1>1, <2>1
<1>3. <<>> \in Texts
  BY DEF Texts
<1>4. PICK f : IsIteration(f, N, Texts, <<>>, step)
  <2> HIDE DEF step, N, Texts
  <2> QED
    BY <1>1, <1>2, <1>3, Iteration
<1> HIDE DEF Texts
<1>5. f \in [0 .. N -> Texts] /\ f[0] = <<>>
      /\ \A n \in 1 .. N : f[n] = step[<<f[n - 1], n>>]
  BY <1>4 DEF IsIteration
<1>6. ASSUME NEW n \in 1 .. N PROVE f[n] = f[n - 1] \o seqs[n]
  <2>1. n - 1 \in 0 .. N
    BY <1>1
  <2>2. f[n - 1] \in Texts
    BY <2>1, <1>5
  <2> QED
    BY <1>5, <2>2
<1>7. Flattens(seqs, f)
  BY <1>5, <1>6 DEF Flattens
<1> HIDE DEF step
<1>8. CASE N = 0
  <2>1. seqs = <<>>
    BY <1>8
  <2>2. FlattenSeq(seqs) = seqs
    BY <1>8 DEF FlattenSeq
  <2> QED
    BY <1>5, <1>7, <1>8, <2>1, <2>2
<1>9. CASE N # 0
  <2> DEFINE Flat(g) == g = [k \in 1 .. Len(seqs) |->
                               IF k = 1 THEN seqs[k] ELSE g[k - 1] \o seqs[k]]
             g == CHOOSE g : Flat(g)
             h == [k \in 1 .. N |-> f[k]]
  <2>1. Flat(h)
    <3>1. ASSUME NEW k \in 1 .. N
          PROVE  f[k] = IF k = 1 THEN seqs[k] ELSE h[k - 1] \o seqs[k]
      <4>1. CASE k = 1
        <5>1. f[k] = <<>> \o seqs[k]
          <6>1. f[k] = f[k - 1] \o seqs[k]
            BY <1>6
          <6>2. k - 1 = 0
            BY <4>1
          <6> QED
            BY <6>1, <6>2, <1>5
        <5>2. <<>> \o seqs[k] = seqs[k]
          BY <1>1 DEF Texts
        <5> QED
          BY <4>1, <5>1, <5>2
      <4>2. CASE k # 1
        <5>1. k - 1 \in 1 .. N
          BY <4>2, <1>1
        <5> QED
          BY <4>2, <5>1, <1>6
      <4> QED
        BY <4>1, <4>2
    <3> QED
      BY <3>1
  <2>2. Flat(g)
    <3> HIDE DEF h, Flat
    <3> QED
      BY <2>1
  <2>3. FlattenSeq(seqs) = g[N]
    <3>1. ~(Len(seqs) = 0)
      BY <1>9
    <3> QED
      BY <3>1 DEF FlattenSeq
  <2>4. \A k \in 1 .. N : g[k] = IF k = 1 THEN seqs[k] ELSE g[k - 1] \o seqs[k]
    <3> HIDE DEF g
    <3> QED
      BY <2>2
  <2> HIDE DEF g, Flat
  <2> DEFINE S == {n \in 0 .. N : n # 0 => g[n] = f[n]}
  <2>5. 0 \in S
    BY <1>1
  <2>6. ASSUME NEW n \in 1 .. N, n - 1 \in S PROVE n \in S
    <3>1. CASE n = 1
      <4>1. f[n] = <<>> \o seqs[n]
        <5>1. f[n] = f[n - 1] \o seqs[n]
          BY <1>6
        <5>2. n - 1 = 0
          BY <3>1
        <5> QED
          BY <5>1, <5>2, <1>5
      <4>2. <<>> \o seqs[n] = seqs[n]
        BY <1>1 DEF Texts
      <4>3. g[n] = seqs[n]
        BY <3>1, <2>4
      <4> QED
        BY <4>1, <4>2, <4>3
    <3>2. CASE n # 1
      <4>1. n \in 0 .. N /\ n - 1 # 0
        BY <3>2
      <4>2. g[n - 1] = f[n - 1]
        BY <4>1, <2>6
      <4>3. g[n] = g[n - 1] \o seqs[n]
        BY <3>2, <2>4
      <4>4. f[n] = f[n - 1] \o seqs[n]
        BY <1>6
      <4> QED
        BY <4>1, <4>2, <4>3, <4>4
    <3> QED
      BY <3>1, <3>2
  <2> HIDE DEF S, h
  <2>7. 0 .. N \subseteq S
    <3> HIDE DEF N
    <3> QED
      BY <1>1, <2>5, <2>6, BoundedInduction
  <2>8. g[N] = f[N]
    <3>1. N \in S
      BY <1>1, <2>7
    <3> QED
      BY <3>1, <1>9 DEF S
  <2> QED
    BY <1>7, <2>3, <2>8
<1> QED
  BY <1>8, <1>9

(* Any function with the recursion of FlattenSeq computes it.              *)
LEMMA FlattenOnly ==
  ASSUME NEW seqs \in Seq(Texts), NEW flat, Flattens(seqs, flat)
  PROVE  FlattenSeq(seqs) = flat[Len(seqs)]
<1> DEFINE N == Len(seqs)
<1>1. N \in Nat
  OBVIOUS
<1>2. PICK f : Flattens(seqs, f) /\ FlattenSeq(seqs) = f[N]
  BY FlattenDef
<1> DEFINE S == {n \in 0 .. N : f[n] = flat[n]}
<1>3. 0 \in S
  BY <1>1, <1>2 DEF Flattens
<1>4. ASSUME NEW n \in 1 .. N, n - 1 \in S PROVE n \in S
  BY <1>4, <1>2 DEF Flattens
<1> HIDE DEF S
<1>5. 0 .. N \subseteq S
  <2> HIDE DEF N
  <2> QED
    BY <1>1, <1>3, <1>4, BoundedInduction
<1>6. N \in S
  BY <1>1, <1>5
<1> QED
  BY <1>2, <1>6 DEF S

(* Each element with the comma Separated writes behind it.                  *)
WithCommas(parts) ==
  [k \in DOMAIN parts |-> IF k # Len(parts) THEN Append(parts[k], ",") ELSE parts[k]]

(* Separated flattens the parts with their commas.                         *)
LEMMA WithCommasType ==
  ASSUME NEW parts \in Seq(Texts)
  PROVE  /\ WithCommas(parts) \in Seq(Texts)
         /\ Len(WithCommas(parts)) = Len(parts)
         /\ Separated(parts) = FlattenSeq(WithCommas(parts))
<1> DEFINE N == Len(parts)
           c(k) == IF k # N THEN Append(parts[k], ",") ELSE parts[k]
<1>1. N \in Nat /\ DOMAIN parts = 1 .. N /\ \A k \in 1 .. N : parts[k] \in Texts
  OBVIOUS
<1>2. ASSUME NEW k \in 1 .. N PROVE c(k) \in Texts
  <2>1. "," \in Tokens
    BY DEF Tokens
  <2>2. parts[k] \in Seq(Tokens)
    BY <1>1 DEF Texts
  <2>3. Append(parts[k], ",") \in Seq(Tokens)
    BY <2>1, <2>2, AppendProperties
  <2> QED
    BY <2>2, <2>3 DEF Texts
<1>3. WithCommas(parts) = [k \in 1 .. N |-> c(k)]
  BY <1>1 DEF WithCommas
<1> HIDE DEF c
<1>4. [k \in 1 .. N |-> c(k)] \in Seq(Texts) /\ Len([k \in 1 .. N |-> c(k)]) = N
  <2> HIDE DEF N, Texts
  <2> QED
    BY <1>1, <1>2
<1>5. Separated(parts) = FlattenSeq(WithCommas(parts))
  BY DEF Separated, WithCommas
<1> QED
  BY <1>3, <1>4, <1>5

(* A separated list of texts is a text.                                    *)
LEMMA SeparatedType ==
  ASSUME NEW parts \in Seq(Texts)
  PROVE  Separated(parts) \in Texts
<1> DEFINE c == WithCommas(parts)
<1>1. c \in Seq(Texts) /\ Separated(parts) = FlattenSeq(c)
  BY WithCommasType
<1> HIDE DEF c
<1>2. PICK flat : Flattens(c, flat) /\ FlattenSeq(c) = flat[Len(c)]
  BY <1>1, FlattenDef
<1>3. Len(c) \in 0 .. Len(c)
  BY <1>1
<1> QED
  BY <1>1, <1>2, <1>3 DEF Flattens

(* Nothing is written for no elements, and one has no comma.                *)
LEMMA SeparatedFew ==
  /\ Separated(<<>>) = <<>>
  /\ \A text \in Texts : Separated(<<text>>) = text
<1>1. Separated(<<>>) = <<>>
  <2> DEFINE none == <<>>
  <2>1. none \in Seq(Texts) /\ Len(none) = 0
    OBVIOUS
  <2> HIDE DEF none
  <2>2. /\ WithCommas(none) \in Seq(Texts) /\ Len(WithCommas(none)) = 0
        /\ Separated(none) = FlattenSeq(WithCommas(none))
    BY <2>1, WithCommasType
  <2>3. PICK flat : Flattens(WithCommas(none), flat) /\ Separated(none) = flat[0]
    BY <2>2, FlattenDef
  <2>4. Separated(none) = <<>>
    BY <2>3 DEF Flattens
  <2> QED
    BY <2>4 DEF none
<1>2. ASSUME NEW text \in Texts PROVE Separated(<<text>>) = text
  <2> DEFINE one == <<text>>
  <2>1. one \in Seq(Texts) /\ Len(one) = 1 /\ one[1] = text /\ DOMAIN one = 1 .. 1
    OBVIOUS
  <2> HIDE DEF one
  <2>2. /\ WithCommas(one) \in Seq(Texts) /\ Len(WithCommas(one)) = 1
        /\ Separated(one) = FlattenSeq(WithCommas(one))
    BY <2>1, WithCommasType
  <2>3. WithCommas(one)[1] = text
    BY <2>1 DEF WithCommas
  <2>4. PICK flat : Flattens(WithCommas(one), flat) /\ Separated(one) = flat[1]
    BY <2>2, FlattenDef
  <2>5. flat[1] = flat[1 - 1] \o WithCommas(one)[1] /\ flat[1 - 1] = <<>>
    BY <2>2, <2>4 DEF Flattens
  <2>6. <<>> \o text = text
    BY DEF Texts
  <2> QED
    BY <2>3, <2>4, <2>5, <2>6 DEF one
<1> QED
  BY <1>1, <1>2

(* An element put behind the last of two sequences.                         *)
LEMMA AppendToConcat ==
  ASSUME NEW a \in Seq(Tokens), NEW b \in Seq(Tokens), NEW token \in Tokens
  PROVE  a \o Append(b, token) = (a \o b) \o <<token>>
<1>1. <<token>> \in Seq(Tokens)
  OBVIOUS
<1>2. Append(b, token) = b \o <<token>>
  BY AppendIsConcat
<1>3. (a \o b) \o <<token>> = a \o (b \o <<token>>)
  BY <1>1, ConcatAssociative
<1> QED
  BY <1>2, <1>3

(* Another element is written behind a comma.                               *)
LEMMA SeparatedAppend ==
  ASSUME NEW parts \in Seq(Texts), NEW text \in Texts, Len(parts) > 0
  PROVE  /\ Append(parts, text) \in Seq(Texts)
         /\ Separated(Append(parts, text)) = (Separated(parts) \o <<",">>) \o text
<1> DEFINE N == Len(parts)
           more == Append(parts, text)
           c == WithCommas(parts)
           d == WithCommas(more)
<1>0. N \in Nat /\ N > 0
  OBVIOUS
<1>1. /\ N \in Nat /\ more \in Seq(Texts) /\ Len(more) = N + 1
      /\ DOMAIN parts = 1 .. N /\ DOMAIN more = 1 .. N + 1
      /\ more[N + 1] = text /\ \A k \in 1 .. N : more[k] = parts[k] /\ parts[k] \in Texts
  <2> HIDE DEF Texts
  <2> QED
    OBVIOUS
<1> HIDE DEF more
<1>2. /\ c \in Seq(Texts) /\ Len(c) = N /\ Separated(parts) = FlattenSeq(c)
      /\ d \in Seq(Texts) /\ Len(d) = N + 1 /\ Separated(more) = FlattenSeq(d)
  BY <1>1, WithCommasType
<1>3. /\ \A k \in 1 .. N - 1 : c[k] = d[k]
      /\ c[N] = parts[N] /\ d[N] = Append(parts[N], ",") /\ d[N + 1] = text
  <2>1. ASSUME NEW k \in 1 .. N - 1 PROVE c[k] = d[k]
    <3>1. k # N /\ k # N + 1 /\ k \in 1 .. N /\ k \in 1 .. N + 1
      BY <1>0
    <3> QED
      BY <1>1, <3>1 DEF WithCommas
  <2>2. N \in 1 .. N /\ N \in 1 .. N + 1 /\ N + 1 \in 1 .. N + 1 /\ N # N + 1
    BY <1>0
  <2> QED
    BY <1>1, <2>1, <2>2 DEF WithCommas
<1> HIDE DEF c, d, N
<1>4. PICK f : Flattens(c, f) /\ FlattenSeq(c) = f[N]
  BY <1>2, FlattenDef
<1>5. PICK g : Flattens(d, g) /\ FlattenSeq(d) = g[N + 1]
  BY <1>2, FlattenDef
<1>6. /\ f \in [0 .. N -> Texts] /\ f[0] = <<>>
      /\ \A n \in 1 .. N : f[n] = f[n - 1] \o c[n]
      /\ g \in [0 .. N + 1 -> Texts] /\ g[0] = <<>>
      /\ \A n \in 1 .. N + 1 : g[n] = g[n - 1] \o d[n]
  BY <1>2, <1>4, <1>5 DEF Flattens
<1> DEFINE S == {n \in 0 .. N - 1 : f[n] = g[n]}
<1>7. N - 1 \in Nat /\ 0 \in S
  BY <1>1, <1>6 DEF N
<1>8. ASSUME NEW n \in 1 .. N - 1, n - 1 \in S PROVE n \in S
  <2>1. n \in 1 .. N /\ n \in 1 .. N + 1 /\ n \in 0 .. N - 1
    BY <1>1
  <2> QED
    BY <1>3, <1>6, <1>8, <2>1
<1> HIDE DEF S
<1>9. 0 .. N - 1 \subseteq S
  BY <1>7, <1>8, BoundedInduction
<1>10. f[N - 1] = g[N - 1]
  <2>1. N - 1 \in S
    BY <1>7, <1>9
  <2> QED
    BY <2>1 DEF S
<1>11. f[N] = f[N - 1] \o parts[N] /\ g[N] = g[N - 1] \o Append(parts[N], ",")
       /\ g[N + 1] = g[N] \o text
  <2>1. N \in 1 .. N /\ N \in 1 .. N + 1 /\ N + 1 \in 1 .. N + 1 /\ (N + 1) - 1 = N
    BY <1>1, <1>7
  <2>2. g[N + 1] = g[(N + 1) - 1] \o d[N + 1]
    BY <1>6, <2>1
  <2> QED
    BY <1>3, <1>6, <2>1, <2>2
<1>12. g[N] = f[N] \o <<",">>
  <2>1. f[N - 1] \in Seq(Tokens) /\ parts[N] \in Seq(Tokens)
    <3>1. N - 1 \in 0 .. N /\ N \in 1 .. N
      BY <1>1, <1>7
    <3> QED
      BY <1>1, <1>6, <3>1 DEF Texts
  <2>2. "," \in Tokens
    BY DEF Tokens
  <2> QED
    BY <1>10, <1>11, <2>1, <2>2, AppendToConcat
<1> QED
  BY <1>1, <1>2, <1>4, <1>5, <1>11, <1>12 DEF more

(***************************************************************************)
(* Flag sets.                                                              *)
(***************************************************************************)

(* A repeated text is repeated once more.                                   *)
LEMMA RepeatMore ==
  ASSUME NEW T, NEW value \in T, NEW n \in Nat
  PROVE  /\ Repeat(value, n) \in Seq(T) /\ Len(Repeat(value, n)) = n
         /\ \A k \in 1 .. n : Repeat(value, n)[k] = value
         /\ n = 0 => Repeat(value, n) = <<>>
         /\ Repeat(value, n + 1) = Append(Repeat(value, n), value)
<1>1. Repeat(value, n) \in Seq(T) /\ Len(Repeat(value, n)) = n
      /\ \A k \in 1 .. n : Repeat(value, n)[k] = value
  BY DEF Repeat
<1>2. n = 0 => Repeat(value, n) = <<>>
  BY <1>1
<1>3. Repeat(value, n + 1) \in Seq(T) /\ Len(Repeat(value, n + 1)) = n + 1
      /\ \A k \in 1 .. n + 1 : Repeat(value, n + 1)[k] = value
  BY DEF Repeat
<1> DEFINE r == Repeat(value, n)
           a == Append(r, value)
<1>4. a \in Seq(T) /\ Len(a) = n + 1 /\ \A k \in 1 .. n + 1 : a[k] = value
  BY <1>1
<1> HIDE DEF a
<1>5. Repeat(value, n + 1) = a
  BY <1>3, <1>4, SeqEqual
<1> QED
  BY <1>1, <1>2, <1>5 DEF a

(* Tokens, alone and in pairs.                                              *)
LEMMA TokenTexts ==
  /\ \A a \in Tokens : <<a>> \in Texts
  /\ \A a, b \in Tokens : <<a>> \o <<b>> = <<a, b>>
  /\ \A s, t \in Texts : s \o t \in Texts
  /\ \A s, t, u \in Texts : (s \o t) \o u = s \o (t \o u)
<1>1. \A s, t \in Texts : s \o t \in Texts
  BY DEF Texts
<1>2. \A s, t, u \in Texts : (s \o t) \o u = s \o (t \o u)
  BY ConcatAssociative DEF Texts
<1>3. \A a \in Tokens : <<a>> \in Texts
  BY DEF Texts
<1>4. ASSUME NEW a \in Tokens, NEW b \in Tokens PROVE <<a>> \o <<b>> = <<a, b>>
  <2>1. <<a>> \in Seq(Tokens)
    OBVIOUS
  <2>2. Append(<<a>>, b) = <<a>> \o <<b>>
    BY <2>1, AppendIsConcat
  <2>3. Append(<<a>>, b) = <<a, b>>
    <3>1. /\ Append(<<a>>, b) \in Seq(Tokens) /\ Len(Append(<<a>>, b)) = 2
          /\ Append(<<a>>, b)[1] = a /\ Append(<<a>>, b)[2] = b
      BY <2>1, AppendProperties
    <3>2. <<a, b>> \in Seq(Tokens) /\ Len(<<a, b>>) = 2 /\ <<a, b>>[1] = a /\ <<a, b>>[2] = b
      OBVIOUS
    <3>3. 1 .. 2 = {1, 2}
      OBVIOUS
    <3> QED
      BY <3>1, <3>2, <3>3, SeqEqual
  <2> QED
    BY <2>2, <2>3
<1> QED
  BY <1>1, <1>2, <1>3, <1>4

(* The tokens by name, for proofs that use one of them.                    *)
LEMMA TokensKnown ==
  {"{", "}", "[", "]", ",", ":", "num", "str", "null", "bare", "garbled"}
    \subseteq Tokens
BY DEF Tokens

(* One more name, with its comma.                                           *)
LEMMA OneMoreName ==
  ASSUME NEW n \in Nat
  PROVE  /\ Separated(Repeat(Str, 0)) = <<>>
         /\ Separated(Repeat(Str, n)) \in Texts
         /\ Separated(Repeat(Str, n + 1)) =
              Separated(Repeat(Str, n)) \o (IF n = 0 THEN Str ELSE <<",", "str">>)
<1>1. Str \in Texts /\ <<",">> \in Texts /\ <<",">> \o Str = <<",", "str">>
  <2>1. "str" \in Tokens /\ "," \in Tokens
    BY TokensKnown
  <2> QED
    BY <2>1, TokenTexts DEF Str
<1> HIDE DEF Texts
<1>2. Separated(Repeat(Str, 0)) = <<>>
  <2>1. Repeat(Str, 0) = <<>>
    BY <1>1, RepeatMore
  <2> QED
    BY <2>1, SeparatedFew
<1>3. Repeat(Str, n) \in Seq(Texts) /\ Len(Repeat(Str, n)) = n
      /\ Repeat(Str, n + 1) = Append(Repeat(Str, n), Str)
  BY <1>1, RepeatMore
<1>4. Separated(Repeat(Str, n)) \in Texts
  BY <1>3, SeparatedType
<1>5. CASE n = 0
  <2>1. Repeat(Str, n) = <<>> /\ Repeat(Str, n + 1) = <<Str>>
    <3>1. Repeat(Str, n) = <<>>
      BY <1>1, <1>5, RepeatMore
    <3>2. Append(<<>>, Str) = <<Str>>
      OBVIOUS
    <3> QED
      BY <1>3, <3>1, <3>2
  <2>2. Separated(Repeat(Str, n + 1)) = Str /\ Separated(Repeat(Str, n)) = <<>>
    BY <2>1, <1>1, SeparatedFew
  <2>3. <<>> \o Str = Str
    BY DEF Str
  <2> QED
    BY <2>2, <2>3, <1>2, <1>4, <1>5
<1>6. CASE n # 0
  <2>1. Len(Repeat(Str, n)) > 0
    BY <1>3, <1>6
  <2>2. Separated(Repeat(Str, n + 1)) = (Separated(Repeat(Str, n)) \o <<",">>) \o Str
    BY <2>1, <1>1, <1>3, SeparatedAppend
  <2>3. (Separated(Repeat(Str, n)) \o <<",">>) \o Str
          = Separated(Repeat(Str, n)) \o (<<",">> \o Str)
    BY <1>1, <1>4, TokenTexts
  <2> QED
    BY <2>2, <2>3, <1>1, <1>2, <1>4, <1>6
<1> QED
  BY <1>5, <1>6

(* The bits of a set below n, and how many of them there are.               *)
Below(set, n) == set \cap (0 .. n - 1)

(* Bit n - 1 adds one to the bits below n if it is set.                    *)
LEMMA OneMoreBit ==
  ASSUME NEW set \in SUBSET Bits, NEW n \in 1 .. Cardinality(Bits)
  PROVE  /\ Cardinality(Below(set, n - 1)) \in Nat
         /\ Cardinality(Below(set, n)) =
              IF n - 1 \in set THEN Cardinality(Below(set, n - 1)) + 1
              ELSE Cardinality(Below(set, n - 1))
<1>1. Cardinality(Bits) \in Nat /\ IsFiniteSet(Bits)
  BY BitsAssumption, FS_CardinalityType
<1>2. n \in Nat /\ n - 1 \in Nat
  BY <1>1
<1>3. IsFiniteSet(Below(set, n - 1))
  <2>1. Below(set, n - 1) \in SUBSET Bits
    BY DEF Below
  <2> QED
    BY <2>1, <1>1, FS_Subset
<1>4. Cardinality(Below(set, n - 1)) \in Nat
  BY <1>3, FS_CardinalityType
<1>5. CASE n - 1 \in set
  <2>1. Below(set, n) = Below(set, n - 1) \cup {n - 1}
    BY <1>2, <1>5 DEF Below
  <2>2. n - 1 \notin Below(set, n - 1)
    BY <1>2 DEF Below
  <2>3. Cardinality(Below(set, n - 1) \cup {n - 1}) = Cardinality(Below(set, n - 1)) + 1
    BY <1>3, <2>2, FS_AddElement
  <2> QED
    BY <1>4, <1>5, <2>1, <2>3
<1>6. CASE n - 1 \notin set
  <2>1. Below(set, n) = Below(set, n - 1)
    BY <1>2, <1>6 DEF Below
  <2> QED
    BY <1>4, <1>6, <2>1
<1> QED
  BY <1>5, <1>6

FlagLoop(named, value, loop) ==
  loop = [n \in 0 .. Cardinality(Bits) |->
            IF n = 0 THEN [first |-> TRUE, out |-> <<>>]
            ELSE NextFlag(loop[n - 1], named, value, n - 1)]

Loops == [first : BOOLEAN, out : Texts]

(* What the loop has written behind the last bit is what has been listed.   *)
LEMMA FlagLoopLists ==
  ASSUME NEW named \in SUBSET Bits, NEW value \in SUBSET Bits, NEW loop,
         FlagLoop(named, value, loop)
  PROVE  loop[Cardinality(Bits)].out =
           Separated(Repeat(Str, Cardinality(value \cap named)))
<1> DEFINE N == Cardinality(Bits)
           set == value \cap named
           c(n) == Cardinality(Below(set, n))
           listed(n) == /\ loop[n].first <=> c(n) = 0
                        /\ loop[n].out = Separated(Repeat(Str, c(n)))
           S == {n \in 0 .. N : c(n) \in Nat /\ listed(n)}
<1>1. N \in Nat /\ set \in SUBSET Bits
  BY BitsAssumption, FS_CardinalityType
<1>2. 0 \in S
  <2>1. Below(set, 0) = {}
    BY <1>1 DEF Below
  <2>2. c(0) = 0
    BY <2>1, FS_EmptySet
  <2>3. loop[0] = [first |-> TRUE, out |-> <<>>]
    BY <1>1 DEF FlagLoop
  <2>4. Separated(Repeat(Str, 0)) = <<>>
    BY OneMoreName
  <2> HIDE DEF c
  <2> QED
    BY <1>1, <2>2, <2>3, <2>4
<1>3. ASSUME NEW n \in 1 .. N, n - 1 \in S PROVE n \in S
  <2>1. n \in 0 .. N /\ n # 0 /\ n - 1 \in Nat
    BY <1>1
  <2>2. loop[n] = NextFlag(loop[n - 1], named, value, n - 1)
    BY <2>1 DEF FlagLoop
  <2>3. listed(n - 1) /\ c(n - 1) \in Nat
    BY <1>3
  <2>4. c(n) = IF n - 1 \in set THEN c(n - 1) + 1 ELSE c(n - 1)
    BY <1>1, OneMoreBit
  <2> HIDE DEF c
  <2>5. CASE n - 1 \in set
    <3>1. /\ loop[n].first = FALSE
          /\ loop[n].out = loop[n - 1].out
                             \o (IF loop[n - 1].first THEN Str ELSE <<",", "str">>)
      <4>1. loop[n] = [first |-> FALSE,
                       out |-> loop[n - 1].out
                                 \o (IF loop[n - 1].first THEN Str ELSE <<",", "str">>)]
        BY <2>2, <2>5 DEF NextFlag
      <4>2. ASSUME NEW r, NEW x, r = [first |-> FALSE, out |-> x]
            PROVE  r.first = FALSE /\ r.out = x
        BY <4>2
      <4> QED
        BY <4>1, <4>2
    <3>2. c(n) = c(n - 1) + 1 /\ c(n) # 0
      BY <2>3, <2>4, <2>5
    <3>4. Separated(Repeat(Str, c(n))) =
            Separated(Repeat(Str, c(n - 1))) \o (IF c(n - 1) = 0 THEN Str ELSE <<",", "str">>)
      BY <2>3, <3>2, OneMoreName
    <3>5. c(n) \in Nat
      BY <2>3, <3>2
    <3>6. (IF loop[n - 1].first THEN Str ELSE <<",", "str">>) =
            (IF c(n - 1) = 0 THEN Str ELSE <<",", "str">>)
      BY <2>3
    <3>7. loop[n].out = Separated(Repeat(Str, c(n)))
      BY <3>1, <3>4, <3>6, <2>3
    <3>8. loop[n].first <=> c(n) = 0
      BY <3>1, <3>2
    <3> QED
      BY <2>1, <3>5, <3>7, <3>8
  <2>6. CASE n - 1 \notin set
    <3>1. loop[n] = loop[n - 1]
      BY <2>2, <2>6 DEF NextFlag
    <3> QED
      BY <2>1, <2>3, <2>4, <2>6, <3>1
  <2> QED
    BY <2>5, <2>6
<1> HIDE DEF S
<1>4. 0 .. N \subseteq S
  <2> HIDE DEF N
  <2> QED
    BY <1>1, <1>2, <1>3, BoundedInduction
<1>5. N \in S
  BY <1>1, <1>4
<1>6. Below(set, N) = set
  BY <1>1, BitsAssumption DEF Below
<1>7. listed(N)
  BY <1>5 DEF S
<1> QED
  BY <1>6, <1>7

(* There is such a loop.                                                    *)
LEMMA FlagLoopExists ==
  ASSUME NEW named, NEW value
  PROVE  \E loop : FlagLoop(named, value, loop)
<1> DEFINE N == Cardinality(Bits)
           start == [first |-> TRUE, out |-> <<>>]
           step == [vn \in Loops \X (1 .. N) |-> NextFlag(vn[1], named, value, vn[2] - 1)]
<1>1. N \in Nat
  BY BitsAssumption, FS_CardinalityType
<1>2. start \in Loops
  BY DEF Loops, Texts
<1>3. \A loop \in Loops : \A bit : NextFlag(loop, named, value, bit) \in Loops
  <2>1. "str" \in Tokens /\ "," \in Tokens
    BY TokensKnown
  <2>2. Str \in Texts /\ <<",", "str">> \in Texts
    BY <2>1, TokenTexts DEF Str
  <2>3. \A s, t \in Texts : s \o t \in Texts
    BY TokenTexts
  <2> HIDE DEF Texts
  <2> QED
    BY <2>2, <2>3 DEF NextFlag, Loops
<1>4. step \in [Loops \X (1 .. N) -> Loops]
  BY <1>3
<1>5. PICK f : IsIteration(f, N, Loops, start, step)
  <2> HIDE DEF step, N, start
  <2> QED
    BY <1>1, <1>2, <1>4, Iteration
<1>6. f \in [0 .. N -> Loops] /\ f[0] = start
      /\ \A n \in 1 .. N : f[n] = step[<<f[n - 1], n>>]
  BY <1>5 DEF IsIteration
<1> DEFINE next(n) == IF n = 0 THEN start ELSE NextFlag(f[n - 1], named, value, n - 1)
<1>7. ASSUME NEW n \in 0 .. N PROVE f[n] = next(n)
  <2>1. CASE n = 0
    BY <2>1, <1>6
  <2>2. CASE n # 0
    <3>1. n \in 1 .. N /\ n - 1 \in 0 .. N
      BY <2>2, <1>1
    <3>2. f[n - 1] \in Loops
      BY <3>1, <1>6
    <3>3. step[<<f[n - 1], n>>] = NextFlag(f[n - 1], named, value, n - 1)
      BY <3>1, <3>2
    <3> QED
      BY <2>2, <3>1, <3>3, <1>6
  <2> QED
    BY <2>1, <2>2
<1>8. f = [n \in 0 .. N |-> next(n)]
  <2>1. f = [n \in 0 .. N |-> f[n]]
    BY <1>6
  <2> HIDE DEF next
  <2> QED
    BY <1>7, <2>1
<1> QED
  BY <1>8 DEF FlagLoop

(* A flag set is listed once for each of its bits that has a name.          *)
LEMMA FlagListLists ==
  ASSUME NEW named \in SUBSET Bits, NEW value \in SUBSET Bits
  PROVE  FlagList(named, value) = List(Repeat(Str, Cardinality(value \cap named)))
<1> DEFINE loop == CHOOSE loop : FlagLoop(named, value, loop)
<1>1. FlagLoop(named, value, loop)
  BY FlagLoopExists
<1>2. FlagList(named, value) = <<"[">> \o loop[Cardinality(Bits)].out \o <<"]">>
  BY DEF FlagList, FlagLoop
<1> HIDE DEF loop
<1>3. loop[Cardinality(Bits)].out = Separated(Repeat(Str, Cardinality(value \cap named)))
  BY <1>1, FlagLoopLists
<1> QED
  BY <1>2, <1>3 DEF List

(***************************************************************************)
(* What single tokens do.                                                   *)
(***************************************************************************)
AtValue(s) == s.next \in {"value", "element"}
AtKey(s) == s.next \in {"member", "key"}

(* What follows a comma between brackets.                                   *)
Continued(s) == IF Last(s.open) = "{" THEN "key" ELSE "value"

(* A bracket where a value may stand opens.                                *)
LEMMA ReadsOpening ==
  ASSUME NEW s \in States, AtValue(s)
  PROVE  /\ Read(s, "{") = [s EXCEPT !.open = Append(@, "{"), !.next = "member"]
         /\ Read(s, "[") = [s EXCEPT !.open = Append(@, "["), !.next = "element"]
<1>1. "{" \in Expected(s) /\ "[" \in Expected(s)
  BY DEF Expected, Values, AtValue
<1> QED
  BY <1>1 DEF Read

(* A scalar where a value may stand is one.                                *)
LEMMA ReadsScalar ==
  ASSUME NEW s \in States, AtValue(s), NEW token \in {"num", "str", "null"}
  PROVE  Read(s, token) = Completed(s, s.open)
<1>1. token \in Expected(s)
  BY DEF Expected, Values, AtValue
<1>2. token \notin {"{", "[", "}", "]", ":", ","}
  OBVIOUS
<1>3. s.next \notin {"member", "key"}
  BY DEF AtValue
<1> QED
  BY <1>1, <1>2, <1>3 DEF Read

(* A token JSON does not have is nowhere expected.                         *)
LEMMA ReadsNoJson ==
  ASSUME NEW s \in States, AtValue(s) \/ AtKey(s), NEW token \in {"bare", "garbled"}
  PROVE  Read(s, token) = [s EXCEPT !.next = "error"]
<1>1. token \notin Expected(s)
  BY DEF Expected, Values, AtValue, AtKey
<1> QED
  BY <1>1 DEF Read

(* A key in quotes, which waits for its colon.                             *)
LEMMA ReadsKey ==
  ASSUME NEW s \in States, AtKey(s)
  PROVE  Read(s, "str") = [s EXCEPT !.next = "colon"]
<1>1. "str" \in Expected(s)
  BY DEF Expected, AtKey
<1> QED
  BY <1>1 DEF Read, AtKey

(* Behind the colon stands a value.                                        *)
LEMMA ReadsColon ==
  ASSUME NEW s \in States, s.next = "colon"
  PROVE  Read(s, ":") = [s EXCEPT !.next = "value"]
<1>1. ":" \in Expected(s)
  BY DEF Expected
<1> QED
  BY <1>1 DEF Read

(* A comma between values, outside all brackets or within one.             *)
LEMMA ReadsComma ==
  ASSUME NEW s \in States, s.next = "after"
  PROVE  Read(s, ",") = IF s.open = <<>> THEN [s EXCEPT !.next = "value", !.inner = 0]
                        ELSE [s EXCEPT !.next = Continued(s)]
<1>1. "," \in Expected(s)
  BY DEF Expected
<1> QED
  BY <1>1 DEF Read, Continued

(* A bracket closes the one opened last.                                    *)
LEMMA FrontOfAppend ==
  ASSUME NEW open \in Seq(Brackets), NEW bracket \in Brackets
  PROVE  /\ Append(open, bracket) \in Seq(Brackets)
         /\ Append(open, bracket) # <<>>
         /\ Len(Append(open, bracket)) = Len(open) + 1
         /\ Last(Append(open, bracket)) = bracket
         /\ Front(Append(open, bracket)) = open
<1> DEFINE a == Append(open, bracket)
<1>1. /\ a \in Seq(Brackets) /\ a # <<>> /\ Len(a) = Len(open) + 1
      /\ \A k \in 1 .. Len(open) : a[k] = open[k]
      /\ a[Len(open) + 1] = bracket
  BY AppendProperties
<1>2. Len(open) \in Nat
  OBVIOUS
<1> HIDE DEF a
<1>3. Last(a) = bracket
  BY <1>1 DEF Last
<1>4. Front(a) = open
  <2>1. Front(a) = SubSeq(a, 1, Len(open))
    <3>1. (Len(open) + 1) - 1 = Len(open)
      BY <1>2
    <3> QED
      BY <1>1, <3>1 DEF Front
  <2>2. \A k \in 1 .. Len(open) : a[k] \in Brackets
    BY <1>1
  <2>3. /\ SubSeq(a, 1, Len(open)) \in Seq(Brackets)
        /\ Len(SubSeq(a, 1, Len(open))) = Len(open)
        /\ \A k \in 1 .. Len(open) : SubSeq(a, 1, Len(open))[k] = a[k]
    <3>1. 1 \in Int /\ Len(open) \in Int
      BY <1>2
    <3>2. /\ SubSeq(a, 1, Len(open)) \in Seq(Brackets)
          /\ Len(SubSeq(a, 1, Len(open))) =
               IF 1 <= Len(open) THEN Len(open) - 1 + 1 ELSE 0
          /\ \A k \in 1 .. Len(open) - 1 + 1 : SubSeq(a, 1, Len(open))[k] = a[1 + k - 1]
      BY <3>1, <2>2, SubSeqProperties
    <3>3. (IF 1 <= Len(open) THEN Len(open) - 1 + 1 ELSE 0) = Len(open)
      BY <1>2
    <3>4. ASSUME NEW k \in 1 .. Len(open) PROVE SubSeq(a, 1, Len(open))[k] = a[k]
      <4>1. k \in 1 .. Len(open) - 1 + 1 /\ 1 + k - 1 = k
        BY <1>2
      <4> QED
        BY <3>2, <4>1
    <3> QED
      BY <3>2, <3>3, <3>4
  <2>4. SubSeq(a, 1, Len(open)) = open
    BY <1>1, <2>3, SeqEqual
  <2> QED
    BY <2>1, <2>4
<1> QED
  BY <1>1, <1>3, <1>4 DEF a

(* The bracket that closes the one opened last completes a value.          *)
LEMMA ReadsClosing ==
  ASSUME NEW s \in States, NEW open \in Seq(Brackets)
  PROVE  /\ s.open = Append(open, "{") /\ s.next \in {"after", "member"} =>
              Read(s, "}") = Completed(s, open)
         /\ s.open = Append(open, "[") /\ s.next \in {"after", "element"} =>
              Read(s, "]") = Completed(s, open)
<1>0. "{" \in Brackets /\ "[" \in Brackets
  BY DEF Brackets
<1>1. ASSUME s.open = Append(open, "{"), s.next \in {"after", "member"}
      PROVE  Read(s, "}") = Completed(s, open)
  <2>1. s.open # <<>> /\ Last(s.open) = "{" /\ Front(s.open) = open
    BY <1>0, <1>1, FrontOfAppend
  <2>2. "}" \in Expected(s)
    BY <1>1, <2>1 DEF Expected
  <2> QED
    BY <2>1, <2>2 DEF Read
<1>2. ASSUME s.open = Append(open, "["), s.next \in {"after", "element"}
      PROVE  Read(s, "]") = Completed(s, open)
  <2>1. s.open # <<>> /\ Last(s.open) = "[" /\ Front(s.open) = open
    BY <1>0, <1>2, FrontOfAppend
  <2>2. "]" \in Expected(s)
    BY <1>2, <2>1 DEF Expected, Values
  <2> QED
    BY <2>1, <2>2 DEF Read
<1> QED
  BY <1>1, <1>2

(***************************************************************************)
(* Texts that are a JSON value wherever one may stand, and texts that make  *)
(* any text they stand in none: Judged(text, ok) is one or the other.       *)
(***************************************************************************)
ValueRead(s, t) ==
  /\ t.open = s.open /\ t.next = "after"
  /\ t.outer = IF s.open = <<>> THEN s.outer + 1 ELSE s.outer
  /\ s.open # <<>> => t.inner = IF Len(s.open) = 1 THEN s.inner + 1 ELSE s.inner

Fits(text, starts) ==
  \A s \in States : s.next \in starts =>
    \E t \in States : Reads(s, text, t) /\ ValueRead(s, t)

Fails(text, starts) ==
  \A s \in States : s.next \in starts =>
    \E t \in States : Reads(s, text, t) /\ t.next = "error"

JudgedFrom(text, starts, ok) ==
  text \in Texts /\ IF ok THEN Fits(text, starts) ELSE Fails(text, starts)

ValueStarts == {"value", "element"}
KeyStarts == {"member", "key"}

Judged(text, ok) == JudgedFrom(text, ValueStarts, ok)

(* A sequence of such texts, all of which fit or one of which does not.     *)
AllJudgedFrom(parts, starts, ok) ==
  /\ parts \in Seq(Texts)
  /\ \A k \in 1 .. Len(parts) : Fits(parts[k], starts) \/ Fails(parts[k], starts)
  /\ IF ok THEN \A k \in 1 .. Len(parts) : Fits(parts[k], starts)
     ELSE \E k \in 1 .. Len(parts) : Fails(parts[k], starts)

AllJudged(parts, ok) == AllJudgedFrom(parts, ValueStarts, ok)

(* The values written as one token.                                         *)
LEMMA TokensJudged ==
  /\ \A token \in {"num", "str", "null"} : Judged(<<token>>, TRUE)
  /\ \A token \in {"bare", "garbled"} : Judged(<<token>>, FALSE)
<1>1. ASSUME NEW token \in {"num", "str", "null"} PROVE Judged(<<token>>, TRUE)
  <2>1. <<token>> \in Texts
    BY TokensKnown, TokenTexts
  <2>2. ASSUME NEW s \in States, s.next \in ValueStarts
        PROVE  \E t \in States : Reads(s, <<token>>, t) /\ ValueRead(s, t)
    <3>1. Reads(s, <<token>>, Read(s, token)) /\ Read(s, token) \in States
      BY ReadsToken, ReadType
    <3>2. Read(s, token) = Completed(s, s.open)
      BY <2>2, ReadsScalar DEF AtValue, ValueStarts
    <3>3. ValueRead(s, Completed(s, s.open))
      BY DEF ValueRead, Completed
    <3> QED
      BY <3>1, <3>2, <3>3
  <2> QED
    BY <2>1, <2>2 DEF Judged, JudgedFrom, Fits
<1>2. ASSUME NEW token \in {"bare", "garbled"} PROVE Judged(<<token>>, FALSE)
  <2>1. <<token>> \in Texts
    BY TokensKnown, TokenTexts
  <2>2. ASSUME NEW s \in States, s.next \in ValueStarts
        PROVE  \E t \in States : Reads(s, <<token>>, t) /\ t.next = "error"
    <3>1. Reads(s, <<token>>, Read(s, token)) /\ Read(s, token) \in States
      BY ReadsToken, ReadType
    <3>2. Read(s, token) = [s EXCEPT !.next = "error"]
      BY <2>2, ReadsNoJson DEF AtValue, ValueStarts
    <3>3. [s EXCEPT !.next = "error"].next = "error"
      BY DEF States
    <3> QED
      BY <3>1, <3>2, <3>3
  <2> QED
    BY <2>1, <2>2 DEF Judged, JudgedFrom, Fails
<1> QED
  BY <1>1, <1>2

(* The elements of a list between brackets.                                 *)
ListRead(s, t, n) ==
  /\ t.open = s.open /\ t.next = "after" /\ t.outer = s.outer
  /\ t.inner = IF Len(s.open) = 1 THEN s.inner + n ELSE s.inner

(* From the end of n elements over a comma and one more.                    *)
LEMMA OneMoreElement ==
  ASSUME NEW starts, NEW text \in Texts, Fits(text, starts) \/ Fails(text, starts),
         NEW done \in Texts, NEW s \in States, NEW n \in Nat, NEW ok \in BOOLEAN,
         s.open # <<>>, Continued(s) \in starts,
         NEW t \in States, Reads(s, done, t),
         IF ok THEN ListRead(s, t, n) ELSE t.next = "error"
  PROVE  \E u \in States :
           /\ Reads(s, (done \o <<",">>) \o text, u)
           /\ IF ok /\ Fits(text, starts) THEN ListRead(s, u, n + 1) ELSE u.next = "error"
<1>1. <<",">> \in Texts /\ done \o <<",">> \in Texts
  <2>1. "," \in Tokens
    BY TokensKnown
  <2> QED
    BY <2>1, TokenTexts
<1> DEFINE c == Read(t, ",")
<1>2. c \in States /\ Reads(t, <<",">>, c)
  BY ReadType, ReadsToken
<1>3. Reads(s, done \o <<",">>, c)
  BY <1>1, <1>2, ReadsConcat DEF Texts
<1>4. ASSUME NEW u \in States, Reads(c, text, u)
      PROVE  Reads(s, (done \o <<",">>) \o text, u)
  BY <1>1, <1>3, <1>4, ReadsConcat DEF Texts
<1>5. CASE ok
  <2>1. ListRead(s, t, n)
    BY <1>5
  <2>2. c = [t EXCEPT !.next = Continued(t)]
    BY <2>1, ReadsComma DEF ListRead
  <2>3. Continued(t) = Continued(s)
    BY <2>1 DEF ListRead, Continued
  <2>4. c.open = s.open /\ c.next \in starts /\ c.outer = s.outer /\ c.inner = t.inner
    <3>1. c.open = t.open /\ c.next = Continued(t) /\ c.outer = t.outer /\ c.inner = t.inner
      BY <2>2 DEF States
    <3> QED
      BY <3>1, <2>1, <2>3 DEF ListRead
  <2> HIDE DEF c
  <2>5. CASE Fits(text, starts)
    <3>1. PICK u \in States : Reads(c, text, u) /\ ValueRead(c, u)
      BY <1>2, <2>4, <2>5 DEF Fits
    <3>2. u.open = s.open /\ u.next = "after" /\ u.outer = s.outer
          /\ u.inner = IF Len(s.open) = 1 THEN t.inner + 1 ELSE t.inner
      BY <3>1, <2>4 DEF ValueRead
    <3>3. s.inner \in Nat
      BY DEF States
    <3>4. ListRead(s, u, n + 1)
      BY <3>2, <3>3, <2>1 DEF ListRead
    <3> QED
      BY <3>1, <3>4, <1>4, <1>5, <2>5
  <2>6. CASE ~Fits(text, starts)
    <3>1. PICK u \in States : Reads(c, text, u) /\ u.next = "error"
      BY <1>2, <2>4, <2>6 DEF Fails
    <3> QED
      BY <3>1, <1>4, <2>6
  <2> QED
    BY <2>5, <2>6
<1>6. CASE ~ok
  <2>1. c = t
    <3>1. Expected(t) = {}
      BY <1>6 DEF Expected
    <3>2. [t EXCEPT !.next = "error"] = t
      BY <1>6 DEF States
    <3> QED
      BY <3>1, <3>2 DEF Read
  <2>2. Reads(c, text, c) /\ c.next = "error"
    BY <2>1, <1>6, ErrorStays DEF Texts
  <2> HIDE DEF c
  <2> QED
    BY <2>2, <1>2, <1>4, <1>6
<1> QED
  BY <1>5, <1>6

(* The first n elements, and one more.                                      *)
LEMMA FirstParts ==
  ASSUME NEW parts \in Seq(Texts), NEW n \in 0 .. Len(parts) - 1
  PROVE  /\ SubSeq(parts, 1, n) \in Seq(Texts) /\ Len(SubSeq(parts, 1, n)) = n
         /\ SubSeq(parts, 1, n + 1) = Append(SubSeq(parts, 1, n), parts[n + 1])
         /\ n = 0 => SubSeq(parts, 1, n + 1) = <<parts[n + 1]>>
<1> HIDE DEF Texts
<1>1. Len(parts) \in Nat /\ n \in Nat /\ n + 1 \in 1 .. Len(parts)
      /\ 1 \in Int /\ n \in Int /\ 1 \in 1 .. Len(parts)
      /\ n + 1 \in 1 .. Len(parts) /\ (n + 1) - 1 = n /\ n - 1 + 1 = n
  OBVIOUS
<1>2. \A k \in 1 .. n : parts[k] \in Texts
  BY <1>1
<1>3. SubSeq(parts, 1, n) \in Seq(Texts) /\ Len(SubSeq(parts, 1, n)) = n
  <2>1. /\ SubSeq(parts, 1, n) \in Seq(Texts)
        /\ Len(SubSeq(parts, 1, n)) = IF 1 <= n THEN n - 1 + 1 ELSE 0
    BY <1>1, <1>2, SubSeqProperties
  <2> QED
    BY <2>1, <1>1
<1>4. SubSeq(parts, 1, n + 1) = SubSeq(parts, 1, n) \o <<parts[n + 1]>>
  <2>1. SubSeq(parts, 1, n + 1) = SubSeq(parts, 1, (n + 1) - 1) \o <<parts[n + 1]>>
    BY <1>1, SubSeqRecursiveSecond
  <2> QED
    BY <2>1, <1>1
<1>5. parts[n + 1] \in Texts
  BY <1>1
<1>6. SubSeq(parts, 1, n + 1) = Append(SubSeq(parts, 1, n), parts[n + 1])
  BY <1>3, <1>4, <1>5, AppendIsConcat
<1>7. ASSUME n = 0 PROVE SubSeq(parts, 1, n + 1) = <<parts[n + 1]>>
  <2>1. SubSeq(parts, 1, n) = <<>>
    BY <1>3, <1>7
  <2>2. Append(<<>>, parts[n + 1]) = <<parts[n + 1]>>
    OBVIOUS
  <2> QED
    BY <2>1, <2>2, <1>6
<1> QED
  BY <1>3, <1>6, <1>7

(* The elements of a list, with the commas between them.                    *)
LEMMA SeparatedJudged ==
  ASSUME NEW starts, NEW parts, NEW ok \in BOOLEAN, AllJudgedFrom(parts, starts, ok),
         Len(parts) > 0,
         NEW s \in States, s.open # <<>>, s.next \in starts, Continued(s) \in starts
  PROVE  \E t \in States :
           /\ Reads(s, Separated(parts), t)
           /\ IF ok THEN ListRead(s, t, Len(parts)) ELSE t.next = "error"
<1> DEFINE N == Len(parts)
           first(n) == Separated(SubSeq(parts, 1, n))
           fit(n) == \A k \in 1 .. n : Fits(parts[k], starts)
           done(n) == \E t \in States :
                        /\ Reads(s, first(n), t)
                        /\ IF fit(n) THEN ListRead(s, t, n) ELSE t.next = "error"
           S == {n \in 0 .. N : n # 0 => done(n)}
<1>1. /\ parts \in Seq(Texts) /\ N \in Nat /\ N > 0
      /\ \A k \in 1 .. N : parts[k] \in Texts
      /\ \A k \in 1 .. N : Fits(parts[k], starts) \/ Fails(parts[k], starts)
  <2> HIDE DEF Texts
  <2> QED
    BY DEF AllJudgedFrom
<1>2. 0 \in S
  BY <1>1
<1>3. ASSUME NEW n \in 0 .. N - 1, n \in S PROVE n + 1 \in S
  <2>1. n + 1 \in 1 .. N /\ n \in Nat
    BY <1>1
  <2> DEFINE text == parts[n + 1]
  <2>2. text \in Texts /\ (Fits(text, starts) \/ Fails(text, starts))
    BY <1>1, <2>1
  <2>3. /\ SubSeq(parts, 1, n) \in Seq(Texts) /\ Len(SubSeq(parts, 1, n)) = n
        /\ SubSeq(parts, 1, n + 1) = Append(SubSeq(parts, 1, n), text)
        /\ n = 0 => SubSeq(parts, 1, n + 1) = <<text>>
    BY <1>1, FirstParts
  <2>4. fit(n + 1) <=> fit(n) /\ Fits(text, starts)
    <3>1. \A k \in 1 .. n + 1 : k \in 1 .. n \/ k = n + 1
      BY <2>1
    <3>2. \A k \in 1 .. n : k \in 1 .. n + 1
      BY <2>1
    <3>3. n + 1 \in 1 .. n + 1
      BY <2>1
    <3> QED
      BY <3>1, <3>2, <3>3
  <2>5. CASE n = 0
    <3>1. first(n + 1) = text
      BY <2>2, <2>3, <2>5, SeparatedFew
    <3>2. fit(n)
      BY <2>5
    <3> HIDE DEF fit, first, text
    <3>3. CASE Fits(text, starts)
      <4>1. PICK t \in States : Reads(s, text, t) /\ ValueRead(s, t)
        BY <3>3 DEF Fits
      <4>2. s.inner \in Nat
        BY DEF States
      <4>3. ListRead(s, t, n + 1)
        BY <4>1, <4>2, <2>5 DEF ListRead, ValueRead
      <4> QED
        BY <3>1, <3>2, <3>3, <4>1, <4>3, <2>1, <2>4
    <3>4. CASE ~Fits(text, starts)
      <4>1. PICK t \in States : Reads(s, text, t) /\ t.next = "error"
        BY <3>4, <2>2 DEF Fails
      <4> QED
        BY <3>1, <3>4, <4>1, <2>1, <2>4
    <3> QED
      BY <3>3, <3>4
  <2>6. CASE n # 0
    <3>1. PICK t \in States :
            Reads(s, first(n), t) /\ IF fit(n) THEN ListRead(s, t, n) ELSE t.next = "error"
      BY <1>3, <2>6
    <3>2. first(n + 1) = (first(n) \o <<",">>) \o text /\ first(n) \in Texts
      <4>1. Len(SubSeq(parts, 1, n)) > 0
        BY <2>1, <2>3, <2>6
      <4> QED
        BY <4>1, <2>2, <2>3, SeparatedAppend, SeparatedType
    <3> DEFINE b == fit(n)
    <3>3. b \in BOOLEAN /\ (b <=> fit(n))
      OBVIOUS
    <3> HIDE DEF b, fit, first, text
    <3>4. PICK u \in States :
            /\ Reads(s, (first(n) \o <<",">>) \o text, u)
            /\ IF b /\ Fits(text, starts) THEN ListRead(s, u, n + 1) ELSE u.next = "error"
      <4>1. IF b THEN ListRead(s, t, n) ELSE t.next = "error"
        BY <3>1, <3>3
      <4> QED
        BY <4>1, <3>1, <3>2, <3>3, <2>1, <2>2, OneMoreElement
    <3>5. Reads(s, first(n + 1), u)
      BY <3>2, <3>4
    <3>6. IF fit(n + 1) THEN ListRead(s, u, n + 1) ELSE u.next = "error"
      BY <3>3, <3>4, <2>4
    <3>7. done(n + 1)
      BY <3>5, <3>6
    <3>8. n + 1 \in 0 .. N
      BY <2>1
    <3> HIDE DEF done
    <3> QED
      BY <3>7, <3>8
  <2> QED
    BY <2>5, <2>6
<1> HIDE DEF S
<1>4. 0 .. N \subseteq S
  <2>1. ASSUME NEW n \in 1 .. N, n - 1 \in S PROVE n \in S
    <3>1. n - 1 \in 0 .. N - 1 /\ (n - 1) + 1 = n
      BY <1>1
    <3> HIDE DEF N
    <3> QED
      BY <2>1, <3>1, <1>3
  <2> HIDE DEF N
  <2> QED
    BY <1>1, <1>2, <2>1, BoundedInduction
<1>5. done(N)
  <2>1. N \in S /\ N # 0
    BY <1>1, <1>4
  <2> QED
    BY <2>1 DEF S
<1>6. first(N) = Separated(parts)
  BY <1>1, SubSeqFull
<1>7. fit(N) <=> ok
  <2>1. ASSUME ~ok, fit(N) PROVE FALSE
    <3>1. PICK k \in 1 .. N : Fails(parts[k], starts)
      BY <2>1 DEF AllJudgedFrom
    <3>2. PICK t \in States : Reads(s, parts[k], t) /\ t.next = "error"
      BY <3>1 DEF Fails
    <3>3. PICK u \in States : Reads(s, parts[k], u) /\ u.next = "after"
      BY <2>1 DEF Fits, ValueRead
    <3>4. t = u
      BY <3>2, <3>3, <1>1, ReadsOne DEF Texts
    <3> QED
      BY <3>2, <3>3, <3>4
  <2> QED
    BY <2>1 DEF AllJudgedFrom
<1> HIDE DEF fit, first
<1> QED
  BY <1>5, <1>6, <1>7

(* A list in brackets is a value if its elements are what the bracket asks  *)
(* for, and otherwise no JSON.                                              *)
Enclosing(left, right, first, starts) ==
  /\ left \in Brackets /\ left \in Tokens /\ right \in Tokens
  /\ first \in starts /\ (IF left = "{" THEN "key" ELSE "value") \in starts
  /\ \A s \in States : AtValue(s) =>
       Read(s, left) = [s EXCEPT !.open = Append(@, left), !.next = first]
  /\ \A s \in States, open \in Seq(Brackets) :
       s.open = Append(open, left) /\ s.next \in {"after", first} =>
         Read(s, right) = Completed(s, open)

(* Parts with commas between a pair of brackets are a value if every part  *)
(* fits, and spoil the text they stand in if one does not.                 *)
LEMMA EnclosedJudged ==
  ASSUME NEW left, NEW right, NEW first, NEW starts, Enclosing(left, right, first, starts),
         NEW parts, NEW ok \in BOOLEAN, AllJudgedFrom(parts, starts, ok)
  PROVE  Judged(<<left>> \o Separated(parts) \o <<right>>, ok)
<1> DEFINE inside == Separated(parts)
           text == <<left>> \o inside \o <<right>>
<1>1. <<left>> \in Texts /\ <<right>> \in Texts /\ inside \in Texts
      /\ (<<left>> \o inside) \in Texts /\ text \in Texts
  BY TokenTexts, SeparatedType DEF Enclosing, AllJudgedFrom
<1> HIDE DEF text
<1>2. ASSUME NEW s \in States, s.next \in ValueStarts
      PROVE  \E t \in States :
               Reads(s, text, t) /\ IF ok THEN ValueRead(s, t) ELSE t.next = "error"
  <2> DEFINE o == Read(s, left)
  <2>1. o \in States /\ Reads(s, <<left>>, o)
    BY ReadType, ReadsToken
  <2>2. o = [s EXCEPT !.open = Append(@, left), !.next = first]
    BY <1>2 DEF Enclosing, AtValue, ValueStarts
  <2>3. /\ s.open \in Seq(Brackets) /\ s.outer \in Nat /\ s.inner \in Nat
        /\ o.open = Append(s.open, left) /\ o.next = first
        /\ o.outer = s.outer /\ o.inner = s.inner
    BY <2>2 DEF States, Brackets
  <2> HIDE DEF o
  <2>4. o.open # <<>> /\ Len(o.open) = Len(s.open) + 1 /\ Last(o.open) = left
    BY <2>3, FrontOfAppend DEF Enclosing
  <2>5. o.next \in starts /\ Continued(o) \in starts
    BY <2>3, <2>4 DEF Continued, Enclosing
  <2>6. PICK e \in States :
          /\ Reads(o, inside, e)
          /\ IF ok THEN /\ e.open = o.open /\ e.next \in {"after", first} /\ e.outer = s.outer
                        /\ s.open # <<>> => e.inner = s.inner
             ELSE e.next = "error"
    <3>1. CASE Len(parts) > 0
      <4>1. PICK e \in States :
              /\ Reads(o, inside, e)
              /\ IF ok THEN ListRead(o, e, Len(parts)) ELSE e.next = "error"
        BY <3>1, <2>1, <2>4, <2>5, SeparatedJudged
      <4>2. s.open # <<>> => Len(o.open) # 1
        BY <2>3, <2>4
      <4> QED
        BY <4>1, <4>2, <2>3 DEF ListRead
    <3>2. CASE ~(Len(parts) > 0)
      <4>1. parts = <<>>
        BY <3>2 DEF AllJudgedFrom
      <4>2. inside = <<>>
        BY <4>1, SeparatedFew
      <4>3. Reads(o, inside, o)
        BY <4>2, <2>1, ReadsNothing
      <4>4. ok
        <5>1. Len(parts) = 0
          BY <4>1
        <5>2. 1 .. Len(parts) = {}
          BY <5>1
        <5> QED
          BY <5>2 DEF AllJudgedFrom
      <4> QED
        BY <4>3, <4>4, <2>1, <2>3
    <3> QED
      BY <3>1, <3>2
  <2> DEFINE t == Read(e, right)
  <2>7. t \in States /\ Reads(e, <<right>>, t)
    BY <2>6, ReadType, ReadsToken
  <2> HIDE DEF t
  <2>8. Reads(s, text, t)
    <3>1. Reads(s, <<left>> \o inside, e)
      BY <1>1, <2>1, <2>6, ReadsConcat DEF Texts
    <3> QED
      BY <1>1, <3>1, <2>7, ReadsConcat DEF Texts, text
  <2>9. CASE ok
    <3>1. t = Completed(e, s.open)
      BY <2>3, <2>6, <2>9 DEF Enclosing, t
    <3>2. ValueRead(s, t)
      BY <3>1, <2>6, <2>9 DEF ValueRead, Completed
    <3> QED
      BY <3>2, <2>7, <2>8, <2>9
  <2>10. CASE ~ok
    <3>1. Expected(e) = {}
      BY <2>6, <2>10 DEF Expected
    <3>2. [e EXCEPT !.next = "error"].next = "error"
      BY DEF States
    <3>3. t.next = "error"
      BY <3>1, <3>2 DEF Read, t
    <3> QED
      BY <3>3, <2>7, <2>8, <2>10
  <2> QED
    BY <2>9, <2>10
<1>3. JudgedFrom(text, ValueStarts, ok)
  BY <1>1, <1>2 DEF JudgedFrom, Fits, Fails
<1> QED
  BY <1>3 DEF Judged, text

(* Vectors and spans.                                                       *)
LEMMA ListJudged ==
  ASSUME NEW parts, NEW ok \in BOOLEAN, AllJudged(parts, ok)
  PROVE  Judged(List(parts), ok)
<1>1. Enclosing("[", "]", "element", ValueStarts)
  <2>1. "[" \in Brackets /\ "[" \in Tokens /\ "]" \in Tokens
    BY TokensKnown DEF Brackets
  <2>2. "element" \in ValueStarts /\ (IF "[" = "{" THEN "key" ELSE "value") \in ValueStarts
    BY DEF ValueStarts
  <2> QED
    BY <2>1, <2>2, ReadsOpening, ReadsClosing DEF Enclosing
<1>2. Judged(<<"[">> \o Separated(parts) \o <<"]">>, ok)
  BY <1>1, EnclosedJudged DEF AllJudged
<1> QED
  BY <1>2 DEF List

(* A member of an object: a key in quotes before a value.                   *)
LEMMA MemberJudged ==
  ASSUME NEW value, NEW ok \in BOOLEAN, Judged(value, ok)
  PROVE  JudgedFrom(<<"str", ":">> \o value, KeyStarts, ok)
<1>1. /\ <<"str">> \in Texts /\ <<":">> \in Texts /\ <<"str", ":">> \in Texts
      /\ <<"str">> \o <<":">> = <<"str", ":">>
      /\ value \in Texts /\ (<<"str", ":">> \o value) \in Texts
  <2>1. "str" \in Tokens /\ ":" \in Tokens
    BY TokensKnown
  <2>2. <<"str">> \in Texts /\ <<":">> \in Texts /\ <<"str">> \o <<":">> = <<"str", ":">>
    BY <2>1, TokenTexts
  <2>3. value \in Texts
    BY DEF Judged, JudgedFrom
  <2> QED
    BY <2>2, <2>3, TokenTexts
<1> DEFINE text == <<"str", ":">> \o value
<1>2. ASSUME NEW s \in States, s.next \in KeyStarts
      PROVE  \E t \in States :
               Reads(s, text, t) /\ IF ok THEN ValueRead(s, t) ELSE t.next = "error"
  <2> DEFINE c == Read(s, "str")
             v == Read(c, ":")
  <2>1. c \in States /\ Reads(s, <<"str">>, c)
    BY ReadType, ReadsToken
  <2>2. c = [s EXCEPT !.next = "colon"]
    BY <1>2, ReadsKey DEF AtKey, KeyStarts
  <2>3. c.open = s.open /\ c.outer = s.outer /\ c.inner = s.inner /\ c.next = "colon"
    BY <2>2 DEF States
  <2> HIDE DEF c
  <2>4. v \in States /\ Reads(c, <<":">>, v)
    BY <2>1, ReadType, ReadsToken
  <2>5. v = [c EXCEPT !.next = "value"]
    BY <2>1, <2>3, ReadsColon
  <2>6. v.open = s.open /\ v.outer = s.outer /\ v.inner = s.inner /\ v.next \in ValueStarts
    BY <2>1, <2>3, <2>5 DEF States, ValueStarts
  <2> HIDE DEF v
  <2>7. Reads(s, <<"str", ":">>, v)
    <3> DEFINE a == <<"str">>
               b == <<":">>
    <3>1. a \in Seq(Tokens) /\ b \in Seq(Tokens) /\ a \o b = <<"str", ":">>
      BY <1>1 DEF Texts
    <3>2. Reads(s, a, c) /\ Reads(c, b, v)
      BY <2>1, <2>4
    <3> HIDE DEF a, b
    <3>3. Reads(s, a \o b, v)
      BY <3>1, <3>2, ReadsConcat
    <3> QED
      BY <3>1, <3>3
  <2>8. PICK t \in States :
          Reads(v, value, t) /\ IF ok THEN ValueRead(v, t) ELSE t.next = "error"
    BY <2>4, <2>6 DEF Judged, JudgedFrom, Fits, Fails
  <2>9. Reads(s, text, t)
    <3> DEFINE a == <<"str", ":">>
    <3>1. a \in Seq(Tokens) /\ value \in Seq(Tokens) /\ Reads(s, a, v)
      BY <1>1, <2>7 DEF Texts
    <3>2. text = a \o value
      OBVIOUS
    <3> HIDE DEF a, text
    <3> QED
      BY <3>1, <3>2, <2>8, ReadsConcat
  <2>10. ok => ValueRead(s, t)
    BY <2>6, <2>8 DEF ValueRead
  <2> HIDE DEF text
  <2> QED
    BY <2>8, <2>9, <2>10
<1> HIDE DEF text
<1>3. text \in Texts
  BY <1>1 DEF text
<1>4. JudgedFrom(text, KeyStarts, ok)
  BY <1>2, <1>3 DEF JudgedFrom, Fits, Fails
<1> QED
  BY <1>4 DEF text

(***************************************************************************)
(* Objects and sequences of values.                                         *)
(***************************************************************************)
Good == {text \in Texts : Judged(text, TRUE)}
Bad == {text \in Texts : Judged(text, FALSE)}
As(ok) == IF ok THEN Good ELSE Bad

(* The two ways to say that a text is, or is not, a value.                 *)
LEMMA AsJudged ==
  ASSUME NEW text, NEW ok \in BOOLEAN
  PROVE  Judged(text, ok) <=> text \in As(ok)
BY DEF Judged, JudgedFrom, As, Good, Bad

(* What AllJudged says of the elements, in those terms.                     *)
LEMMA AllJudgedIs ==
  ASSUME NEW parts, NEW ok \in BOOLEAN
  PROVE  AllJudged(parts, ok) <=>
           /\ parts \in Seq(Good \cup Bad)
           /\ ok => \A k \in 1 .. Len(parts) : parts[k] \in Good
           /\ ~ok => \E k \in 1 .. Len(parts) : parts[k] \in Bad
<1>0. /\ \A text \in Texts : text \in Good <=> Fits(text, ValueStarts)
      /\ \A text \in Texts : text \in Bad <=> Fails(text, ValueStarts)
      /\ Good \subseteq Texts /\ Bad \subseteq Texts
  BY DEF Good, Bad, Judged, JudgedFrom
<1>1. ASSUME AllJudged(parts, ok)
      PROVE  /\ parts \in Seq(Good \cup Bad)
             /\ ok => \A k \in 1 .. Len(parts) : parts[k] \in Good
             /\ ~ok => \E k \in 1 .. Len(parts) : parts[k] \in Bad
  <2>1. /\ parts \in Seq(Texts)
        /\ \A k \in 1 .. Len(parts) :
             Fits(parts[k], ValueStarts) \/ Fails(parts[k], ValueStarts)
        /\ IF ok THEN \A k \in 1 .. Len(parts) : Fits(parts[k], ValueStarts)
           ELSE \E k \in 1 .. Len(parts) : Fails(parts[k], ValueStarts)
    BY <1>1 DEF AllJudged, AllJudgedFrom
  <2> HIDE DEF Texts
  <2>2. \A k \in 1 .. Len(parts) : parts[k] \in Texts
    BY <2>1
  <2>3. \A k \in 1 .. Len(parts) : parts[k] \in Good \cup Bad
    BY <1>0, <2>1, <2>2
  <2>4. parts \in Seq(Good \cup Bad)
    BY <2>1, <2>3
  <2> QED
    BY <1>0, <2>1, <2>2, <2>4
<1>2. ASSUME parts \in Seq(Good \cup Bad),
             ok => \A k \in 1 .. Len(parts) : parts[k] \in Good,
             ~ok => \E k \in 1 .. Len(parts) : parts[k] \in Bad
      PROVE  AllJudged(parts, ok)
  <2>1. \A k \in 1 .. Len(parts) : parts[k] \in Good \cup Bad /\ parts[k] \in Texts
    BY <1>0, <1>2
  <2>2. parts \in Seq(Texts)
    <3> HIDE DEF Texts
    <3> QED
      BY <1>2, <2>1
  <2>3. \A k \in 1 .. Len(parts) : Fits(parts[k], ValueStarts) \/ Fails(parts[k], ValueStarts)
    BY <1>0, <2>1
  <2>4. IF ok THEN \A k \in 1 .. Len(parts) : Fits(parts[k], ValueStarts)
        ELSE \E k \in 1 .. Len(parts) : Fails(parts[k], ValueStarts)
    BY <1>0, <1>2, <2>1
  <2> QED
    BY <2>2, <2>3, <2>4 DEF AllJudged, AllJudgedFrom
<1> QED
  BY <1>1, <1>2

(* One sequence of values behind another, and one value repeated.           *)
LEMMA ConcatJudged ==
  ASSUME NEW a, NEW b, NEW x \in BOOLEAN, NEW y \in BOOLEAN, AllJudged(a, x), AllJudged(b, y),
         NEW ok \in BOOLEAN, ok <=> x /\ y
  PROVE  AllJudged(a \o b, ok)
<1> DEFINE G == Good \cup Bad
           c == a \o b
<1>1. /\ a \in Seq(G) /\ b \in Seq(G)
      /\ x => \A k \in 1 .. Len(a) : a[k] \in Good
      /\ ~x => \E k \in 1 .. Len(a) : a[k] \in Bad
      /\ y => \A k \in 1 .. Len(b) : b[k] \in Good
      /\ ~y => \E k \in 1 .. Len(b) : b[k] \in Bad
  BY AllJudgedIs
<1> HIDE DEF G
<1>2. /\ c \in Seq(G) /\ Len(c) = Len(a) + Len(b) /\ Len(a) \in Nat /\ Len(b) \in Nat
      /\ \A k \in 1 .. Len(a) + Len(b) : c[k] = IF k <= Len(a) THEN a[k] ELSE b[k - Len(a)]
  BY <1>1, ConcatProperties
<1>3. /\ \A k \in 1 .. Len(a) : k \in 1 .. Len(c) /\ c[k] = a[k]
      /\ \A k \in 1 .. Len(b) : Len(a) + k \in 1 .. Len(c) /\ c[Len(a) + k] = b[k]
  <2>1. ASSUME NEW k \in 1 .. Len(a) PROVE k \in 1 .. Len(c) /\ c[k] = a[k]
    BY <1>2
  <2>2. ASSUME NEW k \in 1 .. Len(b) PROVE Len(a) + k \in 1 .. Len(c) /\ c[Len(a) + k] = b[k]
    <3>1. Len(a) + k \in 1 .. Len(a) + Len(b) /\ ~(Len(a) + k <= Len(a))
          /\ (Len(a) + k) - Len(a) = k
      BY <1>2
    <3> QED
      BY <1>2, <3>1
  <2> QED
    BY <2>1, <2>2
<1> HIDE DEF c
<1>4. ASSUME x /\ y, NEW k \in 1 .. Len(c) PROVE c[k] \in Good
  <2>1. CASE k <= Len(a)
    <3>1. k \in 1 .. Len(a)
      BY <2>1, <1>2
    <3> QED
      BY <3>1, <1>1, <1>3, <1>4
  <2>2. CASE ~(k <= Len(a))
    <3>1. k - Len(a) \in 1 .. Len(b) /\ k \in 1 .. Len(a) + Len(b)
      BY <2>2, <1>2
    <3>2. c[k] = b[k - Len(a)]
      BY <2>2, <3>1, <1>2
    <3> QED
      BY <3>1, <3>2, <1>1, <1>4
  <2> QED
    BY <2>1, <2>2
<1>5. ASSUME ~(x /\ y) PROVE \E k \in 1 .. Len(c) : c[k] \in Bad
  <2>1. CASE ~x
    <3>1. PICK k \in 1 .. Len(a) : a[k] \in Bad
      BY <2>1, <1>1
    <3> QED
      BY <3>1, <1>3
  <2>2. CASE ~y
    <3>1. PICK k \in 1 .. Len(b) : b[k] \in Bad
      BY <2>2, <1>1
    <3> QED
      BY <3>1, <1>3
  <2> QED
    BY <2>1, <2>2, <1>5
<1>6. AllJudged(c, ok)
  BY <1>2, <1>4, <1>5, AllJudgedIs DEF G
<1> QED
  BY <1>6 DEF c

(* A value repeated; repeated no time at all it cannot do harm.            *)
LEMMA RepeatJudged ==
  ASSUME NEW text, NEW ok \in BOOLEAN, Judged(text, ok), NEW n \in Nat,
         NEW b \in BOOLEAN, b <=> n = 0 \/ ok
  PROVE  AllJudged(Repeat(text, n), b)
<1> DEFINE r == Repeat(text, n)
<1>1. text \in As(ok) /\ text \in Good \cup Bad
  BY AsJudged DEF As
<1>2. r \in Seq(Good \cup Bad) /\ Len(r) = n /\ \A k \in 1 .. n : r[k] = text
  BY <1>1, RepeatMore
<1> HIDE DEF r
<1>3. b => \A k \in 1 .. n : r[k] \in Good
  BY <1>1, <1>2 DEF As
<1>4. ~b => \E k \in 1 .. n : r[k] \in Bad
  <2>1. ASSUME ~b PROVE 1 \in 1 .. n /\ r[1] \in Bad
    BY <2>1, <1>1, <1>2 DEF As
  <2> QED
    BY <2>1
<1>5. AllJudged(r, b)
  BY <1>2, <1>3, <1>4, AllJudgedIs
<1> QED
  BY <1>5 DEF r

(* The braces of an object, around its members.                            *)
LEMMA ObjectEncloses == Enclosing("{", "}", "member", KeyStarts)
<1>1. "{" \in Brackets /\ "{" \in Tokens /\ "}" \in Tokens
  BY TokensKnown DEF Brackets
<1>2. "member" \in KeyStarts /\ (IF "{" = "{" THEN "key" ELSE "value") \in KeyStarts
  BY DEF KeyStarts
<1> QED
  BY <1>1, <1>2, ReadsOpening, ReadsClosing DEF Enclosing

(* The structures: each key in quotes, each value behind its key.           *)
LEMMA ObjectJudged ==
  ASSUME NEW values, NEW ok \in BOOLEAN, AllJudged(values, ok)
  PROVE  Judged(Object(values), ok)
<1> DEFINE N == Len(values)
           member(k) == <<"str", ":">> \o values[k]
           members == [k \in 1 .. N |-> member(k)]
<1>1. /\ values \in Seq(Texts) /\ N \in Nat /\ DOMAIN values = 1 .. N
      /\ \A k \in 1 .. N : values[k] \in Texts
      /\ \A k \in 1 .. N : Fits(values[k], ValueStarts) \/ Fails(values[k], ValueStarts)
      /\ IF ok THEN \A k \in 1 .. N : Fits(values[k], ValueStarts)
         ELSE \E k \in 1 .. N : Fails(values[k], ValueStarts)
  <2> HIDE DEF Texts
  <2> QED
    BY DEF AllJudged, AllJudgedFrom
<1>2. ASSUME NEW k \in 1 .. N
      PROVE  /\ member(k) \in Texts
             /\ Fits(values[k], ValueStarts) => Fits(member(k), KeyStarts)
             /\ Fails(values[k], ValueStarts) => Fails(member(k), KeyStarts)
  <2>1. ASSUME Fits(values[k], ValueStarts)
        PROVE  member(k) \in Texts /\ Fits(member(k), KeyStarts)
    <3>1. Judged(values[k], TRUE)
      BY <1>1, <2>1 DEF Judged, JudgedFrom
    <3>2. JudgedFrom(member(k), KeyStarts, TRUE)
      BY <3>1, MemberJudged
    <3> HIDE DEF member
    <3> QED
      BY <3>2 DEF JudgedFrom
  <2>2. ASSUME Fails(values[k], ValueStarts)
        PROVE  member(k) \in Texts /\ Fails(member(k), KeyStarts)
    <3>1. Judged(values[k], FALSE)
      BY <1>1, <2>2 DEF Judged, JudgedFrom
    <3>2. JudgedFrom(member(k), KeyStarts, FALSE)
      BY <3>1, MemberJudged
    <3> HIDE DEF member
    <3> QED
      BY <3>2 DEF JudgedFrom
  <2> HIDE DEF member
  <2> QED
    BY <2>1, <2>2, <1>1
<1>3. Object(values) = <<"{">> \o Separated(members) \o <<"}">>
  <2>1. Object(values) = <<"{">> \o Separated([k \in DOMAIN values |->
                           <<[j \in DOMAIN values |-> "str"][k], ":">> \o values[k]]) \o <<"}">>
    BY DEF Object, Keyed
  <2>2. [k \in DOMAIN values |-> <<[j \in DOMAIN values |-> "str"][k], ":">> \o values[k]]
          = members
    <3>1. \A k \in DOMAIN values : [j \in DOMAIN values |-> "str"][k] = "str"
      OBVIOUS
    <3> QED
      BY <3>1, <1>1
  <2> QED
    BY <2>1, <2>2
<1> HIDE DEF member
<1>4. members \in Seq(Texts) /\ Len(members) = N /\ \A k \in 1 .. N : members[k] = member(k)
  <2> HIDE DEF Texts, N
  <2> QED
    BY <1>1, <1>2
<1> HIDE DEF members
<1>5. AllJudgedFrom(members, KeyStarts, ok)
  BY <1>1, <1>2, <1>4 DEF AllJudgedFrom
<1> QED
  BY <1>3, <1>5, ObjectEncloses, EnclosedJudged

(* The values every message is made of.                                     *)
LEMMA ScalarsGood ==
  /\ Num \in Good /\ Str \in Good /\ <<"null">> \in Good
  /\ <<"bare">> \in Bad /\ <<"garbled">> \in Bad
  /\ Good \subseteq Texts /\ Bad \subseteq Texts
<1>1. \A token \in {"num", "str", "null"} : <<token>> \in Good
  BY TokensJudged, AsJudged DEF As
<1>2. \A token \in {"bare", "garbled"} : <<token>> \in Bad
  BY TokensJudged, AsJudged DEF As
<1> QED
  BY <1>1, <1>2 DEF Num, Str, Good, Bad

(* An object of values that are fine, and one with a value in doubt.        *)
LEMMA GoodObject ==
  ASSUME NEW values \in Seq(Good)
  PROVE  Object(values) \in Good
<1>1. values \in Seq(Good \cup Bad) /\ \A k \in 1 .. Len(values) : values[k] \in Good
  OBVIOUS
<1>2. AllJudged(values, TRUE)
  BY <1>1, AllJudgedIs
<1>3. Judged(Object(values), TRUE)
  BY <1>2, ObjectJudged
<1> QED
  BY <1>3, AsJudged DEF As

(* An object that is a value exactly if ok holds.                          *)
LEMMA DoubtfulObject ==
  ASSUME NEW ok \in BOOLEAN, NEW values \in Seq(Good \cup Bad),
         ok => values \in Seq(Good),
         ~ok => \E k \in 1 .. Len(values) : values[k] \in Bad
  PROVE  Object(values) \in As(ok)
<1>1. ok => \A k \in 1 .. Len(values) : values[k] \in Good
  OBVIOUS
<1>2. AllJudged(values, ok)
  BY <1>1, AllJudgedIs
<1>3. Judged(Object(values), ok)
  BY <1>2, ObjectJudged
<1> QED
  BY <1>3, AsJudged

(* A list of the same value, of any length.                                *)
LEMMA GoodRepeat ==
  ASSUME NEW text \in Good, NEW n \in Nat
  PROVE  Repeat(text, n) \in Seq(Good) /\ List(Repeat(text, n)) \in Good
<1>1. Repeat(text, n) \in Seq(Good)
  BY RepeatMore
<1>2. Judged(text, TRUE)
  BY DEF Good
<1>3. AllJudged(Repeat(text, n), TRUE)
  BY <1>2, RepeatJudged
<1>4. Judged(List(Repeat(text, n)), TRUE)
  BY <1>3, ListJudged
<1> QED
  BY <1>1, <1>4, AsJudged DEF As

(***************************************************************************)
(* The values of the messages.                                              *)
(***************************************************************************)
LEMMA FlagsGood ==
  ASSUME NEW m \in Message
  PROVE  /\ MDFlagsSet(m) = List(Repeat(Str, Cardinality(m.flags)))
         /\ FlagsSet(m) = List(Repeat(Str, Cardinality(m.flags \cap NamedBits)))
         /\ MDFlagsSet(m) \in Good /\ FlagsSet(m) \in Good /\ MDFlags2Set \in Good
<1>1. m.flags \in SUBSET Bits
  BY DEF Message
<1>2. MDFlagsSet(m) = List(Repeat(Str, Cardinality(m.flags)))
  <2>1. FlagList(Bits, m.flags) = List(Repeat(Str, Cardinality(m.flags \cap Bits)))
    BY <1>1, FlagListLists
  <2>2. m.flags \cap Bits = m.flags
    BY <1>1
  <2> QED
    BY <2>1, <2>2 DEF MDFlagsSet
<1>3. FlagsSet(m) = List(Repeat(Str, Cardinality(m.flags \cap NamedBits)))
  BY <1>1, FlagListLists, BitsAssumption DEF FlagsSet
<1>4. Cardinality(m.flags) \in Nat /\ Cardinality(m.flags \cap NamedBits) \in Nat
  <2>1. IsFiniteSet(m.flags) /\ IsFiniteSet(m.flags \cap NamedBits)
    BY <1>1, BitsAssumption, FS_Subset
  <2> QED
    BY <2>1, FS_CardinalityType
<1>5. MDFlags2Set \in Good
  <2>1. Repeat(Str, 0) = <<>>
    BY ScalarsGood, RepeatMore
  <2> QED
    BY <2>1, ScalarsGood, GoodRepeat DEF MDFlags2Set
<1> QED
  BY <1>2, <1>3, <1>4, <1>5, ScalarsGood, GoodRepeat

(* Numbers and enumerations: an infinity and an unknown action are no JSON.*)
LEMMA NumbersGood ==
  ASSUME NEW m \in Message
  PROVE  /\ Nullable(m) \in Good /\ Decimal \in Good /\ DecimalNULL(m) \in Good
         /\ DoubleNULL(m) \in As(m.rate # "inf")
         /\ UpdateAction(m) \in As(m.action = "known")
<1>1. Nullable(m) \in Good
  BY ScalarsGood DEF Nullable
<1>2. Decimal \in Good /\ DecimalNULL(m) \in Good
  <2>1. <<Num, Num>> \in Seq(Good) /\ <<Nullable(m), Num>> \in Seq(Good)
    BY <1>1, ScalarsGood
  <2> QED
    BY <2>1, GoodObject DEF Decimal, DecimalNULL
<1>3. DoubleNULL(m) \in As(m.rate # "inf")
  <2>1. m.rate \in {"number", "nan", "inf"}
    BY DEF Message
  <2> QED
    BY <2>1, ScalarsGood DEF DoubleNULL, As
<1>4. UpdateAction(m) \in As(m.action = "known")
  BY ScalarsGood DEF UpdateAction, As
<1> QED
  BY <1>1, <1>2, <1>3, <1>4

PlainOk(m) == m.special => m.harmless

TextOk(m, f) == PlainOk(m) /\ (CStringFields(m, f) \subseteq TextFields \/ m.harmless)

EntryOk(m, g) == PlainOk(m) /\ (g \in m.runsOn => m.harmless)

(* Texts: unchecked bytes that do not fit and zeros in an array taken whole *)
(* are no JSON.                                                            *)
LEMMA TextsJudged ==
  ASSUME NEW m \in Message, NEW f
  PROVE  /\ Uncertain(m) \in As(m.harmless)
         /\ Text(m) \in As(PlainOk(m))
         /\ CString(m, f) \in As(TextOk(m, f))
         /\ WholeArray(m, f) \in As(m.fill[f] = "full" /\ PlainOk(m))
         /\ EntryText(m, f) \in As(EntryOk(m, f))
         /\ Description(m) \in As(m.desc => m.harmless)
         /\ Quotation(m) \in As(m.quotation => PlainOk(m))
<1>0. Uncertain(m) \in As(m.harmless)
  BY ScalarsGood DEF Uncertain, As
<1>1. Text(m) \in As(PlainOk(m))
  BY <1>0, ScalarsGood DEF Text, As, PlainOk
<1>2. CString(m, f) \in As(TextOk(m, f))
  BY <1>0, <1>1, ScalarsGood DEF CString, As, TextOk, PlainOk
<1>3. WholeArray(m, f) \in As(m.fill[f] = "full" /\ PlainOk(m))
  BY <1>1, ScalarsGood DEF WholeArray, As
<1>4. EntryText(m, f) \in As(EntryOk(m, f))
  BY <1>0, <1>1, ScalarsGood DEF EntryText, As, EntryOk, PlainOk
<1>5. Description(m) \in As(m.desc => m.harmless)
  BY <1>0, ScalarsGood DEF Description, As
<1>6. Quotation(m) \in As(m.quotation => PlainOk(m))
  BY <1>1, ScalarsGood DEF Quotation, As
<1> QED
  BY <1>0, <1>1, <1>2, <1>3, <1>4, <1>5, <1>6

(* Where what a text is depends on several conditions.                      *)
LEMMA AsWorse ==
  ASSUME NEW a \in BOOLEAN, NEW text \in As(a)
  PROVE  text \in Good \cup Bad /\ (a => text \in Good) /\ (~a => text \in Bad)
BY DEF As

(***************************************************************************)
(* The messages.                                                            *)
(***************************************************************************)
LEMMA HeadersGood ==
  /\ MarketDataPacketHeader \in Good /\ IncrementalPacketHeader \in Good
  /\ MessageHeader \in Good /\ SequenceReset \in Good
<1>1. Num \in Good
  BY ScalarsGood
<1>2. \A n \in Nat : Repeat(Num, n) \in Seq(Good)
  BY <1>1, GoodRepeat
<1>3. Repeat(Num, 4) \in Seq(Good) /\ Repeat(Num, 2) \in Seq(Good)
  BY <1>2
<1>4. <<Num>> \in Seq(Good)
  BY <1>1
<1> QED
  BY <1>3, <1>4, GoodObject
  DEF MarketDataPacketHeader, IncrementalPacketHeader, MessageHeader, SequenceReset

(* Of the order messages, only the update action is in doubt.              *)
LEMMA OrdersJudged ==
  ASSUME NEW m \in Message
  PROVE  /\ OrderUpdate(m) \in As(m.action = "known")
         /\ OrderExecution(m) \in As(m.action = "known")
<1> DEFINE ok == m.action = "known"
           D == DecimalNULL(m)
           F == MDFlagsSet(m)
           U == UpdateAction(m)
           G == Good \cup Bad
<1>1. /\ Num \in Good /\ Str \in Good /\ Decimal \in Good /\ D \in Good
      /\ F \in Good /\ MDFlags2Set \in Good
      /\ U \in G /\ (ok => U \in Good) /\ (~ok => U \in Bad)
  BY ScalarsGood, NumbersGood, FlagsGood, AsWorse
<1>2. ok \in BOOLEAN /\ Good \subseteq G
  OBVIOUS
<1> DEFINE update == <<Str, Num, Decimal, Num, F, MDFlags2Set, Num, Num, U, Str>>
           execution == <<Str, Num, D, Num, Decimal, Num, Num, F, MDFlags2Set, Num, Num, U, Str>>
<1> HIDE DEF ok, D, F, U, G
<1>3. update \in Seq(G) /\ (U \in Good => update \in Seq(Good))
      /\ Len(update) = 10 /\ update[9] = U
  BY <1>1, <1>2
<1>4. execution \in Seq(G) /\ (U \in Good => execution \in Seq(Good))
      /\ Len(execution) = 13 /\ execution[12] = U
  BY <1>1, <1>2
<1> HIDE DEF update, execution
<1>5. ~ok => \E k \in 1 .. Len(update) : update[k] \in Bad
  <2>1. 9 \in 1 .. 10
    OBVIOUS
  <2> QED
    BY <2>1, <1>1, <1>3
<1>6. ~ok => \E k \in 1 .. Len(execution) : execution[k] \in Bad
  <2>1. 12 \in 1 .. 13
    OBVIOUS
  <2> QED
    BY <2>1, <1>1, <1>4
<1>7. Object(update) \in As(ok) /\ Object(execution) \in As(ok)
  <2>1. Object(update) \in As(ok)
    BY <1>1, <1>2, <1>3, <1>5, DoubtfulObject DEF G
  <2>2. Object(execution) \in As(ok)
    BY <1>1, <1>2, <1>4, <1>6, DoubtfulObject DEF G
  <2> QED
    BY <2>1, <2>2
<1> QED
  BY <1>7 DEF OrderUpdate, OrderExecution, update, execution, ok, D, F, U

(* The lists of a message, as PacketsAssumption says they are.              *)
Sized(m) ==
  /\ m.template = "SecurityDefinition" => Len(m.counts) = 5 /\ Len(m.entries) = 5
  /\ m.template = "OrderBookSnapshot" => Len(m.entries) = 1

(* An OrderBookSnapshot is always a value, with any number of entries.     *)
LEMMA SnapshotGood ==
  ASSUME NEW m \in Message, Sized(m), m.template = "OrderBookSnapshot"
  PROVE  OrderBookSnapshot(m) \in Good
<1>1. m.entries[1] \in Nat
  <2>1. m.entries \in Seq(Nat) /\ Len(m.entries) = 1
    BY DEF Message, Sized
  <2> QED
    BY <2>1
<1> DEFINE D == DecimalNULL(m)
           F == MDFlagsSet(m)
<1>2. Num \in Good /\ Str \in Good /\ D \in Good /\ F \in Good /\ MDFlags2Set \in Good
  BY ScalarsGood, NumbersGood, FlagsGood
<1> HIDE DEF D, F
<1>3. <<Num, Num, D, Num, Num, F, MDFlags2Set, Str>> \in Seq(Good)
  BY <1>2
<1>4. SnapshotEntry(m) \in Good
  BY <1>3, GoodObject DEF SnapshotEntry, D, F
<1> DEFINE L == List(Repeat(SnapshotEntry(m), m.entries[1]))
           R == Repeat(Num, 4)
<1>5. L \in Good
  BY <1>1, <1>4, GoodRepeat
<1>6. R \in Seq(Good)
  <2>1. \A n \in Nat : Repeat(Num, n) \in Seq(Good)
    BY <1>2, GoodRepeat
  <2> QED
    BY <2>1
<1> HIDE DEF L, R
<1>7. <<Str>> \o R \o <<L>> \in Seq(Good)
  <2>1. <<Str>> \in Seq(Good) /\ <<L>> \in Seq(Good)
    BY <1>2, <1>5
  <2>2. <<Str>> \o R \in Seq(Good)
    BY <2>1, <1>6, ConcatProperties
  <2> QED
    BY <2>1, <2>2, ConcatProperties
<1> QED
  BY <1>7, GoodObject DEF OrderBookSnapshot, L, R

(* A SecurityStatus never is: its second key has no quotes.                *)
LEMMA StatusBad ==
  ASSUME NEW m \in Message
  PROVE  SecurityStatus(m) \in Bad
<1> DEFINE D == DecimalNULL(m)
           B == <<"bare">>
           head == <<Str, Num, B, B, B>>
           values == head \o Repeat(D, 5)
           key == [k \in 1 .. 10 |-> IF k = 1 THEN "str" ELSE "bare"]
           member(k) == <<key[k], ":">> \o values[k]
           members == [k \in DOMAIN values |-> member(k)]
<1>1. D \in Good /\ Str \in Good /\ Num \in Good /\ B \in Texts /\ Good \subseteq Texts
  BY NumbersGood, ScalarsGood
<1>2. /\ values \in Seq(Texts) /\ DOMAIN values = 1 .. 10 /\ values[1] = Str
  <2>1. head \in Seq(Texts) /\ Len(head) = 5 /\ head[1] = Str
    <3> HIDE DEF Texts, B
    <3> QED
      BY <1>1
  <2>2. Repeat(D, 5) \in Seq(Texts) /\ Len(Repeat(D, 5)) = 5
    <3>1. D \in Texts
      BY <1>1
    <3> HIDE DEF D, Texts
    <3>2. \A n \in Nat : Repeat(D, n) \in Seq(Texts) /\ Len(Repeat(D, n)) = n
      BY <3>1, RepeatMore
    <3> QED
      BY <3>2
  <2> DEFINE rest == Repeat(D, 5)
  <2> HIDE DEF head, rest, Texts, D
  <2>3. values \in Seq(Texts) /\ Len(values) = 10 /\ values[1] = head[1]
    <3>1. values = head \o rest
      BY DEF rest
    <3>2. rest \in Seq(Texts) /\ Len(rest) = 5
      BY <2>2 DEF rest
    <3> HIDE DEF values
    <3>3. /\ values \in Seq(Texts) /\ Len(values) = Len(head) + Len(rest)
          /\ \A k \in 1 .. Len(head) + Len(rest) :
               values[k] = IF k <= Len(head) THEN head[k] ELSE rest[k - Len(head)]
      BY <2>1, <3>1, <3>2, ConcatProperties
    <3> QED
      BY <2>1, <3>2, <3>3
  <2> HIDE DEF values
  <2>4. DOMAIN values = 1 .. 10
    BY <2>3
  <2> QED
    BY <2>1, <2>3, <2>4
<1> HIDE DEF values
<1>3. JudgedFrom(member(1), KeyStarts, TRUE)
  <2>1. member(1) = <<"str", ":">> \o Str
    BY <1>2
  <2>2. Judged(Str, TRUE)
    BY <1>1 DEF Good
  <2> QED
    BY <2>1, <2>2, MemberJudged
<1>4. ASSUME NEW text \in Texts
      PROVE  JudgedFrom(<<"bare", ":">> \o text, KeyStarts, FALSE)
  <2> DEFINE a == <<"bare">>
             b == <<":">> \o text
             c == <<"bare", ":">> \o text
  <2>1. a \in Texts /\ b \in Texts /\ c \in Texts /\ c = a \o b
    <3>1. "bare" \in Tokens /\ ":" \in Tokens
      BY TokensKnown
    <3>2. a \in Texts /\ <<":">> \in Texts /\ <<"bare">> \o <<":">> = <<"bare", ":">>
      BY <3>1, TokenTexts
    <3>3. (<<"bare">> \o <<":">>) \o text = <<"bare">> \o (<<":">> \o text)
      BY <3>2, TokenTexts
    <3>4. a \o b = c /\ b \in Texts /\ a \o b \in Texts
      BY <3>2, <3>3, TokenTexts
    <3> QED
      BY <3>2, <3>4
  <2> HIDE DEF c, b
  <2>2. ASSUME NEW s \in States, s.next \in KeyStarts
        PROVE  \E t \in States : Reads(s, c, t) /\ t.next = "error"
    <3> DEFINE e == Read(s, "bare")
    <3>1. e \in States /\ Reads(s, a, e)
      BY ReadType, ReadsToken
    <3>2. e = [s EXCEPT !.next = "error"]
      BY <2>2, ReadsNoJson DEF AtKey, KeyStarts
    <3>3. e.next = "error"
      BY <3>2 DEF States
    <3> HIDE DEF e, a
    <3>4. Reads(e, b, e)
      BY <2>1, <3>1, <3>3, ErrorStays DEF Texts
    <3>5. Reads(s, c, e)
      BY <2>1, <3>1, <3>4, ReadsConcat DEF Texts
    <3> QED
      BY <3>1, <3>3, <3>5
  <2>3. JudgedFrom(c, KeyStarts, FALSE)
    BY <2>1, <2>2 DEF JudgedFrom, Fails
  <2> QED
    BY <2>3 DEF c
<1>5. ASSUME NEW k \in 2 .. 10 PROVE JudgedFrom(member(k), KeyStarts, FALSE)
  <2>1. key[k] = "bare" /\ values[k] \in Texts
    <3> HIDE DEF Texts
    <3> QED
      BY <1>2
  <2> QED
    BY <2>1, <1>4
<1> HIDE DEF member
<1>6. AllJudgedFrom(members, KeyStarts, FALSE)
  <2>1. ASSUME NEW k \in 1 .. 10
        PROVE  /\ member(k) \in Texts
               /\ Fits(member(k), KeyStarts) \/ Fails(member(k), KeyStarts)
    <3>1. CASE k = 1
      BY <3>1, <1>3 DEF JudgedFrom
    <3>2. CASE k # 1
      <4>1. k \in 2 .. 10
        BY <3>2
      <4> QED
        BY <4>1, <1>5 DEF JudgedFrom
    <3> QED
      BY <3>1, <3>2
  <2>2. members = [k \in 1 .. 10 |-> member(k)]
    BY <1>2
  <2>3. members \in Seq(Texts) /\ Len(members) = 10
    <3> HIDE DEF Texts, members
    <3> QED
      BY <2>1, <2>2
  <2>4. \A k \in 1 .. 10 : members[k] = member(k)
    BY <2>2
  <2>5. 2 \in 1 .. 10 /\ Fails(member(2), KeyStarts)
    <3>1. 2 \in 2 .. 10
      OBVIOUS
    <3> QED
      BY <3>1, <1>5 DEF JudgedFrom
  <2> HIDE DEF members
  <2> QED
    BY <2>1, <2>3, <2>4, <2>5 DEF AllJudgedFrom
<1>7. Enclosing("{", "}", "member", KeyStarts)
  BY ObjectEncloses
<1>8. SecurityStatus(m) = <<"{">> \o Separated(members) \o <<"}">>
  <2>1. SecurityStatus(m) = Keyed(key, values)
    BY DEF SecurityStatus, values
  <2> QED
    BY <2>1 DEF Keyed, member
<1>9. Judged(SecurityStatus(m), FALSE)
  BY <1>6, <1>7, <1>8, EnclosedJudged
<1> QED
  BY <1>9, AsJudged DEF As

(* A SecurityDefinitionUpdateReport always is.                             *)
LEMMA ReportGood ==
  ASSUME NEW m \in Message
  PROVE  SecurityDefinitionUpdateReport(m) \in Good
<1> DEFINE D == DecimalNULL(m)
           R == Repeat(D, 3)
<1>1. Num \in Good /\ Str \in Good /\ D \in Good
  BY NumbersGood, ScalarsGood
<1>2. R \in Seq(Good)
  <2> HIDE DEF D
  <2>1. \A n \in Nat : Repeat(D, n) \in Seq(Good)
    BY <1>1, GoodRepeat
  <2> QED
    BY <2>1
<1> HIDE DEF R
<1>3. <<Num, Str>> \o R \in Seq(Good)
  <2>1. <<Num, Str>> \in Seq(Good)
    BY <1>1
  <2> QED
    BY <2>1, <1>2, ConcatProperties
<1> QED
  BY <1>3, GoodObject DEF SecurityDefinitionUpdateReport, R

(* A TradingSessionStatus is unless its MarketSegmentID is no character.    *)
LEMMA SessionJudged ==
  ASSUME NEW m \in Message
  PROVE  TradingSessionStatus(m) \in As(m.segment = "printable")
<1> DEFINE ok == m.segment = "printable"
           V == Nullable(m)
           X == IF m.segment = "printable" THEN Str ELSE <<"garbled">>
           G == Good \cup Bad
           values == <<Str, Num, Num, V, V, Num, V, Num, Str, X, Num>>
<1>1. /\ Num \in Good /\ Str \in Good /\ V \in Good /\ Good \subseteq G /\ ok \in BOOLEAN
      /\ X \in G /\ (ok => X \in Good) /\ (~ok => X \in Bad)
  BY NumbersGood, ScalarsGood
<1> HIDE DEF ok, V, X, G
<1>2. values \in Seq(G) /\ (X \in Good => values \in Seq(Good))
      /\ Len(values) = 11 /\ values[10] = X
  BY <1>1
<1> HIDE DEF values
<1>3. ~ok => \E k \in 1 .. Len(values) : values[k] \in Bad
  <2>1. 10 \in 1 .. 11
    OBVIOUS
  <2> QED
    BY <2>1, <1>1, <1>2
<1>4. Object(values) \in As(ok)
  BY <1>1, <1>2, <1>3, DoubtfulObject DEF G
<1> QED
  BY <1>4 DEF TradingSessionStatus, values, ok, V, X

(* The groups: no text, or unchecked bytes that fit, or as many entries as  *)
(* the vector has and no text that runs on.                                *)
GroupOk(m, g) ==
  \/ g = 5 \/ m.counts[g] = 0 \/ m.harmless
  \/ m.counts[g] <= m.entries[g] /\ EntryOk(m, g)

(* An entry of a group is a value unless a text in it is none.             *)
LEMMA EntryJudged ==
  ASSUME NEW g \in 1 .. 5, NEW ok \in BOOLEAN, NEW E \in As(ok)
  PROVE  GroupEntry(g, E) \in As(g = 5 \/ ok)
<1> DEFINE G == Good \cup Bad
<1>1. /\ Num \in Good /\ Good \subseteq G /\ ok \in BOOLEAN
      /\ E \in G /\ (ok => E \in Good) /\ (~ok => E \in Bad)
  BY ScalarsGood, AsWorse
<1> DEFINE e1 == <<E, Num, Num>>
           e2 == <<E, E, Num, Num>>
           e4 == <<Num, E>>
           e5 == <<Num, Num, Num>>
<1> HIDE DEF G
<1>2. /\ e1 \in Seq(G) /\ (E \in Good => e1 \in Seq(Good)) /\ Len(e1) = 3 /\ e1[1] = E
      /\ e2 \in Seq(G) /\ (E \in Good => e2 \in Seq(Good)) /\ Len(e2) = 4 /\ e2[1] = E
      /\ e4 \in Seq(G) /\ (E \in Good => e4 \in Seq(Good)) /\ Len(e4) = 2 /\ e4[2] = E
      /\ e5 \in Seq(Good)
  BY <1>1
<1>3. GroupEntry(g, E) = <<Object(e1), Object(e2), Object(e1), Object(e4), Object(e5)>>[g]
  BY DEF GroupEntry
<1> HIDE DEF e1, e2, e4, e5
<1>4. 1 \in 1 .. 3 /\ 1 \in 1 .. 4 /\ 2 \in 1 .. 2
  OBVIOUS
<1>5. Object(e1) \in As(ok)
  BY <1>1, <1>2, <1>4, DoubtfulObject DEF G
<1>6. Object(e2) \in As(ok)
  BY <1>1, <1>2, <1>4, DoubtfulObject DEF G
<1>7. Object(e4) \in As(ok)
  BY <1>1, <1>2, <1>4, DoubtfulObject DEF G
<1>8. Object(e5) \in Good
  BY <1>2, GoodObject
<1>9. CASE g = 5
  <2>1. GroupEntry(g, E) = Object(e5)
    BY <1>3, <1>9
  <2> QED
    BY <2>1, <1>8, <1>9 DEF As
<1>10. CASE g # 5
  <2>1. g = 1 \/ g = 2 \/ g = 3 \/ g = 4
    BY <1>10
  <2>2. GroupEntry(g, E) \in {Object(e1), Object(e2), Object(e4)}
    BY <1>3, <2>1
  <2>3. GroupEntry(g, E) \in As(ok)
    BY <2>2, <1>5, <1>6, <1>7
  <2> QED
    BY <2>3, <1>10 DEF As
<1> QED
  BY <1>9, <1>10

(* A group is, unless a text of an entry in it is none, or of one beyond    *)
(* its vector: the first entry is of the one kind or of the other.         *)
LEMMA GroupJudged ==
  ASSUME NEW m \in Message, Sized(m), m.template = "SecurityDefinition", NEW g \in 1 .. 5
  PROVE  Group(m, g) \in As(GroupOk(m, g)) /\ GroupOk(m, g) \in BOOLEAN
<1> DEFINE c == m.counts[g]
           n == m.entries[g]
           inside == GroupEntry(g, EntryText(m, g))
           outside == GroupEntry(g, Uncertain(m))
           fits == g = 5 \/ EntryOk(m, g)
           harmless == g = 5 \/ m.harmless
           ok == GroupOk(m, g)
           part(k) == IF k <= n THEN inside ELSE outside
           parts == [k \in 1 .. c |-> part(k)]
<1>1. c \in Nat /\ n \in Nat
  <2>1. /\ m.counts \in Seq(Nat) /\ Len(m.counts) = 5
        /\ m.entries \in Seq(Nat) /\ Len(m.entries) = 5
    BY DEF Message, Sized
  <2> QED
    BY <2>1
<1>2. m.harmless \in BOOLEAN /\ EntryOk(m, g) \in BOOLEAN
  BY DEF Message, EntryOk
<1>3. inside \in As(fits) /\ outside \in As(harmless)
  BY <1>2, TextsJudged, EntryJudged
<1>4. fits \in BOOLEAN /\ harmless \in BOOLEAN /\ ok \in BOOLEAN
      /\ (ok <=> (c = 0 \/ harmless \/ (c <= n /\ fits)))
      /\ (harmless => fits)
  BY <1>2 DEF GroupOk, EntryOk, PlainOk
<1>5. Group(m, g) = List(parts)
  <2>1. \A k : GroupEntry(g, IF k <= n THEN EntryText(m, g) ELSE Uncertain(m)) = part(k)
    OBVIOUS
  <2> QED
    BY <2>1 DEF Group
<1> HIDE DEF inside, outside, fits, harmless, ok, c, n
<1>6. /\ inside \in Good \cup Bad /\ (fits => inside \in Good) /\ (~fits => inside \in Bad)
      /\ outside \in Good \cup Bad /\ (harmless => outside \in Good)
      /\ (~harmless => outside \in Bad)
  BY <1>3, <1>4, AsWorse
<1>7. \A k \in 1 .. c : part(k) \in Good \cup Bad
  BY <1>6
<1>8. ASSUME ok, NEW k \in 1 .. c PROVE part(k) \in Good
  <2>1. c # 0 /\ (c <= n => k <= n)
    BY <1>1, <1>8
  <2> QED
    BY <2>1, <1>4, <1>6, <1>8
<1>9. ASSUME ~ok PROVE \E k \in 1 .. c : part(k) \in Bad
  <2>1. c # 0 /\ ~harmless /\ (c <= n => ~fits)
    BY <1>4, <1>9
  <2>2. CASE ~(c <= n)
    <3>1. c \in 1 .. c /\ ~(c <= n)
      BY <2>1, <2>2, <1>1
    <3>2. part(c) \in Bad
      BY <3>1, <2>1, <1>6
    <3> HIDE DEF part
    <3> QED
      BY <3>1, <3>2
  <2>3. CASE c <= n
    <3>1. 1 \in 1 .. c /\ 1 <= n
      BY <2>1, <2>3, <1>1
    <3>2. part(1) \in Bad
      BY <3>1, <2>1, <2>3, <1>6
    <3> HIDE DEF part
    <3> QED
      BY <3>1, <3>2
  <2> QED
    BY <2>2, <2>3
<1> HIDE DEF part
<1>10. /\ parts \in Seq(Good \cup Bad) /\ Len(parts) = c
       /\ \A k \in 1 .. c : parts[k] = part(k)
  BY <1>1, <1>7
<1> HIDE DEF parts
<1>11. AllJudged(parts, ok)
  BY <1>4, <1>8, <1>9, <1>10, AllJudgedIs
<1>12. Judged(Group(m, g), ok)
  BY <1>4, <1>5, <1>11, ListJudged
<1> QED
  BY <1>4, <1>12, AsJudged DEF ok

(* A written-out sequence of values.                                       *)
LEMMA TupleJudged ==
  ASSUME NEW ok \in BOOLEAN, NEW values \in Seq(Good \cup Bad),
         ok => values \in Seq(Good),
         ~ok => \E k \in 1 .. Len(values) : values[k] \in Bad
  PROVE  AllJudged(values, ok)
<1>1. ok => \A k \in 1 .. Len(values) : values[k] \in Good
  OBVIOUS
<1> QED
  BY <1>1, AllJudgedIs

(* The fields of a SecurityDefinition in front of its decimals.             *)
LEMMA DefinitionHeadJudged ==
  ASSUME NEW m \in Message, NEW ok \in BOOLEAN,
         ok <=> /\ PlainOk(m)
                /\ TextOk(m, SecurityAltID) /\ TextOk(m, SecurityType)
                /\ m.fill[CFICode] = "full"
  PROVE  AllJudged(<<Str, Num, Text(m), Num, Num, CString(m, SecurityAltID), Str,
                     CString(m, SecurityType), WholeArray(m, CFICode), DecimalNULL(m), Num,
                     Str, Text(m), Str, Str, Str, Num>>, ok)
<1> DEFINE T == Text(m)
           A == CString(m, SecurityAltID)
           Y == CString(m, SecurityType)
           C == WholeArray(m, CFICode)
           D == DecimalNULL(m)
           G == Good \cup Bad
           t == PlainOk(m)
           a == TextOk(m, SecurityAltID)
           y == TextOk(m, SecurityType)
           c == m.fill[CFICode] = "full" /\ PlainOk(m)
           values == <<Str, Num, T, Num, Num, A, Str, Y, C, D, Num, Str, T, Str, Str, Str, Num>>
<1>1. /\ Num \in Good /\ Str \in Good /\ D \in Good /\ Good \subseteq G
      /\ T \in As(t) /\ A \in As(a) /\ Y \in As(y) /\ C \in As(c)
      /\ t \in BOOLEAN /\ a \in BOOLEAN /\ y \in BOOLEAN /\ c \in BOOLEAN
  BY ScalarsGood, NumbersGood, TextsJudged DEF TextOk, PlainOk
<1>2. ok <=> t /\ a /\ y /\ c
  OBVIOUS
<1> HIDE DEF T, A, Y, C, D, t, a, y, c
<1>3. /\ T \in G /\ (t => T \in Good) /\ (~t => T \in Bad)
      /\ A \in G /\ (a => A \in Good) /\ (~a => A \in Bad)
      /\ Y \in G /\ (y => Y \in Good) /\ (~y => Y \in Bad)
      /\ C \in G /\ (c => C \in Good) /\ (~c => C \in Bad)
  BY <1>1, AsWorse
<1> HIDE DEF G
<1>4. values \in Seq(G)
  BY <1>1, <1>3
<1>5. T \in Good /\ A \in Good /\ Y \in Good /\ C \in Good => values \in Seq(Good)
  BY <1>1
<1>6. Len(values) = 17 /\ values[3] = T /\ values[6] = A /\ values[8] = Y /\ values[9] = C
  OBVIOUS
<1> HIDE DEF values
<1>7. 3 \in 1 .. 17 /\ 6 \in 1 .. 17 /\ 8 \in 1 .. 17 /\ 9 \in 1 .. 17
  OBVIOUS
<1>8. ok => values \in Seq(Good)
  BY <1>2, <1>3, <1>5
<1>9. ~ok => \E k \in 1 .. Len(values) : values[k] \in Bad
  BY <1>2, <1>3, <1>6, <1>7
<1>10. AllJudged(values, ok)
  BY <1>4, <1>8, <1>9, TupleJudged DEF G
<1> QED
  BY <1>10 DEF values, T, A, Y, C, D

(* Those between the decimals and the first doubles.                        *)
LEMMA DefinitionMiddleJudged ==
  ASSUME NEW m \in Message, NEW ok \in BOOLEAN,
         ok <=> TextOk(m, UnderlyingCurrency) /\ TextOk(m, ValuationMethod)
  PROVE  AllJudged(<<CString(m, UnderlyingCurrency), Num, Num, FlagsSet(m), DecimalNULL(m),
                     DecimalNULL(m), CString(m, ValuationMethod)>>, ok)
<1> DEFINE U == CString(m, UnderlyingCurrency)
           V == CString(m, ValuationMethod)
           D == DecimalNULL(m)
           F == FlagsSet(m)
           G == Good \cup Bad
           u == TextOk(m, UnderlyingCurrency)
           v == TextOk(m, ValuationMethod)
           values == <<U, Num, Num, F, D, D, V>>
<1>1. /\ Num \in Good /\ D \in Good /\ F \in Good /\ Good \subseteq G
      /\ U \in As(u) /\ V \in As(v) /\ u \in BOOLEAN /\ v \in BOOLEAN
  BY ScalarsGood, NumbersGood, FlagsGood, TextsJudged DEF TextOk
<1>2. ok <=> u /\ v
  OBVIOUS
<1> HIDE DEF U, V, D, F, u, v
<1>3. /\ U \in G /\ (u => U \in Good) /\ (~u => U \in Bad)
      /\ V \in G /\ (v => V \in Good) /\ (~v => V \in Bad)
  BY <1>1, AsWorse
<1> HIDE DEF G
<1>4. values \in Seq(G)
  BY <1>1, <1>3
<1>5. U \in Good /\ V \in Good => values \in Seq(Good)
  BY <1>1
<1>6. Len(values) = 7 /\ values[1] = U /\ values[7] = V
  OBVIOUS
<1> HIDE DEF values
<1>7. 1 \in 1 .. 7 /\ 7 \in 1 .. 7
  OBVIOUS
<1>8. ok => values \in Seq(Good)
  BY <1>2, <1>3, <1>5
<1>9. ~ok => \E k \in 1 .. Len(values) : values[k] \in Bad
  BY <1>2, <1>3, <1>6, <1>7
<1>10. AllJudged(values, ok)
  BY <1>4, <1>8, <1>9, TupleJudged DEF G
<1> QED
  BY <1>10 DEF values, U, V, D, F

(* Those behind the first doubles, and the strings.                         *)
LEMMA DefinitionTextsJudged ==
  ASSUME NEW m \in Message, NEW t \in BOOLEAN, t <=> PlainOk(m),
         NEW q \in BOOLEAN, q <=> (m.desc => m.harmless) /\ (m.quotation => PlainOk(m))
  PROVE  /\ AllJudged(<<Text(m), Str, Num>>, t)
         /\ AllJudged(<<Description(m), Quotation(m)>>, q)
<1> DEFINE T == Text(m)
           D == Description(m)
           Q == Quotation(m)
           G == Good \cup Bad
           s == PlainOk(m)
           d == m.desc => m.harmless
           p == m.quotation => PlainOk(m)
           values == <<T, Str, Num>>
           strings == <<D, Q>>
<1>1. /\ Num \in Good /\ Str \in Good /\ Good \subseteq G
      /\ T \in As(s) /\ D \in As(d) /\ Q \in As(p)
      /\ s \in BOOLEAN /\ d \in BOOLEAN /\ p \in BOOLEAN
  BY ScalarsGood, TextsJudged DEF PlainOk
<1>2. (t <=> s) /\ (q <=> d /\ p)
  OBVIOUS
<1> HIDE DEF T, D, Q, s, d, p
<1>3. /\ T \in G /\ (s => T \in Good) /\ (~s => T \in Bad)
      /\ D \in G /\ (d => D \in Good) /\ (~d => D \in Bad)
      /\ Q \in G /\ (p => Q \in Good) /\ (~p => Q \in Bad)
  BY <1>1, AsWorse
<1> HIDE DEF G
<1>4. values \in Seq(G) /\ strings \in Seq(G)
  BY <1>1, <1>3
<1>5. (T \in Good => values \in Seq(Good))
      /\ (D \in Good /\ Q \in Good => strings \in Seq(Good))
  BY <1>1
<1>6. Len(values) = 3 /\ values[1] = T /\ Len(strings) = 2 /\ strings[1] = D /\ strings[2] = Q
  OBVIOUS
<1> HIDE DEF values, strings
<1>7. 1 \in 1 .. 3 /\ 1 \in 1 .. 2 /\ 2 \in 1 .. 2
  OBVIOUS
<1>8. AllJudged(values, t)
  <2>1. t => values \in Seq(Good)
    BY <1>2, <1>3, <1>5
  <2>2. ~t => \E k \in 1 .. Len(values) : values[k] \in Bad
    BY <1>2, <1>3, <1>6, <1>7
  <2> QED
    BY <2>1, <2>2, <1>4, TupleJudged DEF G
<1>9. AllJudged(strings, q)
  <2>1. q => strings \in Seq(Good)
    BY <1>2, <1>3, <1>5
  <2>2. ~q => \E k \in 1 .. Len(strings) : strings[k] \in Bad
    BY <1>2, <1>3, <1>6, <1>7
  <2> QED
    BY <2>1, <2>2, <1>4, TupleJudged DEF G
<1> QED
  BY <1>8, <1>9 DEF values, strings, T, D, Q

(* The groups.                                                              *)
LEMMA GroupsJudged ==
  ASSUME NEW m \in Message, Sized(m), m.template = "SecurityDefinition",
         NEW ok \in BOOLEAN, ok <=> \A g \in 1 .. 5 : GroupOk(m, g)
  PROVE  AllJudged([g \in 1 .. 5 |-> Group(m, g)], ok)
<1> DEFINE group(g) == Group(m, g)
           values == [g \in 1 .. 5 |-> group(g)]
           G == Good \cup Bad
<1>1. \A g \in 1 .. 5 : /\ group(g) \in G
                        /\ GroupOk(m, g) => group(g) \in Good
                        /\ ~GroupOk(m, g) => group(g) \in Bad
  BY GroupJudged, AsWorse
<1> HIDE DEF group, G
<1>2. values \in Seq(G) /\ Len(values) = 5 /\ \A g \in 1 .. 5 : values[g] = group(g)
  BY <1>1
<1>3. ok => values \in Seq(Good)
  BY <1>1
<1>4. ~ok => \E k \in 1 .. 5 : values[k] \in Bad
  BY <1>1, <1>2
<1> HIDE DEF values
<1>5. AllJudged(values, ok)
  BY <1>2, <1>3, <1>4, TupleJudged DEF G
<1> QED
  BY <1>5 DEF values, group

(* A SecurityDefinition is a value exactly where NotJson says so: its parts*)
(* are judged in the order they are written.                               *)
LEMMA DefinitionJudged ==
  ASSUME NEW m \in Message, Sized(m), m.template = "SecurityDefinition",
         NEW ok \in BOOLEAN, ok <=> ~NotJson(m)
  PROVE  SecurityDefinition(m) \in As(ok)
<1> DEFINE D == DecimalNULL(m)
           R == DoubleNULL(m)
           p1 == <<Str, Num, Text(m), Num, Num, CString(m, SecurityAltID), Str,
                   CString(m, SecurityType), WholeArray(m, CFICode), D, Num,
                   Str, Text(m), Str, Str, Str, Num>>
           p2 == Repeat(D, 11)
           p3 == <<CString(m, UnderlyingCurrency), Num, Num, FlagsSet(m), D, D,
                   CString(m, ValuationMethod)>>
           p4 == Repeat(R, 3)
           p5 == <<Text(m), Str, Num>>
           p6 == Repeat(R, 5)
           p7 == <<D>>
           p8 == [g \in 1 .. 5 |-> Group(m, g)]
           p9 == <<Description(m), Quotation(m)>>
           head == /\ PlainOk(m)
                   /\ TextOk(m, SecurityAltID) /\ TextOk(m, SecurityType)
                   /\ m.fill[CFICode] = "full"
           middle == TextOk(m, UnderlyingCurrency) /\ TextOk(m, ValuationMethod)
           rates == m.rate # "inf"
           texts == PlainOk(m)
           groups == \A g \in 1 .. 5 : GroupOk(m, g)
           strings == (m.desc => m.harmless) /\ (m.quotation => PlainOk(m))
<1>0. /\ head \in BOOLEAN /\ middle \in BOOLEAN /\ rates \in BOOLEAN /\ texts \in BOOLEAN
      /\ groups \in BOOLEAN /\ strings \in BOOLEAN
  BY DEF PlainOk
<1>1. AllJudged(p1, head)
  <2> DEFINE b == head
  <2>1. b \in BOOLEAN /\ (b <=> head)
    OBVIOUS
  <2> HIDE DEF b
  <2>2. AllJudged(p1, b)
    BY <2>1, DefinitionHeadJudged
  <2> QED
    BY <2>2 DEF b
<1>3. AllJudged(p3, middle)
  <2> DEFINE b == middle
  <2>1. b \in BOOLEAN /\ (b <=> middle)
    OBVIOUS
  <2> HIDE DEF b
  <2>2. AllJudged(p3, b)
    BY <2>1, DefinitionMiddleJudged
  <2> QED
    BY <2>2 DEF b
<1>5. AllJudged(p5, texts) /\ AllJudged(p9, strings)
  <2> DEFINE t == texts
             q == strings
  <2>1. /\ t \in BOOLEAN /\ (t <=> PlainOk(m))
        /\ q \in BOOLEAN /\ (q <=> (m.desc => m.harmless) /\ (m.quotation => PlainOk(m)))
    BY DEF PlainOk
  <2> HIDE DEF t, q
  <2>2. AllJudged(p5, t) /\ AllJudged(p9, q)
    BY <2>1, DefinitionTextsJudged
  <2> QED
    BY <2>2 DEF t, q
<1>8. AllJudged(p8, groups)
  <2> DEFINE b == groups
  <2>1. b \in BOOLEAN /\ (b <=> \A g \in 1 .. 5 : GroupOk(m, g))
    OBVIOUS
  <2> HIDE DEF b
  <2>2. AllJudged(p8, b)
    BY <2>1, GroupsJudged
  <2> QED
    BY <2>2 DEF b
<1>9. D \in Good /\ R \in As(rates)
  BY NumbersGood
<1>10. ok <=> /\ head /\ middle /\ rates /\ texts /\ groups /\ strings
  <2>1. (\A g \in 1 .. 5 : GroupOk(m, g)) <=>
          m.harmless \/ \A g \in 1 .. 4 :
            m.counts[g] = 0 \/ (m.counts[g] <= m.entries[g] /\ EntryOk(m, g))
    <3>1. \A g \in 1 .. 4 : g \in 1 .. 5 /\ g # 5
      OBVIOUS
    <3>2. \A g \in 1 .. 5 : g = 5 \/ g \in 1 .. 4
      OBVIOUS
    <3> QED
      BY <3>1, <3>2 DEF GroupOk
  <2>2. \A g \in 1 .. 4 :
          ~(m.counts[g] > m.entries[g] \/ (m.counts[g] > 0 /\ g \in m.runsOn))
            <=> (m.counts[g] = 0 \/ (m.counts[g] <= m.entries[g] /\ g \notin m.runsOn))
    <3>1. /\ m.counts \in Seq(Nat) /\ Len(m.counts) = 5
          /\ m.entries \in Seq(Nat) /\ Len(m.entries) = 5
      BY DEF Message, Sized
    <3>2. \A g \in 1 .. 4 : m.counts[g] \in Nat /\ m.entries[g] \in Nat
      BY <3>1
    <3> QED
      BY <3>2
  <2>3. m.rate \in {"number", "nan", "inf"} /\ m.special \in BOOLEAN
        /\ m.desc \in BOOLEAN /\ m.harmless \in BOOLEAN
    BY DEF Message
  <2>4. NotJson(m) <=>
          m.rate = "inf" \/ m.fill[CFICode] # "full" \/ (Unchecked(m) /\ ~m.harmless)
    BY DEF NotJson
  <2>5. Unchecked(m) <=>
          \/ m.special \/ m.desc
          \/ ~(CStringFields(m, SecurityAltID) \subseteq TextFields)
          \/ ~(CStringFields(m, SecurityType) \subseteq TextFields)
          \/ ~(CStringFields(m, UnderlyingCurrency) \subseteq TextFields)
          \/ ~(CStringFields(m, ValuationMethod) \subseteq TextFields)
          \/ \E g \in 1 .. 4 :
               m.counts[g] > m.entries[g] \/ (m.counts[g] > 0 /\ g \in m.runsOn)
    BY DEF Unchecked
  <2>6. CASE m.harmless
    <3>1. \A f : TextOk(m, f)
      BY <2>6 DEF TextOk, PlainOk
    <3>2. ok <=> m.rate # "inf" /\ m.fill[CFICode] = "full"
      BY <2>4, <2>6
    <3> QED
      BY <2>1, <2>6, <3>1, <3>2 DEF PlainOk
  <2>7. CASE ~m.harmless
    <3>1. \A g : EntryOk(m, g) <=> ~m.special /\ g \notin m.runsOn
      BY <2>7 DEF EntryOk, PlainOk
    <3>2. ~m.special => (groups <=> \A g \in 1 .. 4 :
            ~(m.counts[g] > m.entries[g] \/ (m.counts[g] > 0 /\ g \in m.runsOn)))
      BY <2>1, <2>2, <2>7, <3>1
    <3> HIDE DEF groups
    <3> QED
      BY <2>3, <2>4, <2>5, <2>7, <3>2 DEF TextOk, PlainOk
  <2> QED
    BY <2>6, <2>7
<1>11. SecurityDefinition(m) =
         Object(p1 \o p2 \o p3 \o p4 \o p5 \o p6 \o p7 \o p8 \o p9)
  BY DEF SecurityDefinition
<1> HIDE DEF D, R, p1, p3, p5, p8, p9, head, middle, rates, texts, groups, strings
<1>12. AllJudged(p2, TRUE) /\ AllJudged(p7, TRUE)
  <2>1. \A n \in Nat : AllJudged(Repeat(D, n), TRUE)
    BY <1>9, RepeatJudged DEF Good
  <2>2. Repeat(D, 1) = <<D>>
    <3>1. /\ Repeat(D, 1) \in Seq(Good) /\ Len(Repeat(D, 1)) = 1
          /\ \A k \in 1 .. 1 : Repeat(D, 1)[k] = D
      BY <1>9 DEF Repeat
    <3> QED
      BY <3>1
  <2> QED
    BY <2>1, <2>2
<1>13. AllJudged(p4, rates) /\ AllJudged(p6, rates)
  <2>1. Judged(R, rates)
    BY <1>0, <1>9, AsJudged
  <2>2. \A n \in Nat : n # 0 => AllJudged(Repeat(R, n), rates)
    BY <1>0, <2>1, RepeatJudged
  <2> QED
    BY <2>2
<1> HIDE DEF p2, p4, p6, p7
<1> DEFINE o3 == head /\ middle
           o4 == o3 /\ rates
           o5 == o4 /\ texts
           o6 == o5 /\ rates
           o8 == o6 /\ groups
<1>14. o3 \in BOOLEAN /\ o4 \in BOOLEAN /\ o5 \in BOOLEAN /\ o6 \in BOOLEAN /\ o8 \in BOOLEAN
       /\ (o3 <=> head /\ middle) /\ (o4 <=> o3 /\ rates) /\ (o5 <=> o4 /\ texts)
       /\ (o6 <=> o5 /\ rates) /\ (o8 <=> o6 /\ groups) /\ (ok <=> o8 /\ strings)
  BY <1>10
<1> HIDE DEF o3, o4, o5, o6, o8
<1>15. AllJudged(p1 \o p2, head)
  BY <1>0, <1>1, <1>12, ConcatJudged
<1>16. AllJudged(p1 \o p2 \o p3, o3)
  BY <1>0, <1>3, <1>14, <1>15, ConcatJudged
<1>17. AllJudged(p1 \o p2 \o p3 \o p4, o4)
  BY <1>0, <1>13, <1>14, <1>16, ConcatJudged
<1>18. AllJudged(p1 \o p2 \o p3 \o p4 \o p5, o5)
  BY <1>0, <1>5, <1>14, <1>17, ConcatJudged
<1>19. AllJudged(p1 \o p2 \o p3 \o p4 \o p5 \o p6, o6)
  BY <1>0, <1>13, <1>14, <1>18, ConcatJudged
<1>20. AllJudged(p1 \o p2 \o p3 \o p4 \o p5 \o p6 \o p7, o6)
  BY <1>12, <1>14, <1>19, ConcatJudged
<1>21. AllJudged(p1 \o p2 \o p3 \o p4 \o p5 \o p6 \o p7 \o p8, o8)
  BY <1>0, <1>8, <1>14, <1>20, ConcatJudged
<1>22. AllJudged(p1 \o p2 \o p3 \o p4 \o p5 \o p6 \o p7 \o p8 \o p9, ok)
  BY <1>0, <1>5, <1>14, <1>21, ConcatJudged
<1>23. Judged(SecurityDefinition(m), ok)
  BY <1>11, <1>22, ObjectJudged
<1> QED
  BY <1>23, AsJudged

(* Every message renders as a JSON value, unless NotJson says it cannot.    *)
LEMMA RenderedJudged ==
  ASSUME NEW m \in Message, Sized(m), NEW ok \in BOOLEAN, ok <=> ~NotJson(m)
  PROVE  Rendered(m) \in As(ok)
<1>0. \A b, c \in BOOLEAN : (b <=> c) => As(b) = As(c)
  BY DEF As
<1>1. CASE m.template = "OrderUpdate"
  <2>1. Rendered(m) = OrderUpdate(m)
    BY <1>1 DEF Rendered
  <2>2. ok <=> m.action = "known"
    BY <1>1 DEF NotJson, Message
  <2> QED
    BY <2>1, <2>2, <1>0, OrdersJudged
<1>2. CASE m.template = "OrderExecution"
  <2>1. Rendered(m) = OrderExecution(m)
    BY <1>2 DEF Rendered
  <2>2. ok <=> m.action = "known"
    BY <1>2 DEF NotJson, Message
  <2> QED
    BY <2>1, <2>2, <1>0, OrdersJudged
<1>3. CASE m.template = "OrderBookSnapshot"
  <2>1. Rendered(m) = OrderBookSnapshot(m)
    BY <1>3 DEF Rendered
  <2>2. ok
    BY <1>3 DEF NotJson
  <2> QED
    BY <2>1, <2>2, <1>3, SnapshotGood DEF As
<1>4. CASE m.template = "SecurityDefinition"
  <2>1. Rendered(m) = SecurityDefinition(m)
    BY <1>4 DEF Rendered
  <2> QED
    BY <2>1, <1>4, DefinitionJudged
<1>5. CASE m.template = "SequenceReset"
  <2>1. Rendered(m) = SequenceReset
    BY <1>5 DEF Rendered
  <2>2. ok
    BY <1>5 DEF NotJson
  <2> QED
    BY <2>1, <2>2, HeadersGood DEF As
<1>6. CASE m.template = "SecurityStatus"
  <2>1. Rendered(m) = SecurityStatus(m)
    BY <1>6 DEF Rendered
  <2>2. ~ok
    BY <1>6 DEF NotJson
  <2> QED
    BY <2>1, <2>2, StatusBad DEF As
<1>7. CASE m.template = "SecurityDefinitionUpdateReport"
  <2>1. Rendered(m) = SecurityDefinitionUpdateReport(m)
    BY <1>7 DEF Rendered
  <2>2. ok
    BY <1>7 DEF NotJson
  <2> QED
    BY <2>1, <2>2, ReportGood DEF As
<1>8. CASE m.template = "TradingSessionStatus"
  <2>1. Rendered(m) = TradingSessionStatus(m)
    BY <1>8 DEF Rendered
  <2>2. ok <=> m.segment = "printable"
    BY <1>8 DEF NotJson, Message
  <2> QED
    BY <2>1, <2>2, <1>0, SessionJudged
<1>9. m.template \in {"OrderUpdate", "OrderExecution", "OrderBookSnapshot", "SecurityDefinition",
                     "SequenceReset", "SecurityStatus", "SecurityDefinitionUpdateReport",
                     "TradingSessionStatus"}
  <2>1. FixedTemplates = {"OrderUpdate", "OrderExecution", "SecurityDefinitionUpdateReport",
                          "SecurityStatus", "SequenceReset", "TradingSessionStatus"}
    BY DEF FixedTemplates, StructSize
  <2>2. m.template \in KnownTemplates
    BY DEF Message
  <2> QED
    BY <2>1, <2>2 DEF KnownTemplates
<1> QED
  BY <1>1, <1>2, <1>3, <1>4, <1>5, <1>6, <1>7, <1>8, <1>9

(***************************************************************************)
(* The packet: the headers, then the array.                                 *)
(***************************************************************************)

(* The state of the automaton moves on with the text.                       *)
LEMMA ParsedMore ==
  ASSUME NEW a \in Seq(Tokens), NEW b \in Seq(Tokens), NEW t, Reads(Parsed(a), b, t)
  PROVE  Parsed(a) \in States /\ Parsed(a \o b) = t
<1>1. Start \in States /\ Reads(Start, a, Parsed(a))
  BY ParsedReads
<1>2. Reads(Start, a \o b, t)
  BY <1>1, ReadsConcat
<1>3. a \o b \in Seq(Tokens)
  OBVIOUS
<1>4. Reads(Start, a \o b, Parsed(a \o b))
  BY <1>3, ParsedReads
<1> QED
  BY <1>1, <1>2, <1>3, <1>4, ReadsOne

(* No text, and one token more.                                             *)
LEMMA ParsedToken ==
  /\ Parsed(<<>>) = Start /\ Start \in States
  /\ \A a \in Seq(Tokens), token \in Tokens :
       Parsed(a) \in States /\ Parsed(a \o <<token>>) = Read(Parsed(a), token)
<1>1. Start \in States /\ Parsed(<<>>) = Start
  <2>1. <<>> \in Seq(Tokens)
    OBVIOUS
  <2>2. Start \in States /\ Reads(Start, <<>>, Parsed(<<>>))
    BY <2>1, ParsedReads
  <2> QED
    BY <2>1, <2>2, ReadsNothing, ReadsOne
<1>2. ASSUME NEW a \in Seq(Tokens), NEW token \in Tokens
      PROVE  Parsed(a) \in States /\ Parsed(a \o <<token>>) = Read(Parsed(a), token)
  <2>1. <<token>> \in Seq(Tokens)
    BY TokenTexts DEF Texts
  <2>2. Parsed(a) \in States
    BY ParsedReads, ReadsOne
  <2>3. Reads(Parsed(a), <<token>>, Read(Parsed(a), token))
    BY <2>2, ReadsToken
  <2> QED
    BY <2>1, <2>2, <2>3, ParsedMore
<1> QED
  BY <1>1, <1>2

(* One value more.                                                          *)
LEMMA ParsedValue ==
  ASSUME NEW a \in Seq(Tokens), NEW text \in Good, Parsed(a).next \in ValueStarts
  PROVE  ValueRead(Parsed(a), Parsed(a \o text))
<1>1. Parsed(a) \in States
  BY ParsedReads, ReadsOne
<1>2. text \in Seq(Tokens) /\ Fits(text, ValueStarts)
  BY DEF Good, Judged, JudgedFrom, Texts
<1>3. PICK t \in States : Reads(Parsed(a), text, t) /\ ValueRead(Parsed(a), t)
  BY <1>1, <1>2 DEF Fits
<1> QED
  BY <1>2, <1>3, ParsedMore

(* Nothing mends an error.                                                  *)
LEMMA ParsedError ==
  ASSUME NEW a \in Seq(Tokens), NEW b \in Seq(Tokens), Parsed(a).next = "error"
  PROVE  Parsed(a \o b).next = "error"
<1>1. Parsed(a) \in States
  BY ParsedReads, ReadsOne
<1>2. Reads(Parsed(a), b, Parsed(a))
  BY <1>1, ErrorStays
<1> QED
  BY <1>2, ParsedMore

(* Between two values outside all brackets, n of them done.                 *)
Between(t, n) == t.open = <<>> /\ t.next = "value" /\ t.outer = n /\ t.inner = 0

(* One header more, and the comma behind it.                                *)
LEMMA HeaderMore ==
  ASSUME NEW a \in Texts, NEW n \in Nat, NEW text \in Good, Between(Parsed(a), n)
  PROVE  a \o text \o <<",">> \in Texts /\ Between(Parsed(a \o text \o <<",">>), n + 1)
<1> DEFINE s == Parsed(a)
           t == Parsed(a \o text)
           u == Parsed(a \o text \o <<",">>)
<1>1. text \in Texts /\ a \o text \in Texts /\ "," \in Tokens /\ <<",">> \in Texts
  BY ScalarsGood, TokensKnown, TokenTexts
<1>2. a \o text \o <<",">> \in Texts
  BY <1>1, TokenTexts
<1>3. ValueRead(s, t) /\ s.open = <<>> /\ s.outer = n
  <2>1. a \in Seq(Tokens) /\ Parsed(a).next \in ValueStarts
    BY DEF Between, ValueStarts, Texts
  <2> QED
    BY <2>1, ParsedValue DEF Between
<1>4. t.open = <<>> /\ t.next = "after" /\ t.outer = n + 1
  BY <1>3 DEF ValueRead
<1>5. t \in States /\ u = Read(t, ",")
  BY <1>1, ParsedToken DEF Texts
<1> HIDE DEF s, t, u
<1>6. u = [t EXCEPT !.next = "value", !.inner = 0]
  BY <1>4, <1>5, ReadsComma
<1>7. u.open = <<>> /\ u.next = "value" /\ u.outer = n + 1 /\ u.inner = 0
  BY <1>4, <1>5, <1>6 DEF States
<1> QED
  BY <1>2, <1>7 DEF Between, u

(* The headers of a packet: two or three values, and the next begun.        *)
LEMMA HeadersRead ==
  ASSUME NEW incremental \in BOOLEAN
  PROVE  /\ Headers(incremental) \in Texts
         /\ Between(Parsed(Headers(incremental)), IF incremental THEN 3 ELSE 2)
<1> DEFINE M == MarketDataPacketHeader
           I == IncrementalPacketHeader
           H == MessageHeader
           C == <<",">>
           a == <<>> \o M \o C
           b == a \o I \o C
<1>1. M \in Good /\ I \in Good /\ H \in Good
  BY HeadersGood
<1>2. /\ M \in Texts /\ I \in Texts /\ H \in Texts /\ C \in Texts /\ <<>> \in Texts
      /\ <<>> \o M = M
  <2>1. Good \subseteq Texts /\ "," \in Tokens
    BY ScalarsGood, TokensKnown
  <2>2. M \in Texts /\ I \in Texts /\ H \in Texts /\ C \in Texts
    BY <1>1, <2>1, TokenTexts
  <2>3. <<>> \in Texts /\ <<>> \o M = M
    <3> HIDE DEF M
    <3>1. \A text \in Texts : <<>> \in Texts /\ <<>> \o text = text
      BY ConcatEmptySeq DEF Texts
    <3> QED
      BY <2>2, <3>1
  <2> QED
    BY <2>2, <2>3
<1>3. Between(Parsed(<<>>), 0)
  BY ParsedToken DEF Between, Start
<1> HIDE DEF M, I, H, C, Texts
<1>4. a \in Texts /\ Between(Parsed(a), 1)
  <2>1. 0 \in Nat /\ 0 + 1 = 1
    OBVIOUS
  <2>2. <<>> \o M \o C \in Texts /\ Between(Parsed(<<>> \o M \o C), 0 + 1)
    BY <2>1, <1>1, <1>2, <1>3, HeaderMore DEF C
  <2> QED
    BY <2>1, <2>2
<1>5. M \o C = a
  BY <1>2
<1> HIDE DEF a
<1>6. b \in Texts /\ Between(Parsed(b), 2)
  <2>1. 1 \in Nat /\ 1 + 1 = 2
    OBVIOUS
  <2>2. a \o I \o C \in Texts /\ Between(Parsed(a \o I \o C), 1 + 1)
    BY <2>1, <1>1, <1>4, HeaderMore DEF C
  <2> QED
    BY <2>1, <2>2
<1>7. CASE incremental
  <2>1. Headers(TRUE) = a \o (I \o C) \o H \o C
    BY <1>5 DEF Headers, M, I, H, C
  <2>2. a \o (I \o C) = b
    BY <1>2, <1>4, TokenTexts
  <2>3. 2 \in Nat /\ 2 + 1 = 3
    OBVIOUS
  <2> HIDE DEF b
  <2>4. b \o H \o C \in Texts /\ Between(Parsed(b \o H \o C), 2 + 1)
    BY <2>3, <1>1, <1>6, HeaderMore DEF C
  <2>5. Headers(TRUE) = b \o H \o C
    BY <2>1, <2>2
  <2> QED
    BY <2>3, <2>4, <2>5, <1>7
<1>8. CASE ~incremental
  <2>1. Headers(FALSE) = a \o <<>> \o H \o C
    BY <1>5 DEF Headers, M, H, C
  <2>2. a \o <<>> = a
    BY <1>4, ConcatEmptySeq DEF Texts
  <2>3. 1 \in Nat /\ 1 + 1 = 2
    OBVIOUS
  <2>4. a \o H \o C \in Texts /\ Between(Parsed(a \o H \o C), 1 + 1)
    BY <2>3, <1>1, <1>4, HeaderMore DEF C
  <2>5. Headers(FALSE) = a \o H \o C
    BY <2>1, <2>2
  <2> QED
    BY <2>3, <2>4, <2>5, <1>8
<1> QED
  BY <1>7, <1>8

(***************************************************************************)
(* The inductive invariant: where the text written so far has led the       *)
(* automaton.  JsonExactlyUnless says it of a finished text only.           *)
(***************************************************************************)
Count == Len(packet.messages)

HeaderValues == IF packet.incremental THEN 3 ELSE 2

(* None of the first n messages holds a value with no JSON form.            *)
Fine(n) == \A k \in 1 .. n : ~NotJson(packet.messages[k])

(* In the array, behind message i - 1 and the comma it may have.            *)
InArray(t) ==
  /\ t.open = <<"[">> /\ t.outer = HeaderValues /\ t.inner = i - 1
  /\ t.next = IF i = 1 THEN "element" ELSE IF i <= Count THEN "value" ELSE "after"

Finished(t) ==
  /\ t.open = <<>> /\ t.next = "after"
  /\ t.outer = HeaderValues + 1 /\ t.inner = Count

Written ==
  /\ pc = "headers" => i = 1 /\ out = <<>>
  /\ pc = "messages" =>
       IF Fine(i - 1) THEN InArray(Parsed(out)) ELSE Parsed(out).next = "error"
  /\ pc = "done" =>
       /\ i = Count + 1
       /\ IF Fine(Count) THEN Finished(Parsed(out)) ELSE Parsed(out).next = "error"

RenderInv == TypeOK /\ Written

(* One message more, and its comma unless it is the last.                   *)
LEMMA ElementRead ==
  ASSUME NEW a \in Texts, NEW ok \in BOOLEAN, NEW text \in As(ok), NEW comma \in BOOLEAN,
         Parsed(a).next \in ValueStarts, Parsed(a).open = <<"[">>
  PROVE  LET s == Parsed(a)
             t == Parsed(a \o text \o (IF comma THEN <<",">> ELSE <<>>))
         IN  IF ok
             THEN /\ t.open = <<"[">> /\ t.outer = s.outer /\ t.inner = s.inner + 1
                  /\ t.next = IF comma THEN "value" ELSE "after"
             ELSE t.next = "error"
<1> DEFINE s == Parsed(a)
           t == Parsed(a \o text)
           rest == IF comma THEN <<",">> ELSE <<>>
           u == Parsed(a \o text \o rest)
<1>1. /\ text \in Texts /\ a \o text \in Texts /\ <<",">> \in Texts /\ "," \in Tokens
      /\ \A x \in Texts : x \o <<>> = x
  <2>1. text \in Texts
    BY ScalarsGood DEF As
  <2>2. "," \in Tokens
    BY TokensKnown
  <2>3. \A x \in Texts : x \o <<>> = x
    BY ConcatEmptySeq DEF Texts
  <2> QED
    BY <2>1, <2>2, <2>3, TokenTexts
<1>2. CASE ok
  <2>1. ValueRead(s, t)
    BY <1>2, ParsedValue DEF As, Texts
  <2>2. Len(<<"[">>) = 1 /\ <<"[">> # <<>> /\ Last(<<"[">>) = "["
    BY DEF Last
  <2>3. t.open = <<"[">> /\ t.next = "after" /\ t.outer = s.outer /\ t.inner = s.inner + 1
    BY <2>1, <2>2 DEF ValueRead
  <2>4. t \in States
    BY <1>1, ParsedToken DEF Texts
  <2>5. CASE comma
    <3>1. u = Read(t, ",")
      BY <1>1, <2>5, ParsedToken DEF Texts
    <3> HIDE DEF s, t, u
    <3>2. u = [t EXCEPT !.next = Continued(t)]
      BY <2>2, <2>3, <2>4, <3>1, ReadsComma
    <3>3. Continued(t) = "value"
      BY <2>2, <2>3 DEF Continued
    <3>4. /\ u.open = <<"[">> /\ u.outer = s.outer /\ u.inner = s.inner + 1
          /\ u.next = "value"
      BY <2>3, <2>4, <3>2, <3>3 DEF States
    <3> QED
      BY <3>4, <1>2, <2>5 DEF s, u
  <2>6. CASE ~comma
    <3>1. u = t
      BY <1>1, <2>6
    <3> HIDE DEF s, t, u
    <3> QED
      BY <1>2, <2>3, <2>6, <3>1 DEF s, u
  <2> QED
    BY <2>5, <2>6
<1>3. CASE ~ok
  <2>1. t.next = "error"
    <3>1. s \in States
      BY <1>1, ParsedToken DEF Texts
    <3>2. Fails(text, ValueStarts)
      BY <1>3 DEF As, Bad, Judged, JudgedFrom
    <3>3. PICK e \in States : Reads(s, text, e) /\ e.next = "error"
      BY <3>1, <3>2 DEF Fails
    <3> QED
      BY <1>1, <3>3, ParsedMore DEF Texts
  <2>2. rest \in Seq(Tokens)
    <3>1. <<>> \in Seq(Tokens)
      OBVIOUS
    <3>2. <<",">> \in Seq(Tokens)
      BY <1>1 DEF Texts
    <3> QED
      BY <3>1, <3>2
  <2>3. u.next = "error"
    <3> HIDE DEF rest
    <3> QED
      BY <1>1, <2>1, <2>2, ParsedError DEF Texts
  <2> QED
    BY <1>3, <2>3
<1> QED
  BY <1>2, <1>3

(* What the assumptions say of a packet.                                    *)
LEMMA PacketFacts ==
  ASSUME TypeOK
  PROVE  /\ packet.incremental \in BOOLEAN /\ packet.messages \in Seq(Message)
         /\ Count \in Nat /\ i \in Nat /\ 1 <= i /\ i <= Count + 1
         /\ \A k \in 1 .. Count : packet.messages[k] \in Message /\ Sized(packet.messages[k])
<1>1. packet \in Packets /\ i \in 1 .. Count + 1
  BY DEF TypeOK, Count
<1>2. packet \in [incremental : BOOLEAN, messages : Seq(Message)]
  BY <1>1, PacketsAssumption
<1>3. packet.incremental \in BOOLEAN /\ packet.messages \in Seq(Message)
  BY <1>2
<1>4. Count \in Nat /\ DOMAIN packet.messages = 1 .. Count
  BY <1>3 DEF Count
<1>5. \A k \in 1 .. Count : packet.messages[k] \in Message
  BY <1>3 DEF Count
<1>6. \A k \in 1 .. Count : Sized(packet.messages[k])
  BY <1>1, <1>4, PacketsAssumption DEF Sized
<1> QED
  BY <1>1, <1>3, <1>4, <1>5, <1>6

(* One message more is fine if those before it are and it is.               *)
LEMMA FineMore ==
  ASSUME TypeOK, i <= Count
  PROVE  /\ Fine(i - 1) \in BOOLEAN
         /\ Fine(i) <=> Fine(i - 1) /\ ~NotJson(packet.messages[i])
<1>1. i \in Nat /\ 1 <= i
  BY PacketFacts
<1>2. 1 .. i = (1 .. i - 1) \cup {i}
  BY <1>1
<1> QED
  BY <1>2 DEF Fine

(* No packet is begun with anything written.                                *)
LEMMA InitRendering ==
  ASSUME Init
  PROVE  RenderInv
<1>1. packet \in Packets /\ pc = "headers" /\ i = 1 /\ out = <<>>
  BY DEF Init
<1>2. Len(packet.messages) \in Nat
  BY <1>1, PacketsAssumption
<1>3. TypeOK
  <2>1. 1 \in 1 .. Len(packet.messages) + 1
    BY <1>2
  <2>2. out \in Seq(Tokens)
    BY <1>1
  <2> QED
    BY <1>1, <2>1, <2>2 DEF TypeOK
<1>4. Written
  BY <1>1 DEF Written
<1> QED
  BY <1>3, <1>4 DEF RenderInv

(* The headers, and the bracket that opens the array.                       *)
LEMMA HeadersStep ==
  ASSUME RenderInv, RenderHeaders
  PROVE  RenderInv'
<1>1. /\ pc' = "messages" /\ packet' = packet /\ i' = i /\ i = 1
      /\ out' = Headers(packet.incremental) \o <<"[">>
  BY DEF RenderHeaders, RenderInv, Written
<1>2. TypeOK
  BY DEF RenderInv
<1>3. packet.incremental \in BOOLEAN
  BY <1>2, PacketFacts
<1> DEFINE h == Headers(packet.incremental)
           s == Parsed(h)
           t == Parsed(h \o <<"[">>)
<1>4. h \in Texts /\ Between(s, HeaderValues)
  BY <1>3, HeadersRead DEF HeaderValues
<1>5. "[" \in Tokens /\ <<"[">> \in Texts /\ h \o <<"[">> \in Texts
  BY <1>4, TokensKnown, TokenTexts
<1>6. s \in States /\ t = Read(s, "[")
  BY <1>4, <1>5, ParsedToken DEF Texts
<1> HIDE DEF h, s, t
<1>7. s.next = "value" /\ s.open = <<>> /\ s.outer = HeaderValues /\ s.inner = 0
  BY <1>4 DEF Between
<1>8. t = [s EXCEPT !.open = Append(@, "["), !.next = "element"]
  BY <1>6, <1>7, ReadsOpening DEF AtValue
<1>9. t.open = <<"[">> /\ t.next = "element" /\ t.outer = HeaderValues /\ t.inner = 0
  <2>1. Append(<<>>, "[") = <<"[">>
    OBVIOUS
  <2>2. /\ t.open = Append(s.open, "[") /\ t.next = "element"
        /\ t.outer = s.outer /\ t.inner = s.inner
    BY <1>6, <1>8 DEF States
  <2> QED
    BY <1>7, <2>1, <2>2
<1>10. TypeOK'
  <2>1. out' \in Seq(Tokens)
    BY <1>1, <1>5 DEF Texts, h
  <2>2. packet' \in Packets /\ i' \in 1 .. Len(packet'.messages) + 1
    BY <1>1, <1>2 DEF TypeOK
  <2> QED
    BY <1>1, <2>1, <2>2 DEF TypeOK
<1>11. Fine(0)' /\ Parsed(out)' = t /\ HeaderValues' = HeaderValues
  <2>1. \A k : k \notin 1 .. 0
    OBVIOUS
  <2>2. Parsed(out)' = Parsed(out')
    OBVIOUS
  <2> QED
    BY <1>1, <2>1 DEF Fine, HeaderValues, t, h
<1>12. InArray(Parsed(out))'
  BY <1>1, <1>9, <1>11 DEF InArray
<1>13. Written'
  <2>1. i' - 1 = 0
    BY <1>1
  <2>2. Fine(i - 1)'
    BY <1>11, <2>1
  <2> QED
    BY <1>1, <1>12, <2>2 DEF Written
<1> QED
  BY <1>10, <1>13 DEF RenderInv

(* A message leaves the automaton in the array, or in error for good.       *)
LEMMA MessageStep ==
  ASSUME RenderInv, RenderMessage
  PROVE  RenderInv'
<1> DEFINE m == packet.messages[i]
           ok == ~NotJson(m)
           comma == i # Count
           text == Rendered(m)
           rest == IF comma THEN <<",">> ELSE <<>>
           s == Parsed(out)
           t == Parsed(out \o text \o rest)
<1>1. /\ pc = "messages" /\ pc' = "messages" /\ packet' = packet
      /\ i <= Count /\ i' = i + 1 /\ out' = out \o text \o rest
  BY DEF RenderMessage, Count
<1>0. i <= Count /\ i' = i + 1 /\ packet' = packet
  BY DEF RenderMessage, Count
<1>2. /\ TypeOK /\ out \in Texts
      /\ IF Fine(i - 1) THEN InArray(s) ELSE s.next = "error"
  BY <1>1 DEF RenderInv, Written, TypeOK, Texts
<1>3. /\ Count \in Nat /\ i \in Nat /\ 1 <= i /\ i <= Count + 1
      /\ m \in Message /\ Sized(m)
  <2>1. Count \in Nat /\ i \in Nat /\ 1 <= i /\ i <= Count + 1
    BY <1>2, PacketFacts
  <2>2. i \in 1 .. Count
    BY <1>0, <2>1
  <2> QED
    BY <1>2, <2>1, <2>2, PacketFacts
<1>4. ok \in BOOLEAN /\ comma \in BOOLEAN /\ (ok <=> ~NotJson(m)) /\ text \in As(ok)
  <2>1. ok \in BOOLEAN /\ comma \in BOOLEAN /\ (ok <=> ~NotJson(m))
    OBVIOUS
  <2> HIDE DEF ok, comma, m
  <2> QED
    BY <1>3, <2>1, RenderedJudged
<1>5. text \in Texts /\ rest \in Texts /\ out \o text \in Texts /\ out \o text \o rest \in Texts
  <2>1. text \in Texts
    <3> HIDE DEF text, ok
    <3> QED
      BY <1>4, ScalarsGood DEF As
  <2>2. <<",">> \in Texts
    BY TokensKnown, TokenTexts
  <2>3. <<>> \in Texts
    BY DEF Texts
  <2>4. rest \in Texts
    BY <2>2, <2>3
  <2> HIDE DEF text, rest
  <2> QED
    BY <1>2, <2>1, <2>4, TokenTexts
<1>6. Fine(i - 1) \in BOOLEAN /\ (Fine(i) <=> Fine(i - 1) /\ ok)
  BY <1>1, <1>2, FineMore
<1>7. TypeOK'
  <2>1. out' \in Seq(Tokens)
    <3> HIDE DEF text, rest
    <3> QED
      BY <1>1, <1>5 DEF Texts
  <2>2. i' \in 1 .. Len(packet'.messages) + 1
    <3>1. Count \in Nat /\ i \in Nat /\ 1 <= i
      BY <1>3
    <3> QED
      BY <1>0, <3>1 DEF Count
  <2>3. packet' \in Packets
    BY <1>1, <1>2 DEF TypeOK
  <2> QED
    BY <1>1, <2>1, <2>2, <2>3 DEF TypeOK
<1>8. Parsed(out)' = t /\ (Fine(i - 1)' <=> Fine(i)) /\ HeaderValues' = HeaderValues
      /\ Count' = Count
  <2>1. i' - 1 = i
    <3>1. i \in Nat
      BY <1>3
    <3> QED
      BY <1>0, <3>1
  <2> QED
    BY <1>1, <2>1 DEF Fine, HeaderValues, Count
<1>9. CASE Fine(i - 1)
  <2>1. InArray(s)
    BY <1>2, <1>9
  <2>2. s.open = <<"[">> /\ s.outer = HeaderValues /\ s.inner = i - 1
        /\ s.next \in ValueStarts
    <3>1. s.next = IF i = 1 THEN "element" ELSE "value"
      BY <1>1, <2>1 DEF InArray
    <3> HIDE DEF s
    <3> QED
      BY <2>1, <3>1 DEF InArray, ValueStarts
  <2>3. IF ok
        THEN /\ t.open = <<"[">> /\ t.outer = s.outer /\ t.inner = s.inner + 1
             /\ t.next = IF comma THEN "value" ELSE "after"
        ELSE t.next = "error"
    <3> HIDE DEF text, ok, comma
    <3> QED
      BY <1>2, <1>4, <2>2, ElementRead
  <2>4. CASE ok
    <3> HIDE DEF s, t
    <3>1. /\ t.open = <<"[">> /\ t.outer = HeaderValues /\ t.inner = i' - 1
          /\ t.next = IF i' = 1 THEN "element" ELSE IF i' <= Count THEN "value" ELSE "after"
      <4>1. i' # 1 /\ (i' <= Count <=> i # Count) /\ (i - 1) + 1 = i' - 1
        <5>1. Count \in Nat /\ i \in Nat /\ 1 <= i
          BY <1>3
        <5> QED
          BY <1>0, <5>1
      <4> QED
        BY <2>2, <2>3, <2>4, <4>1
    <3>2. InArray(Parsed(out))'
      BY <1>8, <3>1 DEF InArray
    <3>3. Fine(i - 1)'
      BY <1>6, <1>8, <1>9, <2>4
    <3> QED
      BY <1>1, <1>7, <3>2, <3>3 DEF RenderInv, Written
  <2>5. CASE ~ok
    <3> HIDE DEF s, t
    <3>1. ~Fine(i - 1)' /\ (Parsed(out).next = "error")'
      BY <1>6, <1>8, <2>3, <2>5
    <3> QED
      BY <1>1, <1>7, <3>1 DEF RenderInv, Written
  <2> QED
    BY <2>4, <2>5
<1>10. CASE ~Fine(i - 1)
  <2>1. t.next = "error"
    <3>1. out \in Seq(Tokens) /\ text \in Seq(Tokens) /\ rest \in Seq(Tokens)
          /\ out \o text \in Seq(Tokens)
      BY <1>2, <1>5 DEF Texts
    <3> HIDE DEF text, rest
    <3>2. Parsed(out \o text).next = "error"
      BY <1>2, <1>10, <3>1, ParsedError
    <3> QED
      BY <3>1, <3>2, ParsedError
  <2> HIDE DEF s, t
  <2>2. ~Fine(i - 1)' /\ (Parsed(out).next = "error")'
    BY <1>6, <1>8, <1>10, <2>1
  <2> QED
    BY <1>1, <1>7, <2>2 DEF RenderInv, Written
<1> QED
  BY <1>9, <1>10

(* The bracket that closes the array ends the last value.                   *)
LEMMA CloseStep ==
  ASSUME RenderInv, CloseMessages
  PROVE  RenderInv'
<1> DEFINE s == Parsed(out)
           t == Parsed(out \o <<"]">>)
<1>1. /\ pc = "messages" /\ pc' = "done" /\ packet' = packet
      /\ i > Count /\ i' = i /\ out' = Append(out, "]")
  BY DEF CloseMessages, Count
<1>2. /\ TypeOK /\ out \in Texts
      /\ IF Fine(i - 1) THEN InArray(s) ELSE s.next = "error"
  BY <1>1 DEF RenderInv, Written, TypeOK, Texts
<1>3. Count \in Nat /\ i = Count + 1 /\ i - 1 = Count
  <2>1. Count \in Nat /\ i \in Nat /\ 1 <= i /\ i <= Count + 1
    BY <1>2, PacketFacts
  <2> QED
    BY <1>1, <2>1
<1>4. "]" \in Tokens /\ <<"]">> \in Texts /\ out \o <<"]">> \in Texts
  BY <1>2, TokensKnown, TokenTexts
<1>5. out' = out \o <<"]">>
  BY <1>1, <1>2, <1>4, AppendIsConcat DEF Texts
<1>6. s \in States /\ t = Read(s, "]")
  BY <1>2, <1>4, ParsedToken DEF Texts
<1>7. TypeOK'
  <2>1. out' \in Seq(Tokens)
    BY <1>4, <1>5 DEF Texts
  <2> QED
    BY <1>1, <1>2, <2>1 DEF TypeOK
<1>8. Parsed(out)' = t /\ (Fine(Count)' <=> Fine(Count)) /\ HeaderValues' = HeaderValues
      /\ Count' = Count
  BY <1>1, <1>5 DEF Fine, HeaderValues, Count
<1>9. CASE Fine(Count)
  <2>1. /\ s.open = <<"[">> /\ s.outer = HeaderValues /\ s.inner = Count
        /\ s.next \in {"after", "element"}
    BY <1>2, <1>3, <1>9 DEF InArray
  <2>2. <<"[">> = Append(<<>>, "[") /\ <<>> \in Seq(Brackets) /\ Len(<<>>) # 1
    OBVIOUS
  <2> HIDE DEF s, t
  <2>3. t = Completed(s, <<>>)
    BY <1>6, <2>1, <2>2, ReadsClosing
  <2>4. t.open = <<>> /\ t.next = "after" /\ t.outer = HeaderValues + 1 /\ t.inner = Count
    BY <2>1, <2>2, <2>3 DEF Completed
  <2>5. Finished(Parsed(out))' /\ Fine(Count)'
    BY <1>8, <1>9, <2>4 DEF Finished
  <2> QED
    BY <1>1, <1>3, <1>7, <1>8, <2>5 DEF RenderInv, Written
<1>10. CASE ~Fine(Count)
  <2>1. t.next = "error"
    <3>1. out \in Seq(Tokens) /\ <<"]">> \in Seq(Tokens)
      BY <1>2, <1>4 DEF Texts
    <3> QED
      BY <1>2, <1>3, <1>10, <3>1, ParsedError
  <2> HIDE DEF s, t
  <2>2. ~Fine(Count)' /\ (Parsed(out).next = "error")'
    BY <1>8, <1>10, <2>1
  <2> QED
    BY <1>1, <1>3, <1>7, <1>8, <2>2 DEF RenderInv, Written
<1> QED
  BY <1>9, <1>10

(* Every step keeps the invariant.                                          *)
LEMMA RenderStep ==
  ASSUME RenderInv, [Next]_vars
  PROVE  RenderInv'
<1>1. CASE RenderHeaders
  BY <1>1, HeadersStep
<1>2. CASE RenderMessage
  BY <1>2, MessageStep
<1>3. CASE CloseMessages
  BY <1>3, CloseStep
<1>4. CASE UNCHANGED vars
  BY <1>4 DEF vars, RenderInv, TypeOK, Written, Fine, InArray, Finished, Count, HeaderValues
<1> QED
  BY <1>1, <1>2, <1>3, <1>4 DEF Next, RenderingDone

(* Of every reachable state.                                                *)
LEMMA RenderInvAlways == Spec => []RenderInv
<1>1. Init => RenderInv
  BY InitRendering
<1>2. RenderInv /\ [Next]_vars => RenderInv'
  BY RenderStep
<1> QED
  BY <1>1, <1>2, PTL DEF Spec

(* The loop over the messages stays within the vector, and only tokens are   *)
(* written, whatever the packet.                                            *)
THEOREM TypeCorrect == Spec => []TypeOK
<1>1. RenderInv => TypeOK
  BY DEF RenderInv
<1> QED
  BY <1>1, RenderInvAlways, PTL

(* A finished text is three values, four with an incremental header, the     *)
(* last an array with one value a message, exactly if no message holds a     *)
(* value without a JSON form: for any number of messages, group entries,     *)
(* flags and bits.                                                          *)
THEOREM JsonExactlyUnlessAlways == Spec => []JsonExactlyUnless
<1>1. ASSUME RenderInv PROVE JsonExactlyUnless
  <2> SUFFICES ASSUME pc = "done" PROVE JsonExactlyUnless
    BY DEF JsonExactlyUnless
  <2>1. TypeOK
    BY <1>1 DEF RenderInv
  <2>2. DOMAIN packet.messages = 1 .. Count /\ Count \in Nat
    BY <2>1, PacketFacts DEF Count
  <2>3. Fine(Count) <=> \A k \in DOMAIN packet.messages : ~NotJson(packet.messages[k])
    BY <2>2 DEF Fine
  <2> DEFINE t == Parsed(out)
             values == IF packet.incremental THEN 4 ELSE 3
             isJson == /\ t.open = <<>> /\ t.next = "after"
                       /\ t.outer = values /\ t.inner = Count
  <2>4. HeaderValues + 1 = values
    BY <2>1, PacketFacts DEF HeaderValues
  <2>5. IF Fine(Count) THEN Finished(t) ELSE t.next = "error"
    BY <1>1 DEF RenderInv, Written
  <2>6. isJson <=> Fine(Count)
    <3> HIDE DEF t
    <3> QED
      BY <2>4, <2>5 DEF Finished
  <2> QED
    BY <2>3, <2>6 DEF JsonExactlyUnless, Count
<1> QED
  BY <1>1, RenderInvAlways, PTL

(* A flag set is listed with one name for each bit of its value that has     *)
(* one, and a comma between two of them, however many bits there are.        *)
THEOREM FlagsAreListedAlways == Spec => []FlagsAreListed
<1>1. ASSUME RenderInv PROVE FlagsAreListed
  <2>1. TypeOK
    BY <1>1 DEF RenderInv
  <2>2. ASSUME NEW k \in 1 .. i - 1
        PROVE  packet.messages[k] \in Message
    <3>1. Count \in Nat /\ i \in Nat /\ i <= Count + 1
      BY <2>1, PacketFacts
    <3>2. k \in 1 .. Count
      BY <3>1
    <3> QED
      BY <2>1, <3>2, PacketFacts
  <2>3. \A m \in Message :
          /\ MDFlagsSet(m) = List(Repeat(Str, Cardinality(m.flags)))
          /\ FlagsSet(m) = List(Repeat(Str, Cardinality(m.flags \cap NamedBits)))
    BY FlagsGood
  <2> QED
    BY <2>2, <2>3 DEF FlagsAreListed, List
<1> QED
  BY <1>1, RenderInvAlways, PTL
===============================================================================
