-------------------------- MODULE SIMBADecoderProofs --------------------------
(***************************************************************************)
(* class SIMBADecoder, for every payload, every size it is cut to and       *)
(* whatever stands where the decoder has lost its place.                   *)
(***************************************************************************)
EXTENDS SIMBADecoderProperties, Recursion, SequenceTheorems

(***************************************************************************)
(* The inductive invariant.                                                *)
(***************************************************************************)
Headers == [template : KnownTemplates \cup {"Unknown", "Zero"}, block : Nat]

DecodedOf(templates) ==
  [template : templates, at : Nat, counts : Seq(Nat), entries : Seq(Nat), intact : BOOLEAN]

Typed ==
  /\ payload \in [incremental : BOOLEAN, wire : Wires, size : Nat]
  /\ pc \in {"packet", "incremental", "loop", "message", "groups", "strings", "done"}
  /\ offset \in Nat
  /\ header \in Headers
  /\ messageHeader \in Headers
  /\ definition \in DecodedOf({"SecurityDefinition", "Zero"})
  /\ Len(definition.entries) = Len(definition.counts)
  /\ Len(definition.counts) <= 5
  /\ pc = "groups" => Len(definition.counts) <= 4
  /\ pc = "strings" => Len(definition.counts) = 5
  /\ pc \in {"groups", "strings"} => definition.template = "SecurityDefinition"
  /\ messages \in Seq(DecodedOf(KnownTemplates))

(* The largest field is of 25 bytes: whatever was left when a field of a     *)
(* SecurityDefinition did not fit is less, the groups take 3 bytes each and *)
(* the strings 24.                                                         *)
Completeness ==
  /\ OnlyLastMessageIncomplete
  /\ messages # <<>> /\ ~Last(messages).intact =>
       pc \in {"loop", "done"} /\ offset >= payload.size
  /\ pc \in {"groups", "strings"} /\ ~definition.intact =>
       payload.size + GroupSizeSize * Len(definition.counts) < offset + 25

(* Of the first n messages of the payload those decode() has a case for.    *)
Due ==
  Kept([k \in DOMAIN payload.wire |-> AsSent(k)],
       [k \in DOMAIN payload.wire |-> payload.wire[k].template \in KnownTemplates])

(* The fields and the first groups of SecurityDefinition k have been parsed. *)
DefinitionInStep(k) ==
  LET m == payload.wire[k]
      g == Len(definition.counts)
  IN  /\ m.template = "SecurityDefinition" /\ Described(m)
      /\ header.template = m.template
      /\ definition.at = Boundary(k) + MessageHeaderSize
      /\ definition.intact
      /\ \A j \in 1 .. g : definition.counts[j] = m.groups[j].count
      /\ definition.entries = definition.counts
      /\ offset = GroupAt(k, g + 1) /\ offset <= payload.size

(* k messages have been decoded as they were sent, and the next thing read   *)
(* is the next thing the sender put there.                                  *)
InStep(k) ==
  /\ Boundary(k + 1) <= payload.size
  /\ Intact = Due[k]
  /\ pc \in {"loop", "done"} =>
       /\ offset = Boundary(k + 1)
       /\ k > 0 => messageHeader.template = payload.wire[k].template
  /\ pc = "message" =>
       /\ k < Len(payload.wire)
       /\ offset = Boundary(k + 1) + MessageHeaderSize /\ offset <= payload.size
       /\ header = [template |-> payload.wire[k + 1].template,
                    block |-> payload.wire[k + 1].block]
  /\ pc \in {"groups", "strings"} =>
       k < Len(payload.wire) /\ DefinitionInStep(k + 1)

(* Message k + 1, or what precedes the first one, is not all there: what is  *)
(* decoded of it is not intact, and the last.                               *)
Cut(k) ==
  /\ k > 0 => Boundary(k + 1) <= payload.size
  /\ IF k < Len(payload.wire) THEN payload.size < Boundary(k + 2) ELSE k = 0
  /\ Intact = Due[k]
  /\ pc \in {"loop", "message", "done"} => offset >= payload.size
  /\ pc = "message" => header = NoHeader
  /\ pc \in {"groups", "strings"} => ~definition.intact \/ offset > payload.size

(* Message k + 1 is not what the code expects: anything may follow.         *)
Lost(k) ==
  /\ k < Len(payload.wire) /\ ~Described(payload.wire[k + 1])
  /\ Boundary(k + 1) <= offset
  /\ Boundary(k + 1) <= payload.size
  /\ IsPrefix(Due[k], Intact)

Started ==
  /\ pc \in {"packet", "incremental"} => messages = <<>>
  /\ pc = "packet" => offset = 0
  /\ pc = "incremental" =>
       /\ payload.incremental
       /\ offset = MarketDataPacketHeaderSize /\ offset <= payload.size

(* The first k messages are described by the code, and so much is known.    *)
Placed ==
  \E k \in 0 .. Len(payload.wire) :
    DescribedUpTo(k) /\ (InStep(k) \/ Cut(k) \/ Lost(k))

Framing ==
  /\ payload.size <= Boundary(Len(payload.wire) + 1)
  /\ Started
  /\ pc \notin {"packet", "incremental"} => Placed
  /\ pc = "done" => offset >= payload.size

DecoderInv == Typed /\ Completeness /\ Framing

(***************************************************************************)
(* Sums of sizes.                                                          *)
(***************************************************************************)
TotalUpTo(sizes, upTo) ==
  upTo = [n \in 0 .. Len(sizes) |-> IF n = 0 THEN 0 ELSE upTo[n - 1] + sizes[n]]

(* Total is well defined, and a natural number.                             *)
LEMMA TotalDef ==
  ASSUME NEW sizes \in Seq(Nat)
  PROVE  \E upTo \in [0 .. Len(sizes) -> Nat] :
           TotalUpTo(sizes, upTo) /\ Total(sizes) = upTo[Len(sizes)]
<1> DEFINE N == Len(sizes)
           V == Nat
           step == [vn \in V \X (1 .. N) |-> vn[1] + sizes[vn[2]]]
<1>1. N \in Nat /\ \A n \in 1 .. N : sizes[n] \in Nat
  OBVIOUS
<1>2. step \in [V \X (1 .. N) -> V]
  BY <1>1
<1>3. 0 \in V
  OBVIOUS
<1>4. PICK f : IsIteration(f, N, V, 0, step)
  <2>1. N \in Nat
    BY <1>1
  <2> HIDE DEF step, N, V
  <2> QED
    BY <1>2, <1>3, <2>1, Iteration
<1>5. f \in [0 .. N -> Nat] /\ f[0] = 0
      /\ \A n \in 1 .. N : f[n] = step[<<f[n - 1], n>>]
  BY <1>4 DEF IsIteration
<1>6. TotalUpTo(sizes, f)
  <2>1. ASSUME NEW n \in 0 .. N, n # 0
        PROVE  f[n] = f[n - 1] + sizes[n]
    <3>1. n - 1 \in 0 .. N /\ n \in 1 .. N
      BY <2>1, <1>1
    <3>2. f[n - 1] \in Nat
      BY <1>5, <3>1
    <3> QED
      BY <1>5, <3>1, <3>2
  <2> HIDE DEF step
  <2>2. f = [n \in 0 .. N |-> IF n = 0 THEN 0 ELSE f[n - 1] + sizes[n]]
    <3>1. f = [n \in 0 .. N |-> f[n]]
      BY <1>5
    <3> QED
      BY <1>5, <2>1, <3>1
  <2> QED
    BY <2>2 DEF TotalUpTo
<1> DEFINE g == CHOOSE upTo : TotalUpTo(sizes, upTo)
<1>7. TotalUpTo(sizes, g)
  BY <1>6
<1>8. Total(sizes) = g[N]
  BY DEF Total, TotalUpTo
<1> HIDE DEF g
<1>9. g \in [0 .. N -> Nat]
  <2> DEFINE S == {n \in 0 .. N : g[n] \in Nat}
  <2>1. 0 \in S
    BY <1>1, <1>7 DEF TotalUpTo
  <2>2. ASSUME NEW n \in 1 .. N, n - 1 \in S PROVE n \in S
    <3>1. n \in 0 .. N /\ n # 0
      BY <1>1
    <3>3. g[n] = g[n - 1] + sizes[n]
      BY <1>7, <3>1 DEF TotalUpTo
    <3>2. sizes[n] \in Nat
      BY <1>1
    <3> QED
      BY <2>2, <3>1, <3>2, <3>3
  <2> HIDE DEF S
  <2>3. 0 .. N \subseteq S
    BY <1>1, <2>1, <2>2, BoundedInduction
  <2>4. \A n \in 0 .. N : g[n] \in Nat
    BY <2>3 DEF S
  <2> QED
    BY <1>7, <2>4 DEF TotalUpTo
<1> QED
  BY <1>7, <1>8, <1>9

(* A total of sizes is a size.                                             *)
LEMMA TotalType ==
  ASSUME NEW sizes \in Seq(Nat)
  PROVE  Total(sizes) \in Nat
<1>1. PICK upTo \in [0 .. Len(sizes) -> Nat] : Total(sizes) = upTo[Len(sizes)]
  BY TotalDef
<1>2. Len(sizes) \in 0 .. Len(sizes)
  OBVIOUS
<1> QED
  BY <1>1, <1>2

(* The total of nothing.                                                    *)
LEMMA TotalEmpty == Total(<<>>) = 0
<1> DEFINE none == <<>>
<1>1. none \in Seq(Nat) /\ Len(none) = 0
  OBVIOUS
<1> HIDE DEF none
<1>2. PICK upTo \in [0 .. Len(none) -> Nat] :
        TotalUpTo(none, upTo) /\ Total(none) = upTo[Len(none)]
  BY <1>1, TotalDef
<1> QED
  BY <1>1, <1>2 DEF TotalUpTo, none

(* One more size is added.                                                  *)
LEMMA TotalAppend ==
  ASSUME NEW sizes \in Seq(Nat), NEW size \in Nat
  PROVE  Total(Append(sizes, size)) = Total(sizes) + size
<1> DEFINE N == Len(sizes)
           more == Append(sizes, size)
<1>1. N \in Nat /\ more \in Seq(Nat) /\ Len(more) = N + 1 /\ more[N + 1] = size
      /\ \A n \in 1 .. N : more[n] = sizes[n]
  OBVIOUS
<1>2. PICK u \in [0 .. N -> Nat] : TotalUpTo(sizes, u) /\ Total(sizes) = u[N]
  BY TotalDef
<1>3. PICK v \in [0 .. N + 1 -> Nat] : TotalUpTo(more, v) /\ Total(more) = v[N + 1]
  BY <1>1, TotalDef
<1> HIDE DEF more, N
<1>4. \A n \in 0 .. N : u[n] = v[n]
  <2> DEFINE S == {n \in 0 .. N : u[n] = v[n]}
  <2>1. 0 \in S
    BY <1>1, <1>2, <1>3 DEF TotalUpTo, N
  <2>2. ASSUME NEW n \in 1 .. N, n - 1 \in S PROVE n \in S
    <3>1. n \in 0 .. N /\ n \in 0 .. N + 1 /\ n # 0
      BY <1>1
    <3>2. u[n] = u[n - 1] + sizes[n]
      BY <1>2, <3>1 DEF TotalUpTo, N
    <3>3. v[n] = v[n - 1] + more[n]
      BY <1>1, <1>3, <3>1 DEF TotalUpTo
    <3> QED
      BY <1>1, <2>2, <3>1, <3>2, <3>3
  <2> HIDE DEF S
  <2>3. 0 .. N \subseteq S
    BY <1>1, <2>1, <2>2, BoundedInduction
  <2> QED
    BY <2>3 DEF S
<1>5. v[N + 1] = v[N] + size
  <2>1. N + 1 \in 0 .. N + 1 /\ N + 1 # 0 /\ (N + 1) - 1 = N
    BY <1>1
  <2> QED
    BY <1>1, <1>3, <2>1 DEF TotalUpTo
<1>6. u[N] = v[N]
  BY <1>1, <1>4
<1> QED
  BY <1>2, <1>3, <1>5, <1>6 DEF more

(***************************************************************************)
(* Sequences.                                                              *)
(***************************************************************************)
(* A function on 1 .. n is a sequence.                                      *)
LEMMA FunctionIsSeq ==
  ASSUME NEW S, NEW n \in Nat, NEW f \in [1 .. n -> S]
  PROVE  f \in Seq(S) /\ Len(f) = n
<1>1. f \in Seq(S)
  BY SeqDef
<1> QED
  BY <1>1

(* A prefix, element by element.                                            *)
LEMMA PrefixPointwise ==
  ASSUME NEW T, NEW s \in Seq(T), NEW t \in Seq(T)
  PROVE  IsPrefix(s, t) <=> Len(s) <= Len(t) /\ \A j \in 1 .. Len(s) : s[j] = t[j]
<1>1. Len(s) \in Nat /\ Len(t) \in Nat
  OBVIOUS
<1>2. ASSUME Len(s) <= Len(t)
      PROVE  /\ SubSeq(t, 1, Len(s)) \in Seq(T) /\ Len(SubSeq(t, 1, Len(s))) = Len(s)
             /\ \A j \in 1 .. Len(s) : SubSeq(t, 1, Len(s))[j] = t[j]
  BY <1>1, <1>2
<1>3. SubSeq(s, 1, Len(s)) = s
  BY SubSeqFull
<1>4. ASSUME Len(s) <= Len(t)
      PROVE  SubSeq(t, 1, Len(s)) = s <=> \A j \in 1 .. Len(s) : s[j] = t[j]
  <2> DEFINE u == SubSeq(t, 1, Len(s))
  <2>1. u \in Seq(T) /\ Len(u) = Len(s) /\ \A j \in 1 .. Len(s) : u[j] = t[j]
    BY <1>2, <1>4
  <2> HIDE DEF u
  <2>2. ASSUME \A j \in 1 .. Len(s) : s[j] = t[j] PROVE u = s
    BY <2>1, <2>2, SeqEqual
  <2>3. (\A j \in 1 .. Len(s) : s[j] = t[j]) <=> u = s
    BY <2>1, <2>2
  <2> QED
    BY <2>3 DEF u
<1> QED
  BY <1>3, <1>4 DEF IsPrefix

(* What has been appended does not undo a prefix.                           *)
LEMMA PrefixAppend ==
  ASSUME NEW T, NEW s \in Seq(T), NEW t \in Seq(T), NEW e \in T, IsPrefix(s, t)
  PROVE  IsPrefix(s, Append(t, e))
<1>1. Append(t, e) \in Seq(T) /\ Len(Append(t, e)) = Len(t) + 1
      /\ \A j \in 1 .. Len(t) : Append(t, e)[j] = t[j]
  OBVIOUS
<1>2. Len(s) <= Len(t) /\ \A j \in 1 .. Len(s) : s[j] = t[j]
  BY PrefixPointwise
<1>3. Len(s) <= Len(Append(t, e)) /\ \A j \in 1 .. Len(s) : s[j] = Append(t, e)[j]
  BY <1>1, <1>2
<1> QED
  BY <1>1, <1>3, PrefixPointwise

(* A prefix of a prefix is one.                                            *)
LEMMA PrefixTransitive ==
  ASSUME NEW T, NEW s \in Seq(T), NEW t \in Seq(T), NEW u \in Seq(T),
         IsPrefix(s, t), IsPrefix(t, u)
  PROVE  IsPrefix(s, u)
<1>1. Len(s) <= Len(t) /\ \A j \in 1 .. Len(s) : s[j] = t[j]
  BY PrefixPointwise
<1>2. Len(t) <= Len(u) /\ \A j \in 1 .. Len(t) : t[j] = u[j]
  BY PrefixPointwise
<1>3. Len(s) <= Len(u) /\ \A j \in 1 .. Len(s) : s[j] = u[j]
  BY <1>1, <1>2
<1> QED
  BY <1>3, PrefixPointwise

(* Every sequence is a prefix of itself.                                   *)
LEMMA PrefixReflexive ==
  ASSUME NEW T, NEW s \in Seq(T)
  PROVE  IsPrefix(s, s)
BY PrefixPointwise

KeptUpTo(s, keep, upTo) ==
  upTo = [n \in 0 .. Len(s) |->
            IF n = 0 THEN <<>>
            ELSE IF keep[n] THEN Append(upTo[n - 1], s[n]) ELSE upTo[n - 1]]

(* Kept is well defined.                                                    *)
LEMMA KeptDef ==
  ASSUME NEW T, NEW s \in Seq(T), NEW keep
  PROVE  /\ Kept(s, keep) \in [0 .. Len(s) -> Seq(T)]
         /\ Kept(s, keep)[0] = <<>>
         /\ \A n \in 1 .. Len(s) :
              Kept(s, keep)[n] = IF keep[n] THEN Append(Kept(s, keep)[n - 1], s[n])
                                 ELSE Kept(s, keep)[n - 1]
<1> DEFINE N == Len(s)
           V == Seq(T)
           next(v, n) == IF keep[n] THEN Append(v, s[n]) ELSE v
           step == [vn \in V \X (1 .. N) |-> next(vn[1], vn[2])]
<1>1. N \in Nat
  OBVIOUS
<1>2. \A v \in V, n \in 1 .. N : next(v, n) \in V
  OBVIOUS
<1>3. step \in [V \X (1 .. N) -> V]
  <2> HIDE DEF next, V, N
  <2> QED
    BY <1>2
<1>4. <<>> \in V
  OBVIOUS
<1>5. PICK f : IsIteration(f, N, V, <<>>, step)
  <2> HIDE DEF step, N, V
  <2> QED
    BY <1>1, <1>3, <1>4, Iteration
<1>6. f \in [0 .. N -> V] /\ f[0] = <<>>
      /\ \A n \in 1 .. N : f[n] = step[<<f[n - 1], n>>]
  BY <1>5 DEF IsIteration
<1>7. KeptUpTo(s, keep, f)
  <2>1. ASSUME NEW n \in 0 .. N, n # 0
        PROVE  f[n] = next(f[n - 1], n)
    <3>1. n - 1 \in 0 .. N /\ n \in 1 .. N
      BY <2>1, <1>1
    <3>2. f[n - 1] \in V
      BY <1>6, <3>1
    <3>3. step[<<f[n - 1], n>>] = next(f[n - 1], n)
      <4> HIDE DEF V, next, N
      <4> QED
        BY <3>1, <3>2
    <3> HIDE DEF step
    <3> QED
      BY <1>6, <3>1, <3>3
  <2>2. f = [n \in 0 .. N |-> f[n]]
    BY <1>6
  <2> HIDE DEF step
  <2> QED
    BY <1>6, <2>1, <2>2 DEF KeptUpTo
<1> DEFINE g == CHOOSE upTo : KeptUpTo(s, keep, upTo)
<1>8. KeptUpTo(s, keep, g)
  BY <1>7
<1>9. Kept(s, keep) = g
  BY DEF Kept, KeptUpTo
<1> HIDE DEF g
<1>10. g[0] = <<>>
  BY <1>1, <1>8 DEF KeptUpTo
<1>11. ASSUME NEW n \in 1 .. N PROVE g[n] = next(g[n - 1], n)
  <2>1. n \in 0 .. N /\ n # 0
    BY <1>1
  <2> QED
    BY <1>8, <2>1 DEF KeptUpTo
<1>12. g \in [0 .. N -> V]
  <2> DEFINE S == {n \in 0 .. N : g[n] \in V}
  <2>1. 0 \in S
    <3>1. 0 \in 0 .. N
      BY <1>1
    <3> HIDE DEF V, N
    <3> QED
      BY <1>4, <1>10, <3>1
  <2>2. ASSUME NEW n \in 1 .. N, n - 1 \in S PROVE n \in S
    <3>1. n \in 0 .. N /\ g[n - 1] \in V
      BY <1>1, <2>2
    <3> HIDE DEF next, V
    <3> QED
      BY <1>2, <1>11, <3>1
  <2> HIDE DEF S
  <2>3. 0 .. N \subseteq S
    BY <1>1, <2>1, <2>2, BoundedInduction
  <2>4. \A n \in 0 .. N : g[n] \in V
    BY <2>3 DEF S
  <2> QED
    BY <1>8, <2>4 DEF KeptUpTo
<1> QED
  BY <1>9, <1>10, <1>11, <1>12

(* Two selections agree on the first N elements.                            *)
Agree(T, s, keep, t, keepT, N) ==
  /\ s \in Seq(T) /\ t \in Seq(T)
  /\ N \in 0 .. Len(s) /\ N <= Len(t)
  /\ \A n \in 1 .. N : s[n] = t[n] /\ keep[n] = keepT[n]

(* The selection from the same elements is the same.                        *)
LEMMA KeptAgree ==
  ASSUME NEW T, NEW s, NEW keep, NEW t, NEW keepT, NEW N, Agree(T, s, keep, t, keepT, N)
  PROVE  Kept(s, keep)[N] = Kept(t, keepT)[N]
<1> DEFINE u == Kept(s, keep)
           v == Kept(t, keepT)
           S == {n \in 0 .. N : u[n] = v[n]}
<1>0. /\ s \in Seq(T) /\ t \in Seq(T) /\ N \in 0 .. Len(s) /\ N <= Len(t)
      /\ \A n \in 1 .. N : s[n] = t[n] /\ keep[n] = keepT[n]
  BY DEF Agree
<1>1. /\ Len(s) \in Nat /\ Len(t) \in Nat /\ N \in Nat
      /\ N <= Len(s) /\ N <= Len(t)
  BY <1>0
<1>2. u[0] = <<>> /\ \A n \in 1 .. Len(s) :
        u[n] = IF keep[n] THEN Append(u[n - 1], s[n]) ELSE u[n - 1]
  BY <1>0, KeptDef
<1>3. v[0] = <<>> /\ \A n \in 1 .. Len(t) :
        v[n] = IF keepT[n] THEN Append(v[n - 1], t[n]) ELSE v[n - 1]
  BY <1>0, KeptDef
<1> HIDE DEF u, v
<1>4. 0 \in S
  BY <1>1, <1>2, <1>3
<1>5. ASSUME NEW n \in 1 .. N, n - 1 \in S PROVE n \in S
  <2>1. n \in 1 .. Len(s) /\ n \in 1 .. Len(t) /\ n \in 0 .. N
    BY <1>1
  <2>2. u[n - 1] = v[n - 1]
    BY <1>5
  <2> QED
    BY <1>0, <1>2, <1>3, <2>1, <2>2
<1> HIDE DEF S
<1>6. 0 .. N \subseteq S
  BY <1>1, <1>4, <1>5, BoundedInduction
<1>7. u[N] = v[N]
  BY <1>1, <1>6 DEF S
<1> QED
  BY <1>7 DEF u, v

(* Where nothing is kept, nothing changes.                                  *)
LEMMA KeptNothing ==
  ASSUME NEW T, NEW s \in Seq(T), NEW keep,
         NEW K \in 0 .. Len(s), NEW N \in K .. Len(s),
         \A n \in K + 1 .. N : ~keep[n]
  PROVE  Kept(s, keep)[N] = Kept(s, keep)[K]
<1> DEFINE u == Kept(s, keep)
           D == N - K
           S == {d \in 0 .. D : u[K + d] = u[K]}
<1>1. Len(s) \in Nat /\ K \in Nat /\ N \in Nat /\ D \in Nat /\ K + D = N
  OBVIOUS
<1>2. \A n \in 1 .. Len(s) :
        u[n] = IF keep[n] THEN Append(u[n - 1], s[n]) ELSE u[n - 1]
  BY KeptDef
<1> HIDE DEF u
<1>3. 0 \in S
  BY <1>1
<1>4. ASSUME NEW d \in 1 .. D, d - 1 \in S PROVE d \in S
  <2>1. K + d \in 1 .. Len(s) /\ K + d \in K + 1 .. N /\ (K + d) - 1 = K + (d - 1)
        /\ d \in 0 .. D
    BY <1>1
  <2>2. u[K + (d - 1)] = u[K]
    BY <1>4
  <2> QED
    BY <1>2, <2>1, <2>2
<1> HIDE DEF S, D
<1>5. 0 .. D \subseteq S
  BY <1>1, <1>3, <1>4, BoundedInduction
<1>6. u[K + D] = u[K]
  BY <1>1, <1>5 DEF S
<1> QED
  BY <1>1, <1>6 DEF u

(* What has been selected stays at the beginning.                           *)
LEMMA KeptGrows ==
  ASSUME NEW T, NEW s \in Seq(T), NEW keep,
         NEW K \in 0 .. Len(s), NEW N \in K .. Len(s)
  PROVE  IsPrefix(Kept(s, keep)[K], Kept(s, keep)[N])
<1> DEFINE u == Kept(s, keep)
           D == N - K
           S == {d \in 0 .. D : IsPrefix(u[K], u[K + d])}
<1>1. Len(s) \in Nat /\ K \in Nat /\ N \in Nat /\ D \in Nat /\ K + D = N
  OBVIOUS
<1>2. \A n \in 1 .. Len(s) :
        u[n] = IF keep[n] THEN Append(u[n - 1], s[n]) ELSE u[n - 1]
  BY KeptDef
<1>3. \A n \in 0 .. Len(s) : u[n] \in Seq(T)
  BY KeptDef
<1> HIDE DEF u
<1>4. 0 \in S
  <2>1. K + 0 = K /\ 0 \in 0 .. D /\ u[K] \in Seq(T)
    BY <1>1, <1>3
  <2>2. IsPrefix(u[K], u[K])
    BY <2>1, PrefixReflexive
  <2> QED
    BY <2>1, <2>2
<1>5. ASSUME NEW d \in 1 .. D, d - 1 \in S PROVE d \in S
  <2>1. K + d \in 1 .. Len(s) /\ (K + d) - 1 = K + (d - 1) /\ d \in 0 .. D
        /\ K + (d - 1) \in 0 .. Len(s)
    BY <1>1
  <2>2. IsPrefix(u[K], u[K + (d - 1)])
    BY <1>5
  <2>3. s[K + d] \in T /\ u[K] \in Seq(T) /\ u[K + (d - 1)] \in Seq(T)
    BY <1>1, <1>3, <2>1
  <2>4. IsPrefix(u[K], Append(u[K + (d - 1)], s[K + d]))
    BY <2>2, <2>3, PrefixAppend
  <2> QED
    BY <1>2, <2>1, <2>2, <2>4
<1> HIDE DEF S, D
<1>6. 0 .. D \subseteq S
  BY <1>1, <1>4, <1>5, BoundedInduction
<1>7. IsPrefix(u[K], u[K + D])
  BY <1>1, <1>6 DEF S
<1> QED
  BY <1>1, <1>7 DEF u

(***************************************************************************)
(* Where things are in the payload.                                        *)
(***************************************************************************)
(* The messages of a payload.                                               *)
LEMMA WireTyped ==
  ASSUME Typed
  PROVE  /\ payload.wire \in Seq(WireMessages)
         /\ Len(payload.wire) \in Nat
         /\ DOMAIN payload.wire = 1 .. Len(payload.wire)
         /\ \A k \in 1 .. Len(payload.wire) :
              payload.wire[k] \in WireMessages /\ LaidOut(payload.wire[k])
         /\ payload.size \in Nat /\ payload.incremental \in BOOLEAN
<1>1. payload.wire \in Wires /\ payload.size \in Nat /\ payload.incremental \in BOOLEAN
  BY DEF Typed
<1>2. payload.wire \in Seq(WireMessages)
      /\ \A k \in DOMAIN payload.wire : LaidOut(payload.wire[k])
  BY <1>1, WiresAssumption
<1> QED
  BY <1>1, <1>2

(* The bytes of the groups of a message.                                   *)
LEMMA GroupsBytesType ==
  ASSUME NEW groups \in Seq(WireGroups)
  PROVE  /\ [g \in DOMAIN groups |-> GroupBytes(groups[g])] \in Seq(Nat)
         /\ Len([g \in DOMAIN groups |-> GroupBytes(groups[g])]) = Len(groups)
         /\ GroupsBytes(groups) \in Nat
<1>1. Len(groups) \in Nat /\ DOMAIN groups = 1 .. Len(groups)
  OBVIOUS
<1>2. ASSUME NEW g \in 1 .. Len(groups) PROVE GroupBytes(groups[g]) \in Nat
  <2>1. groups[g] \in WireGroups
    OBVIOUS
  <2>2. groups[g].count \in 0 .. 255 /\ groups[g].entry \in Nat
    BY <2>1 DEF WireGroups
  <2>4. groups[g].count \in Nat
    <3>1. 0 .. 255 \subseteq Nat
      OBVIOUS
    <3> QED
      BY <2>2, <3>1, Zenon
  <2>3. groups[g].count * groups[g].entry \in Nat
    BY <2>2, <2>4
  <2> QED
    BY <2>3 DEF GroupBytes, GroupSizeSize
<1> DEFINE f == [g \in DOMAIN groups |-> GroupBytes(groups[g])]
<1>3. f \in [1 .. Len(groups) -> Nat]
  BY <1>1, <1>2
<1> HIDE DEF f
<1>4. f \in Seq(Nat) /\ Len(f) = Len(groups)
  BY <1>1, <1>3, FunctionIsSeq
<1>5. Total(f) \in Nat
  BY <1>4, TotalType
<1> QED
  BY <1>4, <1>5 DEF GroupsBytes, f

(* The bytes of a message are those of its parts.                          *)
LEMMA MessageBytesType ==
  ASSUME NEW m \in WireMessages
  PROVE  /\ m.block \in Nat /\ m.data \in Nat /\ GroupsBytes(m.groups) \in Nat
         /\ MessageBytes(m) \in Nat
         /\ MessageBytes(m) = 8 + m.block + GroupsBytes(m.groups) + m.data
<1>1. m.block \in Nat /\ m.data \in Nat
      /\ m.groups \in Seq(WireGroups)
  BY DEF WireMessages
<1>2. GroupsBytes(m.groups) \in Nat
  BY <1>1, GroupsBytesType
<1> QED
  BY <1>1, <1>2 DEF MessageBytes, MessageHeaderSize

(* One more message, one more group: its bytes are added.                   *)
LEMMA MessagesBytesUpTo ==
  ASSUME NEW ms \in Seq(WireMessages), NEW k \in 1 .. Len(ms)
  PROVE  /\ MessagesBytes(SubSeq(ms, 1, k - 1)) \in Nat
         /\ MessagesBytes(SubSeq(ms, 1, k))
              = MessagesBytes(SubSeq(ms, 1, k - 1)) + MessageBytes(ms[k])
<1> DEFINE before == SubSeq(ms, 1, k - 1)
           after == SubSeq(ms, 1, k)
           sizes(s) == [j \in DOMAIN s |-> MessageBytes(s[j])]
<1>1. Len(ms) \in Nat /\ k \in Nat /\ ms[k] \in WireMessages
  OBVIOUS
<1>2. /\ before \in Seq(WireMessages) /\ Len(before) = k - 1
      /\ \A j \in 1 .. k - 1 : before[j] = ms[j]
  OBVIOUS
<1>3. /\ after \in Seq(WireMessages) /\ Len(after) = k
      /\ \A j \in 1 .. k : after[j] = ms[j]
  OBVIOUS
<1> HIDE DEF before, after
<1>4. sizes(before) \in [1 .. k - 1 -> Nat]
  BY <1>1, <1>2, MessageBytesType
<1>5. sizes(after) \in [1 .. k -> Nat]
  BY <1>1, <1>3, MessageBytesType
<1>6. \A j \in 1 .. k - 1 : sizes(after)[j] = sizes(before)[j]
  BY <1>1, <1>2, <1>3
<1>7. sizes(after)[k] = MessageBytes(ms[k])
  BY <1>1, <1>3
<1>8. MessagesBytes(before) = Total(sizes(before)) /\ MessagesBytes(after) = Total(sizes(after))
  BY DEF MessagesBytes
<1>9. MessageBytes(ms[k]) \in Nat
  BY <1>1, MessageBytesType
<1> HIDE DEF sizes
<1>10. sizes(before) \in Seq(Nat) /\ Len(sizes(before)) = k - 1
  BY <1>1, <1>4, FunctionIsSeq
<1>11. sizes(after) \in Seq(Nat) /\ Len(sizes(after)) = k
  BY <1>1, <1>5, FunctionIsSeq
<1> DEFINE more == Append(sizes(before), MessageBytes(ms[k]))
<1>12. /\ more \in Seq(Nat) /\ Len(more) = k
       /\ \A j \in 1 .. k : more[j] = sizes(after)[j]
  BY <1>1, <1>6, <1>7, <1>9, <1>10
<1> HIDE DEF more
<1>13. more = sizes(after)
  BY <1>11, <1>12, SeqEqual
<1> USE DEF more
<1>14. Total(sizes(after)) = Total(sizes(before)) + MessageBytes(ms[k])
  BY <1>9, <1>10, <1>13, TotalAppend
<1> QED
  BY <1>8, <1>10, <1>14, TotalType DEF before, after

(* One more group: its bytes are added.                                    *)
LEMMA GroupsBytesUpTo ==
  ASSUME NEW gs \in Seq(WireGroups), NEW k \in 1 .. Len(gs)
  PROVE  /\ GroupsBytes(SubSeq(gs, 1, k - 1)) \in Nat
         /\ GroupsBytes(SubSeq(gs, 1, k))
              = GroupsBytes(SubSeq(gs, 1, k - 1)) + GroupBytes(gs[k])
<1> DEFINE before == SubSeq(gs, 1, k - 1)
           after == SubSeq(gs, 1, k)
           sizes(s) == [j \in DOMAIN s |-> GroupBytes(s[j])]
<1>1. Len(gs) \in Nat /\ k \in Nat /\ gs[k] \in WireGroups
  OBVIOUS
<1>2. /\ before \in Seq(WireGroups) /\ Len(before) = k - 1
      /\ \A j \in 1 .. k - 1 : before[j] = gs[j]
  OBVIOUS
<1>3. /\ after \in Seq(WireGroups) /\ Len(after) = k
      /\ \A j \in 1 .. k : after[j] = gs[j]
  OBVIOUS
<1>4. DOMAIN before = 1 .. k - 1 /\ DOMAIN after = 1 .. k
  BY <1>1, <1>2, <1>3
<1> HIDE DEF before, after
<1>6. ASSUME NEW j \in 1 .. k - 1 PROVE sizes(after)[j] = sizes(before)[j]
  <2>1. j \in DOMAIN before /\ j \in DOMAIN after /\ before[j] = after[j]
    BY <1>1, <1>2, <1>3, <1>4
  <2> QED
    BY <2>1
<1>7. sizes(after)[k] = GroupBytes(gs[k])
  BY <1>1, <1>3, <1>4
<1>8. /\ GroupsBytes(before) = Total(sizes(before)) /\ GroupsBytes(after) = Total(sizes(after))
      /\ GroupsBytes(before) \in Nat
  BY <1>2, GroupsBytesType DEF GroupsBytes
<1>10. sizes(before) \in Seq(Nat) /\ Len(sizes(before)) = k - 1
  BY <1>2, GroupsBytesType
<1>11. sizes(after) \in Seq(Nat) /\ Len(sizes(after)) = k
  BY <1>3, GroupsBytesType
<1> HIDE DEF sizes
<1>9. GroupBytes(gs[k]) \in Nat
  BY <1>1, <1>7, <1>11
<1> DEFINE more == Append(sizes(before), GroupBytes(gs[k]))
<1>12. /\ more \in Seq(Nat) /\ Len(more) = k
       /\ \A j \in 1 .. k : more[j] = sizes(after)[j]
  BY <1>1, <1>6, <1>7, <1>9, <1>10
<1> HIDE DEF more
<1>13. more = sizes(after)
  BY <1>11, <1>12, SeqEqual
<1> USE DEF more
<1>14. Total(sizes(after)) = Total(sizes(before)) + GroupBytes(gs[k])
  BY <1>9, <1>10, <1>13, TotalAppend
<1> QED
  BY <1>8, <1>14 DEF before, after

(* The messages lie one behind the other.                                   *)
LEMMA MessagesBytesType ==
  ASSUME NEW ms \in Seq(WireMessages)
  PROVE  MessagesBytes(ms) \in Nat
<1> DEFINE sizes == [j \in DOMAIN ms |-> MessageBytes(ms[j])]
<1>1. sizes \in [1 .. Len(ms) -> Nat] /\ Len(ms) \in Nat
  BY MessageBytesType
<1> HIDE DEF sizes
<1>2. sizes \in Seq(Nat)
  BY <1>1, FunctionIsSeq
<1> QED
  BY <1>2, TotalType DEF MessagesBytes, sizes

(* Where a message begins: behind the header of the packet.                *)
LEMMA BoundaryType ==
  ASSUME Typed, NEW k \in 1 .. Len(payload.wire) + 1
  PROVE  Boundary(k) \in Nat /\ 16 <= Boundary(k)
<1>1. SubSeq(payload.wire, 1, k - 1) \in Seq(WireMessages)
  BY WireTyped
<1>2. MessagesBytes(SubSeq(payload.wire, 1, k - 1)) \in Nat
  BY <1>1, MessagesBytesType
<1> QED
  BY <1>2 DEF Boundary, HeaderBytes, MarketDataPacketHeaderSize, IncrementalPacketHeaderSize

(* It begins where the message before it ends.                             *)
LEMMA BoundaryStep ==
  ASSUME Typed, NEW k \in 1 .. Len(payload.wire)
  PROVE  /\ Boundary(k + 1) = Boundary(k) + MessageBytes(payload.wire[k])
         /\ MessageBytes(payload.wire[k]) \in Nat /\ 8 <= MessageBytes(payload.wire[k])
<1> DEFINE before == MessagesBytes(SubSeq(payload.wire, 1, k - 1))
           after == MessagesBytes(SubSeq(payload.wire, 1, k))
           m == MessageBytes(payload.wire[k])
           head == HeaderBytes(payload.incremental)
<1>1. before \in Nat /\ after = before + m
  BY WireTyped, MessagesBytesUpTo
<1>2. m \in Nat /\ 8 <= m
  <2> DEFINE w == payload.wire[k]
  <2>1. w \in WireMessages
    BY WireTyped
  <2> HIDE DEF w
  <2>2. /\ w.block \in Nat /\ w.data \in Nat /\ GroupsBytes(w.groups) \in Nat
        /\ MessageBytes(w) = 8 + w.block + GroupsBytes(w.groups) + w.data
    BY <2>1, MessageBytesType
  <2>3. MessageBytes(w) \in Nat /\ 8 <= MessageBytes(w)
    BY <2>2
  <2> QED
    BY <2>3 DEF w
<1>3. head \in Nat
  BY DEF HeaderBytes, MarketDataPacketHeaderSize, IncrementalPacketHeaderSize
<1>4. Boundary(k) = head + before
  BY DEF Boundary
<1>5. Boundary(k + 1) = head + after
  <2>1. (k + 1) - 1 = k
    OBVIOUS
  <2> QED
    BY <2>1 DEF Boundary
<1> HIDE DEF before, after, m, head
<1>6. Boundary(k + 1) = Boundary(k) + m
  BY <1>1, <1>2, <1>3, <1>4, <1>5
<1> QED
  BY <1>2, <1>6 DEF m

(* Different messages begin at least a message header apart.               *)
LEMMA BoundaryBefore ==
  ASSUME Typed, NEW i \in 1 .. Len(payload.wire) + 1, NEW j \in 1 .. Len(payload.wire) + 1,
         i < j
  PROVE  Boundary(i) + 8 <= Boundary(j)
<1> DEFINE D == j - i
           S == {d \in 0 .. D : d > 0 => Boundary(i) + 8 <= Boundary(i + d)}
<1>1. D \in Nat /\ i + D = j /\ i \in Nat /\ D > 0 /\ Len(payload.wire) \in Nat
  BY WireTyped
<1>2. 0 \in S
  BY <1>1
<1>3. ASSUME NEW d \in 1 .. D, d - 1 \in S PROVE d \in S
  <2> DEFINE k == i + (d - 1)
  <2>1. k \in 1 .. Len(payload.wire) /\ k + 1 = i + d /\ d \in 0 .. D
    BY <1>1
  <2>2. d = 1 => k = i
    BY <1>1
  <2>3. d > 1 => Boundary(i) + 8 <= Boundary(k)
    BY <1>1, <1>3
  <2>4. k \in 1 .. Len(payload.wire) + 1
    BY <1>1, <2>1
  <2> HIDE DEF k
  <2>5. /\ Boundary(k + 1) = Boundary(k) + MessageBytes(payload.wire[k])
        /\ MessageBytes(payload.wire[k]) \in Nat /\ 8 <= MessageBytes(payload.wire[k])
    BY <2>1, BoundaryStep
  <2>6. Boundary(i) \in Nat /\ Boundary(k) \in Nat
    BY <2>4, BoundaryType
  <2>7. Boundary(i) + 8 <= Boundary(k + 1)
    BY <2>2, <2>3, <2>5, <2>6
  <2> QED
    BY <2>1, <2>7
<1> HIDE DEF S, D
<1>4. 0 .. D \subseteq S
  BY <1>1, <1>2, <1>3, BoundedInduction
<1>5. Boundary(i) + 8 <= Boundary(i + D)
  BY <1>1, <1>4 DEF S
<1> QED
  BY <1>1, <1>5

(* A later message begins later.                                           *)
LEMMA BoundaryMonotonic ==
  ASSUME Typed, NEW i \in 1 .. Len(payload.wire) + 1, NEW j \in 1 .. Len(payload.wire) + 1,
         i <= j
  PROVE  Boundary(i) <= Boundary(j)
<1>1. Boundary(i) \in Nat /\ Boundary(j) \in Nat
  BY BoundaryType
<1>2. CASE i = j
  BY <1>1, <1>2
<1>3. CASE i < j
  BY <1>1, <1>3, BoundaryBefore
<1> QED
  BY <1>2, <1>3, WireTyped

(* So do the groups of a message.                                           *)
LEMMA WireGroupsTyped ==
  ASSUME Typed, NEW k \in 1 .. Len(payload.wire)
  PROVE  LET groups == payload.wire[k].groups
         IN  /\ groups \in Seq(WireGroups)
             /\ Len(groups) \in Nat /\ DOMAIN groups = 1 .. Len(groups)
             /\ \A g \in 1 .. Len(groups) :
                  /\ groups[g].count \in 0 .. 255 /\ groups[g].count \in Nat
                  /\ groups[g].entry \in Nat
                  /\ GroupBytes(groups[g]) \in Nat /\ 3 <= GroupBytes(groups[g])
                  /\ GroupBytes(groups[g]) = 3 + groups[g].count * groups[g].entry
<1> DEFINE groups == payload.wire[k].groups
<1>1. groups \in Seq(WireGroups)
  BY WireTyped DEF WireMessages
<1>2. ASSUME NEW g \in 1 .. Len(groups)
      PROVE  /\ groups[g].count \in 0 .. 255 /\ groups[g].count \in Nat
             /\ groups[g].entry \in Nat
             /\ GroupBytes(groups[g]) \in Nat /\ 3 <= GroupBytes(groups[g])
             /\ GroupBytes(groups[g]) = 3 + groups[g].count * groups[g].entry
  <2> DEFINE c == groups[g].count
             e == groups[g].entry
  <2>1. groups[g] \in WireGroups
    BY <1>1
  <2>2. c \in 0 .. 255 /\ e \in Nat
    BY <2>1 DEF WireGroups
  <2>3. GroupBytes(groups[g]) = 3 + c * e
    BY DEF GroupBytes, GroupSizeSize
  <2> HIDE DEF c, e
  <2>4. c \in Nat
    BY <2>2
  <2>5. c * e \in Nat
    BY <2>2, <2>4
  <2> QED
    BY <2>2, <2>3, <2>4, <2>5 DEF c, e
<1>3. Len(groups) \in Nat /\ DOMAIN groups = 1 .. Len(groups)
  BY <1>1
<1> QED
  BY <1>1, <1>2, <1>3

(* Where a GroupSize lies.                                                 *)
LEMMA GroupAtType ==
  ASSUME Typed, NEW k \in 1 .. Len(payload.wire),
         NEW g \in 1 .. Len(payload.wire[k].groups) + 1
  PROVE  GroupAt(k, g) \in Nat
<1> DEFINE groups == payload.wire[k].groups
<1>1. groups \in Seq(WireGroups)
  BY WireGroupsTyped
<1>2. SubSeq(groups, 1, g - 1) \in Seq(WireGroups)
  BY <1>1
<1>3. GroupsBytes(SubSeq(groups, 1, g - 1)) \in Nat
  BY <1>2, GroupsBytesType
<1>4. Boundary(k) \in Nat /\ payload.wire[k].block \in Nat
  BY BoundaryType, WireTyped, MessageBytesType
<1> QED
  BY <1>3, <1>4 DEF GroupAt, MessageHeaderSize

(* The first lies behind the block of fields.                              *)
LEMMA GroupAtFirst ==
  ASSUME Typed, NEW k \in 1 .. Len(payload.wire)
  PROVE  GroupAt(k, 1) = Boundary(k) + 8 + payload.wire[k].block
<1> DEFINE groups == payload.wire[k].groups
           none == SubSeq(groups, 1, 0)
           sizes == [g \in DOMAIN none |-> GroupBytes(none[g])]
<1>1. groups \in Seq(WireGroups)
  BY WireGroupsTyped
<1>2. none = <<>>
  BY <1>1
<1>3. none \in Seq(WireGroups) /\ Len(none) = 0
  BY <1>1, <1>2
<1> HIDE DEF none
<1>4. sizes \in Seq(Nat) /\ Len(sizes) = 0
  BY <1>3, GroupsBytesType
<1> HIDE DEF sizes
<1>5. sizes = <<>>
  BY <1>4
<1>6. GroupsBytes(none) = 0
  BY <1>5, TotalEmpty DEF GroupsBytes, sizes
<1>7. Boundary(k) \in Nat /\ payload.wire[k].block \in Nat
  BY BoundaryType, WireTyped, MessageBytesType
<1>8. GroupAt(k, 1) = Boundary(k) + 8 + payload.wire[k].block + GroupsBytes(none)
  BY DEF GroupAt, MessageHeaderSize, none
<1> QED
  BY <1>6, <1>7, <1>8

(* Each of the others lies behind the entries of the one before it.        *)
LEMMA GroupAtStep ==
  ASSUME Typed, NEW k \in 1 .. Len(payload.wire),
         NEW g \in 1 .. Len(payload.wire[k].groups)
  PROVE  GroupAt(k, g + 1) = GroupAt(k, g) + GroupBytes(payload.wire[k].groups[g])
<1> DEFINE groups == payload.wire[k].groups
           before == GroupsBytes(SubSeq(groups, 1, g - 1))
           after == GroupsBytes(SubSeq(groups, 1, g))
           size == GroupBytes(groups[g])
           fields == Boundary(k) + MessageHeaderSize + payload.wire[k].block
<1>1. groups \in Seq(WireGroups) /\ size \in Nat
  BY WireGroupsTyped
<1>2. before \in Nat /\ after = before + size
  BY <1>1, GroupsBytesUpTo
<1>3. fields \in Nat
  <2>1. Boundary(k) \in Nat /\ payload.wire[k].block \in Nat
    BY BoundaryType, WireTyped, MessageBytesType
  <2> QED
    BY <2>1 DEF MessageHeaderSize
<1>4. GroupAt(k, g) = fields + before
  BY DEF GroupAt
<1>5. GroupAt(k, g + 1) = fields + after
  <2>1. (g + 1) - 1 = g
    OBVIOUS
  <2> QED
    BY <2>1 DEF GroupAt
<1> HIDE DEF before, after, size, fields
<1>6. GroupAt(k, g + 1) = GroupAt(k, g) + size
  BY <1>1, <1>2, <1>3, <1>4, <1>5
<1> QED
  BY <1>6 DEF size

(* What follows the last group is data, and then the message ends.         *)
LEMMA GroupAtLast ==
  ASSUME Typed, NEW k \in 1 .. Len(payload.wire)
  PROVE  GroupAt(k, Len(payload.wire[k].groups) + 1) + payload.wire[k].data = Boundary(k + 1)
<1> DEFINE m == payload.wire[k]
<1>1. m \in WireMessages
  BY WireTyped
<1>2. m.groups \in Seq(WireGroups)
  BY WireGroupsTyped
<1>3. SubSeq(m.groups, 1, (Len(m.groups) + 1) - 1) = m.groups
  BY <1>2, SubSeqFull
<1>4. GroupAt(k, Len(m.groups) + 1) = Boundary(k) + 8 + m.block + GroupsBytes(m.groups)
  BY <1>3 DEF GroupAt, MessageHeaderSize
<1>5. /\ m.block \in Nat /\ m.data \in Nat /\ GroupsBytes(m.groups) \in Nat
      /\ MessageBytes(m) = 8 + m.block + GroupsBytes(m.groups) + m.data
  BY <1>1, MessageBytesType
<1>6. Boundary(k + 1) = Boundary(k) + MessageBytes(m) /\ Boundary(k) \in Nat
  BY BoundaryStep, BoundaryType
<1> DEFINE block == m.block
           groupsBytes == GroupsBytes(m.groups)
           data == m.data
           last == GroupAt(k, Len(m.groups) + 1)
           start == Boundary(k)
           end == Boundary(k + 1)
           all == MessageBytes(m)
<1>7. /\ start \in Nat /\ block \in Nat /\ groupsBytes \in Nat /\ data \in Nat
      /\ all = 8 + block + groupsBytes + data
      /\ last = start + 8 + block + groupsBytes /\ end = start + all
  BY <1>4, <1>5, <1>6
<1> HIDE DEF start, block, groupsBytes, data, all, last, end
<1>8. last + data = end
  BY <1>7
<1> QED
  BY <1>8 DEF last, data, end

(* Different GroupSizes of a message do not overlap.                       *)
LEMMA GroupAtBefore ==
  ASSUME Typed, NEW k \in 1 .. Len(payload.wire),
         NEW i \in 1 .. Len(payload.wire[k].groups) + 1,
         NEW j \in 1 .. Len(payload.wire[k].groups) + 1, i < j
  PROVE  GroupAt(k, i) + 3 <= GroupAt(k, j)
<1> DEFINE N == Len(payload.wire[k].groups)
           D == j - i
           S == {d \in 0 .. D : d > 0 => GroupAt(k, i) + 3 <= GroupAt(k, i + d)}
<1>1. N \in Nat
  BY WireGroupsTyped
<1>2. D \in Nat /\ i + D = j /\ i \in Nat /\ D > 0 /\ i \in 1 .. N + 1 /\ j \in 1 .. N + 1
  BY <1>1
<1> HIDE DEF N
<1>3. 0 \in S
  BY <1>2
<1>4. ASSUME NEW d \in 1 .. D, d - 1 \in S PROVE d \in S
  <2> DEFINE g == i + (d - 1)
  <2>1. g \in 1 .. N /\ g \in 1 .. N + 1 /\ g + 1 = i + d /\ d \in 0 .. D
    BY <1>1, <1>2
  <2>2. d = 1 => g = i
    BY <1>2
  <2>3. d > 1 => GroupAt(k, i) + 3 <= GroupAt(k, g)
    BY <1>2, <1>4
  <2> HIDE DEF g, D
  <2>4. GroupAt(k, g + 1) = GroupAt(k, g) + GroupBytes(payload.wire[k].groups[g])
    BY <2>1, GroupAtStep DEF N
  <2>5. /\ GroupBytes(payload.wire[k].groups[g]) \in Nat
        /\ 3 <= GroupBytes(payload.wire[k].groups[g])
    BY <2>1, WireGroupsTyped DEF N
  <2>6. GroupAt(k, i) \in Nat /\ GroupAt(k, g) \in Nat
    BY <1>2, <2>1, GroupAtType DEF N
  <2>7. GroupAt(k, i) + 3 <= GroupAt(k, g + 1)
    BY <2>2, <2>3, <2>4, <2>5, <2>6
  <2> QED
    BY <2>1, <2>7
<1> HIDE DEF S, D
<1>5. 0 .. D \subseteq S
  BY <1>2, <1>3, <1>4, BoundedInduction
<1>6. GroupAt(k, i) + 3 <= GroupAt(k, i + D)
  BY <1>2, <1>5 DEF S
<1> QED
  BY <1>2, <1>6

(* A GroupSize lies in its message.                                        *)
LEMMA GroupInMessage ==
  ASSUME Typed, NEW k \in 1 .. Len(payload.wire),
         NEW g \in 1 .. Len(payload.wire[k].groups)
  PROVE  /\ Boundary(k) + 8 <= GroupAt(k, g)
         /\ GroupAt(k, g) + 3 <= Boundary(k + 1)
<1> DEFINE N == Len(payload.wire[k].groups)
           first == GroupAt(k, 1)
           at == GroupAt(k, g)
           last == GroupAt(k, N + 1)
           start == Boundary(k)
           end == Boundary(k + 1)
           block == payload.wire[k].block
           data == payload.wire[k].data
<1>1. N \in Nat /\ g \in 1 .. N
  BY WireGroupsTyped
<1>2. g \in 1 .. N + 1 /\ N + 1 \in 1 .. N + 1 /\ 1 \in 1 .. N + 1 /\ g < N + 1
  BY <1>1
<1>3. first \in Nat /\ at \in Nat /\ last \in Nat
  <2> HIDE DEF first, at, last
  <2>1. \A h \in 1 .. N + 1 : GroupAt(k, h) \in Nat
    BY GroupAtType
  <2> QED
    BY <1>2, <2>1 DEF first, at, last
<1>4. first <= at
  <2>1. CASE g = 1
    BY <1>3, <2>1
  <2>2. CASE 1 < g
    BY <1>2, <1>3, <2>2, GroupAtBefore
  <2> QED
    BY <1>1, <2>1, <2>2
<1>5. at + 3 <= last
  BY <1>2, GroupAtBefore
<1>6. first = start + 8 + block
  BY GroupAtFirst
<1>7. last + data = end
  BY GroupAtLast
<1>8. block \in Nat /\ data \in Nat
  BY WireTyped, MessageBytesType
<1>9. start \in Nat
  BY BoundaryType
<1> HIDE DEF first, at, last, start, end, block, data
<1>10. start + 8 <= at /\ at + 3 <= end
  BY <1>3, <1>4, <1>5, <1>6, <1>7, <1>8, <1>9
<1> QED
  BY <1>10 DEF start, at, end

(* No two GroupSizes lie at the same place.                                 *)
LEMMA GroupAtUnique ==
  ASSUME Typed, NEW k \in 1 .. Len(payload.wire), NEW j \in 1 .. Len(payload.wire),
         NEW g \in 1 .. Len(payload.wire[k].groups),
         NEW h \in 1 .. Len(payload.wire[j].groups),
         GroupAt(k, g) = GroupAt(j, h)
  PROVE  k = j /\ g = h
<1>1. Len(payload.wire) \in Nat
  BY WireTyped
<1>2. ASSUME NEW a \in 1 .. Len(payload.wire), NEW b \in 1 .. Len(payload.wire), a < b
      PROVE  Boundary(a + 1) <= Boundary(b) /\ Boundary(a + 1) \in Nat /\ Boundary(b) \in Nat
  <2>1. a + 1 \in 1 .. Len(payload.wire) + 1 /\ b \in 1 .. Len(payload.wire) + 1 /\ a + 1 <= b
    BY <1>1, <1>2
  <2> QED
    BY <2>1, BoundaryMonotonic, BoundaryType
<1>3. /\ Boundary(k) + 8 <= GroupAt(k, g) /\ GroupAt(k, g) + 3 <= Boundary(k + 1)
      /\ Boundary(j) + 8 <= GroupAt(j, h) /\ GroupAt(j, h) + 3 <= Boundary(j + 1)
  BY GroupInMessage
<1>4. GroupAt(k, g) \in Nat /\ GroupAt(j, h) \in Nat
  <2>1. Len(payload.wire[k].groups) \in Nat /\ Len(payload.wire[j].groups) \in Nat
    BY WireGroupsTyped
  <2>2. g \in 1 .. Len(payload.wire[k].groups) + 1 /\ h \in 1 .. Len(payload.wire[j].groups) + 1
    BY <2>1
  <2> QED
    BY <2>2, GroupAtType
<1>5. k = j
  <2>1. ~(k < j)
    BY <1>2, <1>3, <1>4
  <2>2. ~(j < k)
    BY <1>2, <1>3, <1>4
  <2> QED
    BY <1>1, <2>1, <2>2
<1>6. /\ g \in 1 .. Len(payload.wire[k].groups) + 1 /\ h \in 1 .. Len(payload.wire[k].groups) + 1
      /\ g \in Nat /\ h \in Nat
  BY <1>5, WireGroupsTyped
<1>7. ~(g < h) /\ ~(h < g)
  BY <1>4, <1>5, <1>6, GroupAtBefore
<1> QED
  BY <1>5, <1>6, <1>7

(***************************************************************************)
(* What parseType finds.                                                   *)
(***************************************************************************)
(* Whatever is read as a header is one, or zeros.                          *)
LEMMA HeadersAtType ==
  ASSUME Typed, NEW at
  PROVE  HeadersAt(at) \subseteq Headers
<1>1. NoHeader \in Headers
  BY DEF NoHeader, Headers
<1>2. StrayHeaders \subseteq Headers
  BY StrayHeadersAssumption DEF Headers
<1>3. ASSUME NEW k \in DOMAIN payload.wire
      PROVE  [template |-> payload.wire[k].template, block |-> payload.wire[k].block]
               \in Headers
  <2>1. payload.wire[k] \in WireMessages
    BY WireTyped
  <2>2. /\ payload.wire[k].template \in KnownTemplates \cup {"Unknown"}
        /\ payload.wire[k].block \in Nat
    BY <2>1 DEF WireMessages
  <2> QED
    BY <2>2 DEF Headers
<1> QED
  BY <1>1, <1>2, <1>3 DEF HeadersAt

(* A header that is there is the one that is read.                          *)
LEMMA HeadersAtBoundary ==
  ASSUME Typed, NEW k \in 1 .. Len(payload.wire), Fits(Boundary(k), MessageHeaderSize)
  PROVE  HeadersAt(Boundary(k))
           = {[template |-> payload.wire[k].template, block |-> payload.wire[k].block]}
<1> DEFINE here == {j \in DOMAIN payload.wire : Boundary(j) = Boundary(k)}
<1>1. Len(payload.wire) \in Nat /\ DOMAIN payload.wire = 1 .. Len(payload.wire)
  BY WireTyped
<1>2. ASSUME NEW j \in 1 .. Len(payload.wire), Boundary(j) = Boundary(k) PROVE j = k
  <2>1. j \in 1 .. Len(payload.wire) + 1 /\ k \in 1 .. Len(payload.wire) + 1
    BY <1>1
  <2>2. Boundary(j) \in Nat /\ Boundary(k) \in Nat
    BY <2>1, BoundaryType
  <2>3. ~(j < k) /\ ~(k < j)
    BY <1>2, <2>1, <2>2, BoundaryBefore
  <2> QED
    BY <1>1, <2>3
<1>3. here = {k}
  BY <1>1, <1>2
<1>4. HeadersAt(Boundary(k))
        = IF here = {} THEN StrayHeaders
          ELSE {[template |-> payload.wire[j].template,
                 block |-> payload.wire[j].block] : j \in here}
  BY DEF HeadersAt
<1> HIDE DEF here
<1> QED
  BY <1>3, <1>4

(* Whatever is read as a GroupSize is a byte.                              *)
LEMMA CountsAtType ==
  ASSUME Typed, NEW at
  PROVE  CountsAt(at) \subseteq 0 .. 255
<1> DEFINE here(k) == {g \in DOMAIN payload.wire[k].groups : GroupAt(k, g) = at}
           sent == UNION {{payload.wire[k].groups[g].count : g \in here(k)} :
                            k \in DOMAIN payload.wire}
<1>1. sent \subseteq 0 .. 255
  <2>1. ASSUME NEW k \in DOMAIN payload.wire, NEW g \in here(k)
        PROVE  payload.wire[k].groups[g].count \in 0 .. 255
    <3>1. k \in 1 .. Len(payload.wire)
      BY WireTyped
    <3>2. g \in 1 .. Len(payload.wire[k].groups)
      BY <3>1, WireGroupsTyped
    <3> QED
      BY <3>1, <3>2, WireGroupsTyped
  <2> QED
    BY <2>1
<1>2. 0 \in 0 .. 255
  OBVIOUS
<1>3. CountsAt(at) \in {{0}, StrayCounts, sent}
  BY DEF CountsAt
<1> HIDE DEF sent
<1> QED
  BY <1>1, <1>2, <1>3, StrayCountsAssumption

(* So is a GroupSize.                                                       *)
LEMMA CountsAtGroup ==
  ASSUME Typed, NEW k \in 1 .. Len(payload.wire),
         NEW g \in 1 .. Len(payload.wire[k].groups),
         Fits(GroupAt(k, g), GroupSizeSize)
  PROVE  CountsAt(GroupAt(k, g)) = {payload.wire[k].groups[g].count}
<1> DEFINE at == GroupAt(k, g)
           here(j) == {h \in DOMAIN payload.wire[j].groups : GroupAt(j, h) = at}
           sent == UNION {{payload.wire[j].groups[h].count : h \in here(j)} :
                            j \in DOMAIN payload.wire}
<1>1. DOMAIN payload.wire = 1 .. Len(payload.wire)
      /\ DOMAIN payload.wire[k].groups = 1 .. Len(payload.wire[k].groups)
  BY WireTyped, WireGroupsTyped
<1>2. payload.wire[k].groups[g].count \in sent
  BY <1>1
<1>3. ASSUME NEW c \in sent PROVE c = payload.wire[k].groups[g].count
  <2>1. PICK j \in DOMAIN payload.wire : c \in {payload.wire[j].groups[h].count : h \in here(j)}
    BY <1>3
  <2>2. PICK h \in here(j) : c = payload.wire[j].groups[h].count
    BY <2>1
  <2>3. j \in 1 .. Len(payload.wire)
    BY <1>1, <2>1
  <2>4. h \in 1 .. Len(payload.wire[j].groups) /\ GroupAt(j, h) = GroupAt(k, g)
    BY <2>2, <2>3, WireGroupsTyped
  <2>5. j = k /\ h = g
    BY <2>3, <2>4, GroupAtUnique
  <2> QED
    BY <2>2, <2>5
<1>4. CountsAt(at) = IF sent = {} THEN StrayCounts ELSE sent
  BY DEF CountsAt
<1> HIDE DEF sent
<1>5. sent = {payload.wire[k].groups[g].count}
  BY <1>2, <1>3
<1> QED
  BY <1>4, <1>5

(***************************************************************************)
(* The fields of a SecurityDefinition.                                     *)
(***************************************************************************)
(* There are 44 fields, of at most 25 bytes.                               *)
LEMMA FieldSizes ==
  /\ DefinitionFieldSizes \in Seq(Nat) /\ Len(DefinitionFieldSizes) = 44
  /\ \A n \in 1 .. 44 : DefinitionFieldSizes[n] \in 1 .. 25
<1>1. DefinitionFieldSizes \in Seq(1 .. 25) /\ Len(DefinitionFieldSizes) = 44
  BY DEF DefinitionFieldSizes
<1>2. \A n \in 1 .. 44 : DefinitionFieldSizes[n] \in 1 .. 25
  BY <1>1, ElementOfSeq
<1>3. 1 .. 25 \subseteq Nat
  OBVIOUS
<1> QED
  BY <1>1, <1>2, <1>3, SeqMonotonic

(* Either all fields fit, or one that did not was passed over: then less     *)
(* than the largest field is left.                                          *)
LEMMA FieldsEnd ==
  ASSUME Typed, NEW at \in Nat
  PROVE  /\ DefinitionFieldsEnd(at) \in Nat /\ at <= DefinitionFieldsEnd(at)
         /\ DefinitionFieldBytes \in Nat
         /\ \/ /\ DefinitionFieldsEnd(at) = at + DefinitionFieldBytes
               /\ at + DefinitionFieldBytes <= payload.size
            \/ /\ DefinitionFieldsEnd(at) < at + DefinitionFieldBytes
               /\ payload.size < at + DefinitionFieldBytes
               /\ payload.size < DefinitionFieldsEnd(at) + 25
<1> DEFINE V == Nat
           size == payload.size
           field == DefinitionFieldSizes
           pass(from, n) == IF Fits(from, field[n]) THEN from + field[n] ELSE from
           past(n) == [from \in V |-> pass(from, n)]
           step == [vn \in V \X (1 .. 44) |-> pass(vn[1], vn[2])]
           IsEnd(end) == end = [n \in 0 .. 44 |-> IF n = 0 THEN at ELSE past(n)[end[n - 1]]]
           E == CHOOSE end : IsEnd(end)
<1>1. size \in Nat /\ \A n \in 1 .. 44 : field[n] \in 1 .. 25
  BY WireTyped, FieldSizes
<1>2. \A from \in V, n \in 1 .. 44 : pass(from, n) \in V
  BY <1>1 DEF Fits
<1>3. step \in [V \X (1 .. 44) -> V]
  <2> HIDE DEF pass, V
  <2> QED
    BY <1>2
<1>4. 44 \in Nat /\ at \in V
  OBVIOUS
<1>5. PICK f : IsIteration(f, 44, V, at, step)
  <2> HIDE DEF step, V
  <2> QED
    BY <1>3, <1>4, Iteration
<1>6. f \in [0 .. 44 -> V] /\ f[0] = at
      /\ \A n \in 1 .. 44 : f[n] = step[<<f[n - 1], n>>]
  BY <1>5 DEF IsIteration
<1>7. IsEnd(f)
  <2>1. ASSUME NEW n \in 0 .. 44, n # 0 PROVE f[n] = past(n)[f[n - 1]]
    <3>1. n \in 1 .. 44 /\ n - 1 \in 0 .. 44
      BY <2>1
    <3>2. f[n - 1] \in V
      BY <1>6, <3>1
    <3>3. step[<<f[n - 1], n>>] = pass(f[n - 1], n) /\ past(n)[f[n - 1]] = pass(f[n - 1], n)
      <4> HIDE DEF pass, V
      <4> QED
        BY <3>1, <3>2
    <3> HIDE DEF step, past
    <3> QED
      BY <1>6, <3>1, <3>3
  <2>2. f = [n \in 0 .. 44 |-> f[n]]
    BY <1>6
  <2> HIDE DEF past, step
  <2> QED
    BY <1>6, <2>1, <2>2
<1>8. IsEnd(E)
  <2> HIDE DEF IsEnd
  <2> QED
    BY <1>7
<1>9. DefinitionFieldsEnd(at) = E[44]
  BY FieldSizes DEF DefinitionFieldsEnd
<1> HIDE DEF E
<1>10. E[0] = at /\ \A n \in 1 .. 44 : E[n] = past(n)[E[n - 1]]
  <2> HIDE DEF past
  <2>1. \A n \in 1 .. 44 : n \in 0 .. 44 /\ n # 0
    OBVIOUS
  <2>2. 0 \in 0 .. 44
    OBVIOUS
  <2> QED
    BY <1>8, <2>1, <2>2
<1>11. PICK p \in [0 .. 44 -> Nat] :
         TotalUpTo(field, p) /\ DefinitionFieldBytes = p[44]
  BY FieldSizes, TotalDef DEF DefinitionFieldBytes
<1>12. p[0] = 0 /\ \A n \in 1 .. 44 : p[n] = p[n - 1] + field[n]
  <2>1. p = [n \in 0 .. 44 |-> IF n = 0 THEN 0 ELSE p[n - 1] + field[n]]
    BY <1>11, FieldSizes DEF TotalUpTo
  <2> HIDE DEF field
  <2> QED
    BY <2>1
<1> DEFINE AllFit(n) == E[n] = at + p[n] /\ (n > 0 => at + p[n] <= size)
           Skipped(n) == /\ n > 0 /\ at <= E[n]
                         /\ E[n] < at + p[n] /\ size < at + p[n] /\ size < E[n] + 25
           S == {n \in 0 .. 44 : E[n] \in Nat /\ (AllFit(n) \/ Skipped(n))}
<1>13. 0 \in S
  <2>1. E[0] \in Nat /\ E[0] = at + p[0] /\ 0 \in 0 .. 44
    BY <1>10, <1>12
  <2>2. AllFit(0)
    BY <2>1
  <2> HIDE DEF AllFit, Skipped
  <2> QED
    BY <2>1, <2>2
<1>14. ASSUME NEW n \in 1 .. 44, n - 1 \in S PROVE n \in S
  <2>1. E[n - 1] \in Nat /\ (AllFit(n - 1) \/ Skipped(n - 1))
    <3> HIDE DEF AllFit, Skipped
    <3> QED
      BY <1>14
  <2>5. n \in 0 .. 44 /\ n - 1 \in 0 .. 44
    OBVIOUS
  <2>6. p[n - 1] \in Nat /\ p[n] = p[n - 1] + field[n] /\ field[n] \in 1 .. 25
    <3> HIDE DEF field
    <3> QED
      BY <1>1, <1>11, <1>12, <2>5
  <2>2. E[n] = pass(E[n - 1], n)
    <3>1. E[n - 1] \in V
      BY <2>1
    <3>2. past(n)[E[n - 1]] = pass(E[n - 1], n)
      <4> HIDE DEF pass, V
      <4> QED
        BY <3>1
    <3> HIDE DEF pass, past
    <3> QED
      BY <1>10, <3>2
  <2> DEFINE e == E[n - 1]
             q == p[n - 1]
             s == field[n]
  <2>3. e \in Nat /\ q \in Nat /\ s \in Nat /\ s \in 1 .. 25 /\ p[n] = q + s
        /\ E[n] = (IF e + s <= size THEN e + s ELSE e)
        /\ \/ e = at + q /\ (n - 1 > 0 => at + q <= size)
           \/ at <= e /\ e < at + q /\ size < at + q /\ size < e + 25
    <3>1. s \in Nat /\ s \in 1 .. 25
      BY <2>6
    <3>2. E[n] = (IF e + s <= size THEN e + s ELSE e)
      BY <2>2 DEF Fits
    <3>3. \/ e = at + q /\ (n - 1 > 0 => at + q <= size)
          \/ at <= e /\ e < at + q /\ size < at + q /\ size < e + 25
      BY <2>1
    <3> HIDE DEF e, q, s, size
    <3> QED
      BY <2>1, <2>6, <3>1, <3>2, <3>3 DEF e, q, s
  <2> HIDE DEF e, q, s, size
  <2>4. E[n] \in Nat /\ (AllFit(n) \/ Skipped(n))
    BY <1>1, <2>3
  <2> HIDE DEF AllFit, Skipped
  <2> QED
    BY <2>4, <2>5
<1> HIDE DEF S
<1>15. 44 \in S
  <2>1. 0 .. 44 \subseteq S
    BY <1>4, <1>13, <1>14, BoundedInduction
  <2> QED
    BY <2>1
<1>16. E[44] \in Nat /\ (AllFit(44) \/ Skipped(44)) /\ p[44] \in Nat
  BY <1>11, <1>15 DEF S
<1>17. /\ E[44] \in Nat /\ at <= E[44] /\ p[44] \in Nat
       /\ \/ E[44] = at + p[44] /\ at + p[44] <= size
          \/ E[44] < at + p[44] /\ size < at + p[44] /\ size < E[44] + 25
  BY <1>16
<1> QED
  BY <1>9, <1>11, <1>17

(***************************************************************************)
(* The types.                                                              *)
(***************************************************************************)
(* The messages that are copied in one piece have a size.                  *)
LEMMA FixedSizes ==
  /\ FixedTemplates = {"OrderUpdate", "OrderExecution", "SecurityDefinitionUpdateReport",
                       "SecurityStatus", "SequenceReset", "TradingSessionStatus"}
  /\ \A t \in FixedTemplates : StructSize[t] \in Nat /\ StructSize[t] > 0
BY DEF FixedTemplates, StructSize, OrderUpdateSize, OrderExecutionSize,
       SecurityDefinitionUpdateReportSize, SecurityStatusSize, SequenceResetSize,
       TradingSessionStatusSize

(* The type of a decoded message.                                          *)
LEMMA DecodedType ==
  ASSUME NEW ts, NEW t \in ts, NEW at \in Nat, NEW counts \in Seq(Nat),
         NEW entries \in Seq(Nat), NEW intact \in BOOLEAN
  PROVE  Decoded(t, at, counts, entries, intact) \in DecodedOf(ts)
BY DEF Decoded, DecodedOf

(* The entries of each group have a size.                                  *)
LEMMA EntrySizes ==
  Len(DefinitionEntrySizes) = 5 /\ \A g \in 1 .. 5 : DefinitionEntrySizes[g] \in Nat
BY DEF DefinitionEntrySizes

(* decode() starts with all its variables typed.                           *)
LEMMA TypedInit == Init => Typed
<1> SUFFICES ASSUME Init PROVE Typed
  OBVIOUS
<1>1. PICK incremental \in BOOLEAN, wire \in Wires :
        \E size \in 0 .. HeaderBytes(incremental) + MessagesBytes(wire) :
          payload = [incremental |-> incremental, wire |-> wire, size |-> size]
  BY DEF Init
<1>2. PICK size \in 0 .. HeaderBytes(incremental) + MessagesBytes(wire) :
        payload = [incremental |-> incremental, wire |-> wire, size |-> size]
  BY <1>1
<1>3. wire \in Seq(WireMessages)
  BY WiresAssumption
<1>4. HeaderBytes(incremental) + MessagesBytes(wire) \in Nat
  BY <1>3, MessagesBytesType
  DEF HeaderBytes, MarketDataPacketHeaderSize, IncrementalPacketHeaderSize
<1>5. size \in Nat
  BY <1>4
<1>6. payload \in [incremental : BOOLEAN, wire : Wires, size : Nat]
  BY <1>2, <1>5
<1>7. NoHeader \in Headers
  BY DEF NoHeader, Headers
<1>8. NoDefinition \in DecodedOf({"SecurityDefinition", "Zero"})
      /\ Len(NoDefinition.counts) = 0 /\ Len(NoDefinition.entries) = 0
  <2>1. <<>> \in Seq(Nat)
    OBVIOUS
  <2> QED
    BY <2>1, DecodedType DEF NoDefinition, Decoded
<1>9. <<>> \in Seq(DecodedOf(KnownTemplates))
  OBVIOUS
<1> QED
  BY <1>6, <1>7, <1>8, <1>9 DEF Init, Typed

(* A message of a fixed size, or a snapshot, is added.                      *)
LEMMA MessageAdded ==
  ASSUME Typed, NEW t \in KnownTemplates, NEW at \in Nat, NEW counts \in Seq(Nat),
         NEW intact \in BOOLEAN
  PROVE  Append(messages, Decoded(t, at, counts, counts, intact))
           \in Seq(DecodedOf(KnownTemplates))
<1>1. Decoded(t, at, counts, counts, intact) \in DecodedOf(KnownTemplates)
  BY DecodedType
<1>2. messages \in Seq(DecodedOf(KnownTemplates))
  BY DEF Typed
<1> QED
  BY <1>1, <1>2

(* Parsing a message of a fixed size keeps the types.                      *)
LEMMA TypedParseFixed == ASSUME Typed, ParseFixed PROVE Typed'
<1>1. header.template \in FixedTemplates /\ header.template \in KnownTemplates
      /\ StructSize[header.template] \in Nat
  BY FixedSizes DEF ParseFixed, KnownTemplates
<1>2. offset \in Nat /\ <<>> \in Seq(Nat)
  BY DEF Typed
<1>3. offset' \in Nat
  BY <1>1, <1>2 DEF ParseFixed
<1>4. messages' \in Seq(DecodedOf(KnownTemplates))
  <2> DEFINE intact == Fits(offset, StructSize[header.template])
  <2>1. intact \in BOOLEAN
    BY DEF Fits
  <2>2. messages' = Append(messages, Decoded(header.template, offset, <<>>, <<>>, intact))
    BY DEF ParseFixed
  <2> HIDE DEF intact
  <2> QED
    BY <1>1, <1>2, <2>1, <2>2, MessageAdded
<1> QED
  BY <1>3, <1>4 DEF Typed, ParseFixed, EndRound

(* So does parsing a snapshot.                                             *)
LEMMA TypedParseOrderBookSnapshot == ASSUME Typed, ParseOrderBookSnapshot PROVE Typed'
<1>1. PICK n \in CountsAt(offset + SnapshotBaseSize) :
        /\ offset' = VectorEnd(offset + SnapshotBaseSize + GroupSizeSize,
                               n, SnapshotEntrySize)
        /\ messages' = Append(messages,
             Decoded(header.template, offset, <<n>>, <<n>>, offset' <= payload.size))
  BY DEF ParseOrderBookSnapshot
<1>2. n \in Nat
  <2>1. n \in 0 .. 255
    BY CountsAtType
  <2> QED
    BY <2>1
<1>3. header.template \in KnownTemplates /\ offset \in Nat /\ <<n>> \in Seq(Nat)
  BY <1>2 DEF ParseOrderBookSnapshot, KnownTemplates, Typed
<1>4. offset' \in Nat
  BY <1>1, <1>2, <1>3
  DEF VectorEnd, SnapshotBaseSize, GroupSizeSize, SnapshotEntrySize
<1>5. messages' \in Seq(DecodedOf(KnownTemplates))
  <2> DEFINE intact == offset' <= payload.size
  <2>1. intact \in BOOLEAN
    OBVIOUS
  <2> HIDE DEF intact
  <2> QED
    BY <1>1, <1>3, <2>1, MessageAdded DEF intact
<1> QED
  BY <1>4, <1>5 DEF Typed, ParseOrderBookSnapshot, EndRound

(* So does parsing the fields of a SecurityDefinition,                     *)
LEMMA TypedParseDefinitionFields == ASSUME Typed, ParseDefinitionFields PROVE Typed'
<1>1. offset \in Nat /\ <<>> \in Seq(Nat) /\ Len(<<>>) = 0
  BY DEF Typed
<1>2. offset' \in Nat
  BY <1>1, FieldsEnd DEF ParseDefinitionFields
<1>3. definition' = Decoded("SecurityDefinition", offset, <<>>, <<>>,
                            offset' = offset + DefinitionFieldBytes)
  BY DEF ParseDefinitionFields
<1>4. /\ definition' \in DecodedOf({"SecurityDefinition", "Zero"})
      /\ definition'.counts = <<>> /\ definition'.entries = <<>>
      /\ definition'.template = "SecurityDefinition"
  <2> DEFINE intact == offset' = offset + DefinitionFieldBytes
  <2>1. intact \in BOOLEAN
    OBVIOUS
  <2> HIDE DEF intact
  <2>2. definition' = Decoded("SecurityDefinition", offset, <<>>, <<>>, intact)
    BY <1>3 DEF intact
  <2>3. Decoded("SecurityDefinition", offset, <<>>, <<>>, intact)
          \in DecodedOf({"SecurityDefinition", "Zero"})
    BY <1>1, <2>1, DecodedType
  <2>4. definition'.counts = <<>> /\ definition'.entries = <<>>
        /\ definition'.template = "SecurityDefinition"
    BY <2>2 DEF Decoded
  <2> QED
    BY <2>2, <2>3, <2>4
<1> QED
  BY <1>1, <1>2, <1>4 DEF Typed, ParseDefinitionFields

(* What parsing a group does.                                               *)
LEMMA GroupParsed ==
  ASSUME Typed, ParseDefinitionGroup
  PROVE  \E n \in CountsAt(offset) :
           LET g == Len(definition.counts) + 1
               length == IF g <= 2 THEN n ELSE definition.counts[1]
           IN  /\ g \in 1 .. 5 /\ n \in Nat /\ length \in Nat
               /\ (g = 1 => length = n)
               /\ definition' = [definition EXCEPT !.counts = Append(@, n),
                                                   !.entries = Append(@, length)]
               /\ offset' = offset + 3 + length * DefinitionEntrySizes[g]
               /\ DefinitionEntrySizes[g] \in Nat
               /\ offset' \in Nat /\ offset + 3 <= offset'
               /\ pc' = IF g = 5 THEN "strings" ELSE "groups"
<1> DEFINE g == Len(definition.counts) + 1
           counts(n) == Append(definition.counts, n)
           len(n) == IF g <= 2 THEN counts(n)[g] ELSE counts(n)[1]
           length(n) == IF g <= 2 THEN n ELSE definition.counts[1]
<1>1. PICK n \in CountsAt(offset) :
        /\ definition' = [definition EXCEPT !.counts = counts(n),
                                            !.entries = Append(@, len(n))]
        /\ offset' = VectorEnd(offset + GroupSizeSize, len(n), DefinitionEntrySizes[g])
        /\ pc' = IF g = 5 THEN "strings" ELSE "groups"
  BY DEF ParseDefinitionGroup
<1>2. n \in Nat
  <2>1. n \in 0 .. 255
    BY CountsAtType
  <2> QED
    BY <2>1
<1>3. /\ definition.counts \in Seq(Nat) /\ Len(definition.counts) <= 4
      /\ definition \in DecodedOf({"SecurityDefinition", "Zero"}) /\ offset \in Nat
  BY DEF ParseDefinitionGroup, Typed, DecodedOf
<1>4. g \in 1 .. 5
  BY <1>3
<1>5. len(n) = length(n) /\ length(n) \in Nat
  BY <1>2, <1>3, <1>4
<1>6. DefinitionEntrySizes[g] \in Nat
  BY <1>4, EntrySizes
<1>7. definition' = [definition EXCEPT !.counts = Append(@, n),
                                       !.entries = Append(@, length(n))]
  <2> HIDE DEF len, length, g
  <2> QED
    BY <1>1, <1>5
<1>8. length(n) * DefinitionEntrySizes[g] \in Nat
  BY <1>5, <1>6
<1>9. /\ offset' = offset + 3 + length(n) * DefinitionEntrySizes[g]
      /\ offset' \in Nat /\ offset + 3 <= offset'
  <2> HIDE DEF len, length, g
  <2> QED
    BY <1>1, <1>3, <1>5, <1>8 DEF VectorEnd, GroupSizeSize
<1>10. g = 1 => length(n) = n
  OBVIOUS
<1> QED
  BY <1>1, <1>2, <1>4, <1>5, <1>6, <1>7, <1>9, <1>10

(* each of its groups                                                      *)
LEMMA TypedParseDefinitionGroup == ASSUME Typed, ParseDefinitionGroup PROVE Typed'
<1> DEFINE g == Len(definition.counts) + 1
           length(n) == IF g <= 2 THEN n ELSE definition.counts[1]
<1>1. PICK n \in CountsAt(offset) :
        /\ g \in 1 .. 5 /\ n \in Nat /\ length(n) \in Nat
        /\ definition' = [definition EXCEPT !.counts = Append(@, n),
                                            !.entries = Append(@, length(n))]
        /\ offset' \in Nat
        /\ pc' = IF g = 5 THEN "strings" ELSE "groups"
  BY GroupParsed
<1>2. /\ definition \in DecodedOf({"SecurityDefinition", "Zero"})
      /\ definition.counts \in Seq(Nat) /\ definition.entries \in Seq(Nat)
      /\ Len(definition.entries) = Len(definition.counts)
      /\ definition.template = "SecurityDefinition"
  BY DEF ParseDefinitionGroup, Typed, DecodedOf
<1>3. /\ Append(definition.counts, n) \in Seq(Nat)
      /\ Append(definition.entries, length(n)) \in Seq(Nat)
      /\ Len(Append(definition.counts, n)) = g
      /\ Len(Append(definition.entries, length(n))) = g
  BY <1>1, <1>2
<1>4. definition' \in DecodedOf({"SecurityDefinition", "Zero"})
  BY <1>1, <1>2, <1>3 DEF DecodedOf
<1>5. /\ definition'.counts = Append(definition.counts, n)
      /\ definition'.entries = Append(definition.entries, length(n))
      /\ definition'.template = definition.template
  BY <1>1, <1>2 DEF DecodedOf
<1>6. /\ Len(definition'.entries) = Len(definition'.counts)
      /\ Len(definition'.counts) <= 5
      /\ pc' = "groups" => Len(definition'.counts) <= 4
      /\ pc' = "strings" => Len(definition'.counts) = 5
      /\ definition'.template = "SecurityDefinition"
      /\ pc' \in {"groups", "strings"}
  <2>1. /\ Len(definition'.counts) = g /\ Len(definition'.entries) = g
        /\ definition'.template = "SecurityDefinition"
    <3> HIDE DEF g, length
    <3> QED
      BY <1>2, <1>3, <1>5
  <2>2. g \in 1 .. 5 /\ pc' = IF g = 5 THEN "strings" ELSE "groups"
    BY <1>1
  <2> HIDE DEF g
  <2> QED
    BY <2>1, <2>2
<1> QED
  BY <1>1, <1>4, <1>6 DEF Typed, ParseDefinitionGroup

(* and its strings.                                                        *)
LEMMA TypedParseDefinitionStrings == ASSUME Typed, ParseDefinitionStrings PROVE Typed'
<1>1. offset' = offset + 24 /\ offset \in Nat
  BY DEF ParseDefinitionStrings, Typed, StringLengthSize, StringStructSize
<1>2. messages' = Append(messages, [definition EXCEPT !.intact = @ /\ offset' <= payload.size])
  BY DEF ParseDefinitionStrings
<1>3. definition \in DecodedOf({"SecurityDefinition", "Zero"})
      /\ definition.template = "SecurityDefinition"
  BY DEF ParseDefinitionStrings, Typed
<1>4. [definition EXCEPT !.intact = @ /\ offset' <= payload.size]
        \in DecodedOf(KnownTemplates)
  BY <1>3 DEF DecodedOf, KnownTemplates
<1>5. messages' \in Seq(DecodedOf(KnownTemplates))
  BY <1>2, <1>4 DEF Typed
<1> QED
  BY <1>1, <1>5 DEF Typed, ParseDefinitionStrings, EndRound

(* Every step keeps the types.                                             *)
LEMMA TypedStep ==
  ASSUME Typed, [Next]_vars
  PROVE  Typed'
<1>1. CASE ParsePacketHeader
  <2>1. offset' \in Nat
    BY <1>1 DEF ParsePacketHeader, Typed, MarketDataPacketHeaderSize
  <2> QED
    BY <1>1, <2>1 DEF ParsePacketHeader, Typed
<1>2. CASE ParseIncrementalHeader
  <2>1. offset' \in Nat
    BY <1>2 DEF ParseIncrementalHeader, Typed, IncrementalPacketHeaderSize
  <2> QED
    BY <1>2, <2>1 DEF ParseIncrementalHeader, Typed
<1>3. CASE ParseMessageHeader
  <2>1. header' \in Headers
    BY <1>3, HeadersAtType DEF ParseMessageHeader
  <2>2. offset' \in Nat
    BY <1>3 DEF ParseMessageHeader, Typed, MessageHeaderSize
  <2> QED
    BY <1>3, <2>1, <2>2 DEF ParseMessageHeader, Typed
<1>4. CASE ParseFixed
  BY <1>4, TypedParseFixed
<1>5. CASE ParseOrderBookSnapshot
  BY <1>5, TypedParseOrderBookSnapshot
<1>6. CASE ParseDefinitionFields
  BY <1>6, TypedParseDefinitionFields
<1>7. CASE ParseDefinitionGroup
  BY <1>7, TypedParseDefinitionGroup
<1>8. CASE ParseDefinitionStrings
  BY <1>8, TypedParseDefinitionStrings
<1>9. CASE SkipUnknown
  <2>1. header.block \in Nat /\ offset \in Nat
    BY DEF Typed, Headers
  <2>2. offset' \in Nat
    BY <1>9, <2>1 DEF SkipUnknown, BlockEnd
  <2> QED
    BY <1>9, <2>2 DEF SkipUnknown, EndRound, Typed
<1>10. CASE Return
  BY <1>10 DEF Return, Typed
<1>11. CASE Returned \/ UNCHANGED vars
  BY <1>11 DEF Returned, vars, Typed
<1> QED
  BY <1>1, <1>2, <1>3, <1>4, <1>5, <1>6, <1>7, <1>8, <1>9, <1>10, <1>11 DEF Next

(* decode() finds all its variables typed.                                  *)
THEOREM TypeCorrect == Spec => []TypeOK
<1>1. Typed /\ [Next]_vars => Typed'
  BY TypedStep
<1>2. Typed => TypeOK
  <2> SUFFICES ASSUME Typed PROVE TypeOK
    OBVIOUS
  <2>1. ASSUME NEW k \in DOMAIN messages PROVE messages[k].template \in KnownTemplates
    <3>1. messages[k] \in DecodedOf(KnownTemplates)
      BY DEF Typed
    <3> QED
      BY <3>1 DEF DecodedOf
  <2>2. Len(definition.counts) \in 0 .. 5
    <3>1. definition \in DecodedOf({"SecurityDefinition", "Zero"})
          /\ Len(definition.counts) <= 5
      BY DEF Typed
    <3>2. definition.counts \in Seq(Nat)
      BY <3>1 DEF DecodedOf
    <3>3. Len(definition.counts) \in Nat
      BY <3>2, LenProperties
    <3> DEFINE g == Len(definition.counts)
    <3>4. g \in Nat /\ g <= 5
      BY <3>1, <3>3
    <3> HIDE DEF g
    <3>5. g \in 0 .. 5
      BY <3>4
    <3> QED
      BY <3>5 DEF g
  <2>3. {header.template, messageHeader.template}
          \subseteq KnownTemplates \cup {"Unknown", "Zero"}
    BY DEF Typed, Headers
  <2>4. payload.wire \in Wires /\ payload.size \in Nat
    BY DEF Typed
  <2>5. /\ pc \in {"packet", "incremental", "loop", "message", "groups", "strings", "done"}
        /\ offset \in Nat /\ Len(definition.entries) = Len(definition.counts)
    BY DEF Typed
  <2> QED
    BY <2>1, <2>2, <2>3, <2>4, <2>5 DEF TypeOK
<1> QED
  BY TypedInit, <1>1, <1>2, PTL DEF Spec

(***************************************************************************)
(* Only the last message is incomplete.                                    *)
(***************************************************************************)
(* Nothing decoded, nothing incomplete.                                    *)
LEMMA CompletenessInit == Init => Completeness
BY DEF Init, Completeness, OnlyLastMessageIncomplete

(* A message is added behind intact ones.                                   *)
LEMMA AddedAfterIntact ==
  ASSUME Typed, Completeness, pc \in {"message", "groups", "strings"},
         NEW d, d \in DecodedOf(KnownTemplates), messages' = Append(messages, d), pc' = "loop",
         ~d.intact => offset' >= payload'.size
  PROVE  Completeness'
<1>1. messages \in Seq(DecodedOf(KnownTemplates)) /\ Len(messages) \in Nat
  BY DEF Typed
<1>2. /\ Len(messages') = Len(messages) + 1 /\ messages'[Len(messages')] = d
      /\ \A k \in 1 .. Len(messages) : messages'[k] = messages[k]
  BY <1>1
<1>3. ASSUME NEW k \in 1 .. Len(messages) PROVE messages[k].intact
  <2>1. CASE k = Len(messages)
    <3>1. messages # <<>>
      BY <2>1
    <3> QED
      BY <2>1, <3>1 DEF Completeness, Last
  <2>2. CASE k # Len(messages)
    <3>1. k \in 1 .. Len(messages) - 1
      BY <1>1, <2>2
    <3> QED
      BY <3>1 DEF Completeness, OnlyLastMessageIncomplete
  <2> QED
    BY <2>1, <2>2
<1>4. \A k \in 1 .. Len(messages') - 1 : messages'[k].intact
  <2>1. \A k \in 1 .. Len(messages') - 1 : k \in 1 .. Len(messages)
    BY <1>1, <1>2
  <2> QED
    BY <1>2, <1>3, <2>1
<1> QED
  BY <1>2, <1>4 DEF Completeness, OnlyLastMessageIncomplete, Last

(* Every step keeps incomplete messages last.                              *)
LEMMA CompletenessStep ==
  ASSUME Typed, Completeness, [Next]_vars
  PROVE  Completeness'
<1>0. offset \in Nat /\ payload.size \in Nat
  BY WireTyped DEF Typed
<1>1. CASE ParsePacketHeader
  BY <1>0, <1>1 DEF ParsePacketHeader, Completeness, OnlyLastMessageIncomplete
<1>2. CASE ParseIncrementalHeader
  BY <1>0, <1>2 DEF ParseIncrementalHeader, Completeness, OnlyLastMessageIncomplete
<1>3. CASE ParseMessageHeader
  BY <1>0, <1>3 DEF ParseMessageHeader, Completeness, OnlyLastMessageIncomplete
<1>4. CASE ParseFixed
  <2> DEFINE n == StructSize[header.template]
             d == Decoded(header.template, offset, <<>>, <<>>, Fits(offset, n))
  <2>1. n \in Nat /\ header.template \in KnownTemplates
    BY <1>4, FixedSizes DEF ParseFixed, KnownTemplates
  <2>2. d \in DecodedOf(KnownTemplates)
    <3>1. Fits(offset, n) \in BOOLEAN /\ <<>> \in Seq(Nat)
      BY DEF Fits
    <3> QED
      BY <1>0, <2>1, <3>1, DecodedType
  <2>3. /\ pc = "message" /\ messages' = Append(messages, d) /\ pc' = "loop"
        /\ offset' = offset + n /\ payload' = payload
    BY <1>4 DEF ParseFixed, EndRound
  <2>4. ~d.intact => offset' >= payload'.size
    <3>1. d.intact = (offset + n <= payload.size)
      BY DEF Decoded, Fits
    <3> HIDE DEF d, n
    <3>2. ~(offset + n <= payload.size) => offset + n >= payload.size
      BY <1>0, <2>1
    <3> QED
      BY <2>3, <3>1, <3>2
  <2> HIDE DEF d
  <2> QED
    BY <2>2, <2>3, <2>4, AddedAfterIntact
<1>5. CASE ParseOrderBookSnapshot
  <2>1. PICK n \in CountsAt(offset + SnapshotBaseSize) :
          messages' = Append(messages,
            Decoded(header.template, offset, <<n>>, <<n>>, offset' <= payload.size))
    BY <1>5 DEF ParseOrderBookSnapshot
  <2> DEFINE d == Decoded(header.template, offset, <<n>>, <<n>>, offset' <= payload.size)
  <2>2. n \in Nat
    <3>1. n \in 0 .. 255
      BY CountsAtType
    <3> QED
      BY <3>1
  <2>3. d \in DecodedOf(KnownTemplates)
    <3>1. <<n>> \in Seq(Nat) /\ header.template \in KnownTemplates
      BY <1>5, <2>2 DEF ParseOrderBookSnapshot, KnownTemplates
    <3>2. (offset' <= payload.size) \in BOOLEAN
      OBVIOUS
    <3> QED
      BY <1>0, <3>1, <3>2, DecodedType
  <2>4. /\ pc = "message" /\ pc' = "loop" /\ payload' = payload
    BY <1>5 DEF ParseOrderBookSnapshot, EndRound
  <2>5. offset' \in Nat
    BY <1>5, TypedParseOrderBookSnapshot DEF Typed
  <2>6. ~d.intact => offset' >= payload'.size
    <3>1. d.intact = (offset' <= payload.size)
      BY DEF Decoded
    <3> HIDE DEF d
    <3>2. ~(offset' <= payload.size) => offset' >= payload.size
      BY <1>0, <2>5
    <3> QED
      BY <2>4, <3>1, <3>2
  <2> HIDE DEF d
  <2> QED
    BY <2>1, <2>3, <2>4, <2>6, AddedAfterIntact DEF d
<1>6. CASE ParseDefinitionFields
  <2>1. /\ pc = "message" /\ pc' = "groups" /\ payload' = payload /\ messages' = messages
        /\ definition'.counts = <<>>
        /\ definition'.intact = (offset' = offset + DefinitionFieldBytes)
        /\ offset' = DefinitionFieldsEnd(offset)
    BY <1>6 DEF ParseDefinitionFields, Decoded
  <2>2. offset' # offset + DefinitionFieldBytes => payload.size < offset' + 25
    BY <1>0, <2>1, FieldsEnd
  <2>3. Len(definition'.counts) = 0
    BY <2>1
  <2>4. ~(messages # <<>> /\ ~Last(messages).intact) /\ OnlyLastMessageIncomplete
    BY <2>1 DEF Completeness
  <2>5. ~definition'.intact => payload'.size + 3 * Len(definition'.counts) < offset' + 25
    <3>1. offset' \in Nat
      BY <1>0, <2>1, FieldsEnd
    <3>2. ~definition'.intact => payload.size < offset' + 25
      BY <2>1, <2>2
    <3>3. payload.size + 3 * 0 = payload.size
      BY <1>0
    <3> QED
      BY <2>1, <2>3, <3>2, <3>3
  <2> QED
    BY <2>1, <2>4, <2>5 DEF Completeness, OnlyLastMessageIncomplete, GroupSizeSize
<1>7. CASE ParseDefinitionGroup
  <2> DEFINE g == Len(definition.counts) + 1
             length(n) == IF g <= 2 THEN n ELSE definition.counts[1]
  <2>1. PICK n \in CountsAt(offset) :
          /\ g \in 1 .. 5 /\ n \in Nat
          /\ definition' = [definition EXCEPT !.counts = Append(@, n),
                                              !.entries = Append(@, length(n))]
          /\ offset' \in Nat /\ offset + 3 <= offset'
    BY <1>7, GroupParsed
  <2>2. /\ pc = "groups" /\ payload' = payload /\ messages' = messages
    BY <1>7 DEF ParseDefinitionGroup
  <2>3. definition \in DecodedOf({"SecurityDefinition", "Zero"})
        /\ definition.counts \in Seq(Nat)
    BY DEF Typed, DecodedOf
  <2>4. definition'.intact = definition.intact /\ definition'.counts = Append(definition.counts, n)
    BY <2>1, <2>3 DEF DecodedOf
  <2>5. Len(definition'.counts) = Len(definition.counts) + 1 /\ Len(definition.counts) \in Nat
    BY <2>1, <2>3, <2>4
  <2>6. ~(messages # <<>> /\ ~Last(messages).intact) /\ OnlyLastMessageIncomplete
    BY <2>2 DEF Completeness
  <2>7. ~definition.intact => payload.size + 3 * Len(definition.counts) < offset + 25
    BY <2>2 DEF Completeness, GroupSizeSize
  <2>8. ~definition'.intact => payload'.size + 3 * Len(definition'.counts) < offset' + 25
    BY <1>0, <2>1, <2>2, <2>4, <2>5, <2>7
  <2> QED
    BY <2>2, <2>6, <2>8 DEF Completeness, OnlyLastMessageIncomplete, GroupSizeSize
<1>8. CASE ParseDefinitionStrings
  <2> DEFINE d == [definition EXCEPT !.intact = @ /\ offset' <= payload.size]
  <2>1. /\ pc = "strings" /\ pc' = "loop" /\ payload' = payload
        /\ messages' = Append(messages, d)
        /\ offset' = offset + 24
    BY <1>0, <1>8 DEF ParseDefinitionStrings, EndRound, StringLengthSize, StringStructSize
  <2>2. definition \in DecodedOf({"SecurityDefinition", "Zero"})
        /\ definition.template = "SecurityDefinition" /\ Len(definition.counts) = 5
    BY <2>1 DEF Typed
  <2>3. d \in DecodedOf(KnownTemplates)
    BY <2>2 DEF DecodedOf, KnownTemplates
  <2>4. d.intact = (definition.intact /\ offset' <= payload.size)
    BY <2>2 DEF DecodedOf
  <2>5. ~definition.intact => payload.size + 15 < offset + 25
    BY <2>1, <2>2 DEF Completeness, GroupSizeSize
  <2>6. ~d.intact => offset' >= payload'.size
    <3>1. definition.intact \in BOOLEAN
      BY <2>2 DEF DecodedOf
    <3>2. offset' \in Nat
      BY <1>0, <2>1
    <3> HIDE DEF d
    <3>3. ~definition.intact => offset' >= payload'.size
      BY <1>0, <2>1, <2>5
    <3>4. ~(offset' <= payload.size) => offset' >= payload'.size
      BY <1>0, <2>1, <3>2
    <3> QED
      BY <2>4, <3>3, <3>4
  <2> HIDE DEF d
  <2> QED
    BY <2>1, <2>3, <2>6, AddedAfterIntact
<1>9. CASE SkipUnknown
  BY <1>9 DEF SkipUnknown, EndRound, Completeness, OnlyLastMessageIncomplete
<1>10. CASE Return
  BY <1>10 DEF Return, Completeness, OnlyLastMessageIncomplete
<1>11. CASE Returned \/ UNCHANGED vars
  BY <1>11 DEF Returned, vars, Completeness, OnlyLastMessageIncomplete
<1> QED
  BY <1>1, <1>2, <1>3, <1>4, <1>5, <1>6, <1>7, <1>8, <1>9, <1>10, <1>11 DEF Next

(* Only the last message decoded can have been made up in part from bytes   *)
(* beyond the end of the payload: every field passed over leaves less than  *)
(* is then advanced.                                                       *)
THEOREM OnlyLastMessageIncompleteAlways == Spec => []OnlyLastMessageIncomplete
<1>1. Typed /\ Completeness /\ [Next]_vars => (Typed /\ Completeness)'
  BY TypedStep, CompletenessStep
<1>2. Completeness => OnlyLastMessageIncomplete
  BY DEF Completeness
<1> QED
  BY TypedInit, CompletenessInit, <1>1, <1>2, PTL DEF Spec

(***************************************************************************)
(* The decoder is where the sender is, or the payload is cut, or a message  *)
(* is not what the code describes.                                         *)
(***************************************************************************)
(* No step changes what the sender laid out.                                *)
LEMMA SamePayload ==
  ASSUME payload' = payload
  PROVE  /\ \A k : Boundary(k)' = Boundary(k)
         /\ \A k, g : GroupAt(k, g)' = GroupAt(k, g)
         /\ \A n : DescribedUpTo(n)' = DescribedUpTo(n)
         /\ Due' = Due
<1>1. \A k : Boundary(k)' = Boundary(k)
  BY DEF Boundary
<1>2. \A k, g : GroupAt(k, g)' = GroupAt(k, g)
  BY <1>1 DEF GroupAt
<1>3. \A n : DescribedUpTo(n)' = DescribedUpTo(n)
  BY DEF DescribedUpTo
<1>4. \A k : AsSent(k)' = AsSent(k)
  BY <1>1 DEF AsSent
<1>5. Due' = Due
  BY <1>4 DEF Due
<1> QED
  BY <1>1, <1>2, <1>3, <1>5

(* A message added is decoded in full or is not among those decoded in full. *)
LEMMA IntactGrows ==
  ASSUME Typed, NEW d \in DecodedOf(KnownTemplates), messages' = Append(messages, d)
  PROVE  Intact' = IF d.intact THEN Append(Intact, d) ELSE Intact
<1> DEFINE T == DecodedOf(KnownTemplates)
           s == messages
           t == Append(messages, d)
           keepS == [j \in DOMAIN s |-> s[j].intact]
           keepT == [j \in DOMAIN t |-> t[j].intact]
           N == Len(s)
<1>1. s \in Seq(T) /\ N \in Nat
  BY DEF Typed
<1>2. /\ t \in Seq(T) /\ Len(t) = N + 1 /\ t[N + 1] = d
      /\ \A j \in 1 .. N : t[j] = s[j]
  BY <1>1
<1>3. Intact = Kept(s, keepS)[N] /\ Intact' = Kept(t, keepT)[Len(t)]
  BY DEF Intact
<1>4. \A j \in 1 .. N : keepT[j] = keepS[j]
  BY <1>1, <1>2
<1>5. keepT[N + 1] = d.intact
  BY <1>1, <1>2
<1> HIDE DEF t, keepS, keepT, s, N, T
<1>6. Kept(s, keepS)[N] = Kept(t, keepT)[N]
  <2>1. N \in 0 .. Len(s) /\ N <= Len(t)
    BY <1>1, <1>2 DEF N
  <2>2. Agree(T, s, keepS, t, keepT, N)
    BY <1>1, <1>2, <1>4, <2>1 DEF Agree
  <2> QED
    BY <2>2, KeptAgree
<1>7. Kept(t, keepT)[N + 1]
        = IF keepT[N + 1] THEN Append(Kept(t, keepT)[N], t[N + 1]) ELSE Kept(t, keepT)[N]
  <2>1. N + 1 \in 1 .. Len(t) /\ (N + 1) - 1 = N
    BY <1>1, <1>2
  <2>2. \A n \in 1 .. Len(t) :
          Kept(t, keepT)[n] = IF keepT[n] THEN Append(Kept(t, keepT)[n - 1], t[n])
                                ELSE Kept(t, keepT)[n - 1]
    BY <1>2, KeptDef
  <2> QED
    BY <2>1, <2>2
<1> QED
  BY <1>2, <1>3, <1>5, <1>6, <1>7

(* What the sender's messages decode to.                                    *)
Sent == DecodedOf(KnownTemplates \cup {"Unknown"})

(* The type of such a message, and what is in it.                          *)
LEMMA AsSentType ==
  ASSUME Typed, NEW k \in 1 .. Len(payload.wire)
  PROVE  /\ AsSent(k) \in Sent
         /\ AsSent(k).counts \in Seq(Nat)
         /\ Len(AsSent(k).counts) = Len(payload.wire[k].groups)
         /\ \A g \in 1 .. Len(payload.wire[k].groups) :
              AsSent(k).counts[g] = payload.wire[k].groups[g].count
         /\ AsSent(k) = Decoded(payload.wire[k].template, Boundary(k) + 8,
                                AsSent(k).counts, AsSent(k).counts, TRUE)
<1> DEFINE m == payload.wire[k]
           counts == [g \in DOMAIN m.groups |-> m.groups[g].count]
<1>1. counts \in [1 .. Len(m.groups) -> Nat] /\ Len(m.groups) \in Nat
  BY WireGroupsTyped
<1>2. \A g \in 1 .. Len(m.groups) : counts[g] = m.groups[g].count
  BY WireGroupsTyped
<1>3. AsSent(k) = Decoded(m.template, Boundary(k) + 8, counts, counts, TRUE)
  BY DEF AsSent, MessageHeaderSize
<1>4. m.template \in KnownTemplates \cup {"Unknown"}
  <2>1. m \in WireMessages
    BY WireTyped
  <2> QED
    BY <2>1 DEF WireMessages
<1>5. Boundary(k) + 8 \in Nat
  <2>1. k \in 1 .. Len(payload.wire) + 1
    BY WireTyped
  <2> QED
    BY <2>1, BoundaryType
<1> HIDE DEF counts
<1>6. counts \in Seq(Nat) /\ Len(counts) = Len(m.groups)
  BY <1>1, FunctionIsSeq
<1>7. AsSent(k) \in Sent
  BY <1>3, <1>4, <1>5, <1>6 DEF Decoded, DecodedOf, Sent
<1>8. AsSent(k).counts = counts
  BY <1>3 DEF Decoded
<1> QED
  BY <1>2, <1>3, <1>6, <1>7, <1>8

(* What is due after k messages, and after one more.                        *)
LEMMA DueStep ==
  ASSUME Typed
  PROVE  /\ \A k \in 0 .. Len(payload.wire) : Due[k] \in Seq(Sent)
         /\ Due[0] = <<>>
         /\ \A k \in 0 .. Len(payload.wire) - 1 :
              Due[k + 1] = IF payload.wire[k + 1].template \in KnownTemplates
                           THEN Append(Due[k], AsSent(k + 1)) ELSE Due[k]
<1> DEFINE N == Len(payload.wire)
           s == [k \in DOMAIN payload.wire |-> AsSent(k)]
           keep == [k \in DOMAIN payload.wire |-> payload.wire[k].template \in KnownTemplates]
<1>1. N \in Nat /\ DOMAIN payload.wire = 1 .. N
  BY WireTyped
<1>2. s \in [1 .. N -> Sent]
  BY <1>1, AsSentType
<1>3. \A k \in 1 .. N : s[k] = AsSent(k) /\ keep[k] = (payload.wire[k].template \in KnownTemplates)
  BY <1>1
<1>4. Due = Kept(s, keep)
  BY DEF Due
<1> HIDE DEF s, keep, N
<1>5. s \in Seq(Sent) /\ Len(s) = N
  BY <1>1, <1>2, FunctionIsSeq
<1>6. /\ Due \in [0 .. N -> Seq(Sent)] /\ Due[0] = <<>>
      /\ \A n \in 1 .. N : Due[n] = IF keep[n] THEN Append(Due[n - 1], s[n]) ELSE Due[n - 1]
  <2>1. s \in Seq(Sent)
    BY <1>5
  <2>2. /\ Kept(s, keep) \in [0 .. Len(s) -> Seq(Sent)] /\ Kept(s, keep)[0] = <<>>
        /\ \A n \in 1 .. Len(s) :
             Kept(s, keep)[n] = IF keep[n] THEN Append(Kept(s, keep)[n - 1], s[n])
                                ELSE Kept(s, keep)[n - 1]
    BY <2>1, KeptDef
  <2> QED
    BY <1>4, <1>5, <2>2
<1>7. ASSUME NEW k \in 0 .. N - 1
      PROVE  Due[k + 1] = IF payload.wire[k + 1].template \in KnownTemplates
                          THEN Append(Due[k], AsSent(k + 1)) ELSE Due[k]
  <2>1. k + 1 \in 1 .. N /\ (k + 1) - 1 = k
    BY <1>1
  <2> QED
    BY <1>3, <1>6, <2>1
<1> QED
  BY <1>6, <1>7 DEF N

(* What has been decoded in full is of the type of what was sent.          *)
LEMMA IntactType ==
  ASSUME Typed
  PROVE  Intact \in Seq(Sent) /\ (messages = <<>> => Intact = <<>>)
<1> DEFINE keep == [j \in DOMAIN messages |-> messages[j].intact]
<1>1. Intact = Kept(messages, keep)[Len(messages)]
  BY DEF Intact
<1>2. messages \in Seq(Sent)
  <2>1. DecodedOf(KnownTemplates) \subseteq Sent
    BY DEF DecodedOf, Sent
  <2>2. messages \in Seq(DecodedOf(KnownTemplates))
    BY DEF Typed
  <2> QED
    BY <2>1, <2>2, SeqMonotonic
<1>3. Len(messages) \in 0 .. Len(messages)
  BY <1>2
<1> HIDE DEF keep
<1>4. /\ Kept(messages, keep) \in [0 .. Len(messages) -> Seq(Sent)]
      /\ Kept(messages, keep)[0] = <<>>
  BY <1>2, KeptDef
<1> QED
  BY <1>1, <1>3, <1>4

(* Where a message that is as the code describes it ends.                   *)
LEMMA FixedEnds ==
  ASSUME Typed, NEW k \in 1 .. Len(payload.wire), Described(payload.wire[k]),
         payload.wire[k].template \in FixedTemplates
  PROVE  /\ Boundary(k + 1) = Boundary(k) + 8 + StructSize[payload.wire[k].template]
         /\ payload.wire[k].groups = <<>>
<1> DEFINE m == payload.wire[k]
           N == Len(m.groups)
<1>1. m.groups = <<>> /\ m.data = 0 /\ m.block \in Nat
  <2>1. LaidOut(m) /\ m \in WireMessages
    BY WireTyped
  <2> QED
    BY <2>1 DEF LaidOut, WireMessages
<1>2. m.block = StructSize[m.template]
  BY FixedSizes DEF Described
<1>3. Len(m.groups) = 0
  BY <1>1
<1>4. GroupAt(k, 1) = Boundary(k) + 8 + m.block
  BY GroupAtFirst
<1>5. GroupAt(k, N + 1) + m.data = Boundary(k + 1)
  BY GroupAtLast
<1>6. GroupAt(k, 1) + 0 = Boundary(k + 1)
  BY <1>1, <1>3, <1>5
<1>7. Boundary(k) \in Nat
  <2>1. k \in 1 .. Len(payload.wire) + 1
    BY WireTyped
  <2> QED
    BY <2>1, BoundaryType
<1> QED
  BY <1>1, <1>2, <1>4, <1>6, <1>7

(* A message decode() has no case for ends with its block,                 *)
LEMMA UnknownEnds ==
  ASSUME Typed, NEW k \in 1 .. Len(payload.wire), Described(payload.wire[k]),
         payload.wire[k].template \notin KnownTemplates
  PROVE  Boundary(k + 1) = Boundary(k) + 8 + payload.wire[k].block
<1> DEFINE m == payload.wire[k]
           N == Len(m.groups)
<1>1. m.template = "Unknown" /\ m.block \in Nat
  <2>1. m \in WireMessages
    BY WireTyped
  <2> QED
    BY <2>1 DEF WireMessages
<1>2. m.groups = <<>> /\ m.data = 0
  BY <1>1 DEF Described, KnownTemplates
<1>3. Len(m.groups) = 0
  BY <1>2
<1>4. GroupAt(k, 1) = Boundary(k) + 8 + m.block
  BY GroupAtFirst
<1>5. GroupAt(k, N + 1) + m.data = Boundary(k + 1)
  BY GroupAtLast
<1>6. GroupAt(k, 1) + 0 = Boundary(k + 1)
  BY <1>2, <1>3, <1>5
<1>7. Boundary(k) \in Nat
  <2>1. k \in 1 .. Len(payload.wire) + 1
    BY WireTyped
  <2> QED
    BY <2>1, BoundaryType
<1> QED
  BY <1>1, <1>4, <1>6, <1>7

(* a snapshot with the entries of its group                                *)
LEMMA SnapshotEnds ==
  ASSUME Typed, NEW k \in 1 .. Len(payload.wire),
         payload.wire[k].template = "OrderBookSnapshot"
  PROVE  /\ Len(payload.wire[k].groups) = 1
         /\ GroupAt(k, 1) = Boundary(k) + 24
         /\ Boundary(k + 1) = GroupAt(k, 1) + 3 + payload.wire[k].groups[1].count * 57
<1> DEFINE m == payload.wire[k]
<1>1. /\ Len(m.groups) = 1 /\ m.data = 0 /\ m.block = 16 /\ m.groups[1].entry = 57
  <2>1. LaidOut(m)
    BY WireTyped
  <2> QED
    BY <2>1 DEF LaidOut, SnapshotBaseSize, SnapshotEntrySize
<1>2. GroupAt(k, 1) = Boundary(k) + 8 + 16
  BY <1>1, GroupAtFirst
<1>3. GroupAt(k, 1 + 1) + 0 = Boundary(k + 1)
  BY <1>1, GroupAtLast
<1>4. 1 \in 1 .. Len(m.groups)
  BY <1>1
<1>5. GroupAt(k, 1 + 1) = GroupAt(k, 1) + GroupBytes(m.groups[1])
  BY <1>4, GroupAtStep
<1>6. /\ GroupBytes(m.groups[1]) \in Nat
      /\ GroupBytes(m.groups[1]) = 3 + m.groups[1].count * 57
      /\ m.groups[1].count \in Nat
  BY <1>1, <1>4, WireGroupsTyped
<1>7. Boundary(k) \in Nat
  <2>1. k \in 1 .. Len(payload.wire) + 1
    BY WireTyped
  <2> QED
    BY <2>1, BoundaryType
<1> DEFINE bytes == m.groups[1].count * 57
<1>8. bytes \in Nat
  BY <1>6
<1>9. GroupBytes(m.groups[1]) = 3 + bytes
  BY <1>6
<1> HIDE DEF bytes
<1>10. Boundary(k + 1) = GroupAt(k, 1) + 3 + bytes
  BY <1>2, <1>3, <1>5, <1>7, <1>8, <1>9
<1> QED
  BY <1>1, <1>2, <1>7, <1>10 DEF bytes

(* and a SecurityDefinition 24 bytes behind its last group.                *)
LEMMA DefinitionEnds ==
  ASSUME Typed, NEW k \in 1 .. Len(payload.wire), Described(payload.wire[k]),
         payload.wire[k].template = "SecurityDefinition"
  PROVE  LET groups == payload.wire[k].groups
         IN  /\ Len(groups) = 5
             /\ GroupAt(k, 1) = Boundary(k) + 8 + DefinitionFieldBytes
             /\ \A g \in 1 .. 5 :
                  /\ GroupAt(k, g + 1)
                       = GroupAt(k, g) + 3 + groups[g].count * DefinitionEntrySizes[g]
                  /\ g > 2 => groups[g].count = groups[1].count
             /\ Boundary(k + 1) = GroupAt(k, 6) + 24
<1> DEFINE m == payload.wire[k]
           groups == m.groups
<1>1. /\ Len(groups) = 5 /\ m.block = DefinitionFieldBytes
      /\ \A g \in 1 .. 5 : groups[g].entry = DefinitionEntrySizes[g]
  <2>1. LaidOut(m)
    BY WireTyped
  <2> QED
    BY <2>1 DEF LaidOut
<1>2. m.data = 24 /\ \A g \in 3 .. 5 : groups[g].count = groups[1].count
  <2>1. Described(m) /\ m.template = "SecurityDefinition"
    OBVIOUS
  <2>2. m.data = TextRead /\ \A g \in 3 .. 5 : groups[g].count = groups[1].count
    BY <2>1, FixedSizes DEF Described
  <2> QED
    BY <2>2 DEF TextRead, StringLengthSize, StringStructSize
<1>3. GroupAt(k, 1) = Boundary(k) + 8 + DefinitionFieldBytes
  BY <1>1, GroupAtFirst
<1>4. GroupAt(k, 6) + 24 = Boundary(k + 1)
  <2>1. GroupAt(k, 5 + 1) + m.data = Boundary(k + 1)
    BY <1>1, GroupAtLast
  <2> QED
    BY <1>2, <2>1
<1>5. ASSUME NEW g \in 1 .. 5
      PROVE  /\ GroupAt(k, g + 1)
                  = GroupAt(k, g) + 3 + groups[g].count * DefinitionEntrySizes[g]
             /\ g > 2 => groups[g].count = groups[1].count
  <2>1. g \in 1 .. Len(groups) /\ g \in 1 .. Len(groups) + 1
    BY <1>1
  <2>2. GroupAt(k, g + 1) = GroupAt(k, g) + GroupBytes(groups[g])
    BY <2>1, GroupAtStep
  <2>3. /\ GroupBytes(groups[g]) \in Nat
        /\ GroupBytes(groups[g]) = 3 + groups[g].count * DefinitionEntrySizes[g]
        /\ groups[g].count \in Nat
    BY <1>1, <2>1, WireGroupsTyped
  <2>4. GroupAt(k, g) \in Nat
    BY <2>1, GroupAtType
  <2> DEFINE bytes == groups[g].count * DefinitionEntrySizes[g]
  <2>5. bytes \in Nat
    <3> DEFINE count == groups[g].count
               entry == DefinitionEntrySizes[g]
    <3>1. count \in Nat /\ entry \in Nat
      BY <2>3, EntrySizes
    <3> HIDE DEF count, entry
    <3>2. count * entry \in Nat
      BY <3>1
    <3> QED
      BY <3>2 DEF count, entry
  <2>6. GroupBytes(groups[g]) = 3 + bytes
    BY <2>3
  <2> HIDE DEF bytes
  <2>7. GroupAt(k, g + 1) = GroupAt(k, g) + 3 + bytes
    BY <2>2, <2>4, <2>5, <2>6
  <2>8. g > 2 => g \in 3 .. 5
    OBVIOUS
  <2> QED
    BY <1>2, <2>7, <2>8 DEF bytes
<1> QED
  BY <1>1, <1>3, <1>4, <1>5

(* No step goes back, and none adds more than one message.                  *)
LEMMA Progress ==
  ASSUME Typed, [Next]_vars
  PROVE  /\ payload' = payload
         /\ offset <= offset'
         /\ messages' = messages \/ \E d : messages' = Append(messages, d)
<1>0. offset \in Nat /\ offset' \in Nat /\ header.block \in Nat
  BY TypedStep DEF Typed, Headers
<1>1. CASE ParsePacketHeader
  BY <1>0, <1>1 DEF ParsePacketHeader, MarketDataPacketHeaderSize
<1>2. CASE ParseIncrementalHeader
  BY <1>0, <1>2 DEF ParseIncrementalHeader, IncrementalPacketHeaderSize
<1>3. CASE ParseMessageHeader
  BY <1>0, <1>3 DEF ParseMessageHeader, MessageHeaderSize
<1>4. CASE ParseFixed
  <2> DEFINE n == StructSize[header.template]
  <2>1. n \in Nat
    BY <1>4, FixedSizes DEF ParseFixed
  <2>2. /\ payload' = payload /\ offset' = offset + n
        /\ \E d : messages' = Append(messages, d)
    BY <1>4 DEF ParseFixed
  <2> HIDE DEF n
  <2> QED
    BY <1>0, <2>1, <2>2
<1>5. CASE ParseOrderBookSnapshot
  <2>1. PICK n \in CountsAt(offset + SnapshotBaseSize) :
          /\ offset' = VectorEnd(offset + SnapshotBaseSize + GroupSizeSize,
                                 n, SnapshotEntrySize)
          /\ messages' = Append(messages,
               Decoded(header.template, offset, <<n>>, <<n>>, offset' <= payload.size))
    BY <1>5 DEF ParseOrderBookSnapshot
  <2>2. n \in 0 .. 255
    BY CountsAtType
  <2>3. offset' = offset + 19 + n * 57
    BY <1>0, <2>1, <2>2
    DEF VectorEnd, SnapshotBaseSize, GroupSizeSize, SnapshotEntrySize
  <2>4. payload' = payload
    BY <1>5 DEF ParseOrderBookSnapshot
  <2>5. offset <= offset'
    BY <1>0, <2>2, <2>3
  <2> QED
    BY <2>1, <2>4, <2>5
<1>6. CASE ParseDefinitionFields
  <2>1. offset <= offset'
    BY <1>0, <1>6, FieldsEnd DEF ParseDefinitionFields
  <2> QED
    BY <1>6, <2>1 DEF ParseDefinitionFields
<1>7. CASE ParseDefinitionGroup
  <2>1. offset + 3 <= offset'
    BY <1>7, GroupParsed
  <2>2. payload' = payload /\ messages' = messages
    BY <1>7 DEF ParseDefinitionGroup
  <2> QED
    BY <1>0, <2>1, <2>2
<1>8. CASE ParseDefinitionStrings
  <2>1. offset' = offset + 24
    BY <1>0, <1>8 DEF ParseDefinitionStrings, StringLengthSize, StringStructSize
  <2>2. payload' = payload /\ \E d : messages' = Append(messages, d)
    BY <1>8 DEF ParseDefinitionStrings
  <2> QED
    BY <1>0, <2>1, <2>2
<1>9. CASE SkipUnknown
  BY <1>0, <1>9 DEF SkipUnknown, BlockEnd
<1>10. CASE Return
  BY <1>0, <1>10 DEF Return
<1>11. CASE Returned \/ UNCHANGED vars
  BY <1>0, <1>11 DEF Returned, vars
<1> QED
  BY <1>1, <1>2, <1>3, <1>4, <1>5, <1>6, <1>7, <1>8, <1>9, <1>10, <1>11 DEF Next

(* The same of what has been decoded in full.                               *)
LEMMA IntactProgress ==
  ASSUME Typed, [Next]_vars
  PROVE  Intact' = Intact \/ \E d \in Sent : Intact' = Append(Intact, d)
<1>1. CASE messages' = messages
  BY <1>1 DEF Intact
<1>2. ASSUME NEW d, messages' = Append(messages, d)
      PROVE  Intact' = Intact \/ \E e \in Sent : Intact' = Append(Intact, e)
  <2>1. /\ messages' \in Seq(DecodedOf(KnownTemplates))
        /\ messages \in Seq(DecodedOf(KnownTemplates))
    BY TypedStep DEF Typed
  <2>2. Len(messages) + 1 \in 1 .. Len(messages') /\ messages'[Len(messages) + 1] = d
    BY <1>2, <2>1
  <2>3. d \in DecodedOf(KnownTemplates)
    BY <2>1, <2>2
  <2>4. d \in Sent
    BY <2>3 DEF DecodedOf, Sent
  <2>5. Intact' = IF d.intact THEN Append(Intact, d) ELSE Intact
    BY <1>2, <2>3, IntactGrows
  <2> QED
    BY <2>4, <2>5
<1> QED
  BY <1>1, <1>2, Progress

(* Lost, anything may follow.                                               *)
LEMMA LostStep ==
  ASSUME Typed, [Next]_vars, NEW k \in 0 .. Len(payload.wire), Lost(k)
  PROVE  Lost(k)'
<1>1. payload' = payload /\ offset <= offset' /\ offset \in Nat /\ offset' \in Nat
  BY Progress, TypedStep DEF Typed
<1>2. \A j : Boundary(j)' = Boundary(j) /\ Due' = Due
  BY <1>1, SamePayload
<1>3. /\ k < Len(payload.wire) /\ ~Described(payload.wire[k + 1])
      /\ Boundary(k + 1) <= offset
      /\ Boundary(k + 1) <= payload.size
      /\ IsPrefix(Due[k], Intact)
  BY DEF Lost
<1>4. Boundary(k + 1) \in Nat
  <2>1. k + 1 \in 1 .. Len(payload.wire) + 1
    BY WireTyped
  <2> QED
    BY <2>1, BoundaryType
<1>5. Boundary(k + 1) <= offset'
  BY <1>1, <1>3, <1>4
<1>6. IsPrefix(Due[k], Intact')
  <2>1. Due[k] \in Seq(Sent) /\ Intact \in Seq(Sent)
    BY DueStep, IntactType
  <2>2. \A d \in Sent : IsPrefix(Due[k], Append(Intact, d))
    BY <1>3, <2>1, PrefixAppend
  <2> QED
    BY <1>3, <2>2, IntactProgress
<1> QED
  BY <1>1, <1>2, <1>3, <1>5, <1>6 DEF Lost

(* A step that leaves everything as it is.                                  *)
LEMMA NothingChanges ==
  ASSUME UNCHANGED vars, Framing
  PROVE  Framing'
<1>1. payload' = payload
  BY DEF vars
<1>2. /\ \A k : Boundary(k)' = Boundary(k)
      /\ \A k, g : GroupAt(k, g)' = GroupAt(k, g)
      /\ \A n : DescribedUpTo(n)' = DescribedUpTo(n)
      /\ Due' = Due
  BY <1>1, SamePayload
<1>3. Intact' = Intact
  BY DEF vars, Intact
<1>4. \A k : InStep(k)' = InStep(k)
  <2>1. \A k : DefinitionInStep(k)' = DefinitionInStep(k)
    BY <1>2 DEF vars, DefinitionInStep
  <2> QED
    BY <1>2, <1>3, <2>1 DEF vars, InStep
<1>5. \A k : Cut(k)' = Cut(k)
  BY <1>2, <1>3 DEF vars, Cut
<1>6. \A k : Lost(k)' = Lost(k)
  BY <1>2, <1>3 DEF vars, Lost
<1>7. Placed' = Placed
  BY <1>1, <1>2, <1>4, <1>5, <1>6 DEF Placed
<1> QED
  BY <1>2, <1>7 DEF vars, Framing, Started

(* Cut, nothing more is decoded in full.                                    *)
LEMMA CutStep ==
  ASSUME Typed, Completeness, Next, ~Returned, pc \notin {"packet", "incremental"},
         NEW k \in 0 .. Len(payload.wire), Cut(k)
  PROVE  Cut(k)'
<1>0. payload' = payload /\ offset \in Nat /\ offset' \in Nat /\ payload.size \in Nat
      /\ offset <= offset'
  BY Progress, TypedStep, WireTyped DEF Typed
<1>1. \A j : Boundary(j)' = Boundary(j) /\ Due' = Due
  BY <1>0, SamePayload
<1>2. /\ k > 0 => Boundary(k + 1) <= payload.size
      /\ IF k < Len(payload.wire) THEN payload.size < Boundary(k + 2) ELSE k = 0
      /\ Intact = Due[k]
      /\ pc \in {"loop", "message", "done"} => offset >= payload.size
      /\ pc = "message" => header = NoHeader
      /\ pc \in {"groups", "strings"} => ~definition.intact \/ offset > payload.size
  BY DEF Cut
<1>3. SUFFICES /\ Intact' = Intact
               /\ pc' \in {"loop", "message", "done"} => offset' >= payload.size
               /\ pc' = "message" => header' = NoHeader
               /\ pc' \in {"groups", "strings"} =>
                    ~definition'.intact \/ offset' > payload.size
  BY <1>0, <1>1, <1>2 DEF Cut
<1>4. CASE ParseMessageHeader
  BY <1>0, <1>2, <1>4 DEF ParseMessageHeader
<1>5. ASSUME pc = "message"
      PROVE  SkipUnknown /\ header.block = 0
  <2>1. header.template = "Zero" /\ header.block = 0
    BY <1>2, <1>5 DEF NoHeader
  <2>2. "Zero" \notin FixedTemplates
    BY FixedSizes
  <2> QED
    BY <1>5, <2>1, <2>2
    DEF Next, Returned, ParsePacketHeader, ParseIncrementalHeader, ParseMessageHeader,
        ParseFixed, ParseOrderBookSnapshot, ParseDefinitionFields, ParseDefinitionGroup,
        ParseDefinitionStrings, Return
<1>6. CASE pc = "message"
  <2>1. pc' = "loop" /\ messages' = messages
    BY <1>5, <1>6 DEF SkipUnknown, EndRound
  <2> QED
    BY <1>0, <1>2, <1>6, <2>1 DEF Intact
<1>7. CASE ParseDefinitionGroup
  <2>1. PICK c, e : definition' = [definition EXCEPT !.counts = c, !.entries = e]
    BY <1>7 DEF ParseDefinitionGroup
  <2>2. definition'.intact = definition.intact
    <3>1. definition \in DecodedOf({"SecurityDefinition", "Zero"})
      BY DEF Typed
    <3> QED
      BY <2>1, <3>1 DEF DecodedOf
  <2>3. /\ pc = "groups" /\ pc' \in {"groups", "strings"} /\ messages' = messages
    BY <1>7 DEF ParseDefinitionGroup
  <2> QED
    BY <1>0, <1>2, <2>2, <2>3 DEF Intact
<1>8. CASE ParseDefinitionStrings
  <2> DEFINE d == [definition EXCEPT !.intact = @ /\ offset' <= payload.size]
  <2>1. messages' = Append(messages, d) /\ pc = "strings" /\ pc' = "loop"
    BY <1>8 DEF ParseDefinitionStrings, EndRound
  <2>2. definition \in DecodedOf({"SecurityDefinition", "Zero"})
        /\ definition.template = "SecurityDefinition"
    BY <2>1 DEF Typed
  <2>3. d \in DecodedOf(KnownTemplates)
    BY <2>2 DEF DecodedOf, KnownTemplates
  <2>4. d.intact = (definition.intact /\ offset' <= payload.size)
    BY <2>2 DEF DecodedOf
  <2> HIDE DEF d
  <2>5. ~d.intact
    <3>1. ~definition.intact \/ offset > payload.size
      BY <1>2, <2>1
    <3>2. offset > payload.size => ~(offset' <= payload.size)
      BY <1>0
    <3> QED
      BY <2>4, <3>1, <3>2
  <2>6. Intact' = Intact
    BY <2>1, <2>3, <2>5, IntactGrows
  <2>7. offset' >= payload.size
    <3>1. /\ messages \in Seq(DecodedOf(KnownTemplates)) /\ Len(messages) \in Nat
      BY DEF Typed
    <3>2. messages' # <<>> /\ Last(messages') = d
      BY <2>1, <3>1 DEF Last
    <3>3. Completeness'
      BY CompletenessStep
    <3> QED
      BY <1>0, <2>5, <3>2, <3>3 DEF Completeness
  <2> QED
    BY <2>1, <2>6, <2>7
<1>9. CASE Return
  BY <1>0, <1>2, <1>9 DEF Return, Intact
<1> QED
  BY <1>4, <1>6, <1>7, <1>8, <1>9
  DEF Next, ParsePacketHeader, ParseIncrementalHeader, ParseFixed, ParseOrderBookSnapshot,
      ParseDefinitionFields, SkipUnknown

(* The packet header is behind the decoder.                                 *)
LEMMA StartPlaced ==
  ASSUME Typed, Typed', payload' = payload, messages' = <<>>, pc' = "loop",
         IF Boundary(1) <= payload.size THEN offset' = Boundary(1)
         ELSE offset' >= payload.size
  PROVE  Placed'
<1>1. /\ \A j : Boundary(j)' = Boundary(j)
      /\ \A n : DescribedUpTo(n)' = DescribedUpTo(n)
      /\ Due' = Due
  BY SamePayload
<1>2. Intact' = <<>> /\ Due[0] = <<>>
  <2> DEFINE none == <<>>
             keep == [j \in DOMAIN none |-> none[j].intact]
  <2>1. none \in Seq(Sent) /\ Len(none) = 0
    OBVIOUS
  <2>2. Intact' = Kept(none, keep)[Len(none)]
    BY DEF Intact
  <2> HIDE DEF none, keep
  <2>3. Kept(none, keep)[0] = <<>>
    BY <2>1, KeptDef
  <2> QED
    BY <2>1, <2>2, <2>3, DueStep
<1>3. DescribedUpTo(0) /\ 0 \in 0 .. Len(payload.wire) /\ Len(payload.wire) \in Nat
  BY WireTyped DEF DescribedUpTo
<1>4. CASE Boundary(1) <= payload.size
  <2>1. InStep(0)'
    BY <1>1, <1>2, <1>4 DEF InStep
  <2> QED
    BY <1>1, <1>3, <2>1 DEF Placed
<1>5. CASE ~(Boundary(1) <= payload.size)
  <2>1. 0 < Len(payload.wire) => payload.size < Boundary(0 + 2)
    <3>1. CASE 0 < Len(payload.wire)
      <4>1. 1 \in 1 .. Len(payload.wire) + 1 /\ 2 \in 1 .. Len(payload.wire) + 1
        BY <1>3, <3>1
      <4>2. Boundary(1) + 8 <= Boundary(2) /\ Boundary(1) \in Nat /\ Boundary(2) \in Nat
        BY <4>1, BoundaryBefore, BoundaryType
      <4> QED
        BY <1>5, <4>2, WireTyped
    <3> QED
      BY <3>1
  <2>2. Cut(0)'
    BY <1>1, <1>2, <1>5, <2>1 DEF Cut
  <2> QED
    BY <1>1, <1>3, <2>2 DEF Placed
<1> QED
  BY <1>4, <1>5

(* What is known after the headers of the packet.                           *)
LEMMA StartStep ==
  ASSUME Typed, Framing, ParsePacketHeader \/ ParseIncrementalHeader
  PROVE  Framing'
<1>0. Typed' /\ payload' = payload
  BY TypedStep, Progress DEF Next
<1>1. /\ \A j : Boundary(j)' = Boundary(j)
      /\ payload.size <= Boundary(Len(payload.wire) + 1)
  BY <1>0, SamePayload DEF Framing
<1>2. messages = <<>> /\ messages' = <<>>
  BY DEF ParsePacketHeader, ParseIncrementalHeader, Framing, Started
<1>3. Boundary(1) = 16 + (IF payload.incremental THEN 12 ELSE 0)
  <2>1. SubSeq(payload.wire, 1, 1 - 1) = <<>>
    BY WireTyped
  <2>2. [k \in DOMAIN <<>> |-> MessageBytes(<<>>[k])] = <<>>
    OBVIOUS
  <2>3. MessagesBytes(<<>>) = 0
    BY <2>2, TotalEmpty DEF MessagesBytes
  <2> DEFINE before == MessagesBytes(SubSeq(payload.wire, 1, 1 - 1))
  <2>4. before = 0
    BY <2>1, <2>3
  <2>5. Boundary(1) = HeaderBytes(payload.incremental) + before
    BY DEF Boundary
  <2> HIDE DEF before
  <2> QED
    BY <2>4, <2>5
    DEF HeaderBytes, MarketDataPacketHeaderSize, IncrementalPacketHeaderSize
<1>4. payload.size \in Nat /\ payload.incremental \in BOOLEAN
  BY WireTyped
<1>5. CASE ParsePacketHeader
  <2>1. /\ offset' = 16
        /\ pc' = IF 16 <= payload.size /\ payload.incremental THEN "incremental" ELSE "loop"
    BY <1>5 DEF ParsePacketHeader, Framing, Started, MarketDataPacketHeaderSize, Fits
  <2>2. CASE 16 <= payload.size /\ payload.incremental
    BY <1>0, <1>1, <1>2, <2>1, <2>2 DEF Framing, Started, MarketDataPacketHeaderSize
  <2>3. CASE ~(16 <= payload.size /\ payload.incremental)
    <3>1. IF Boundary(1) <= payload.size THEN offset' = Boundary(1)
          ELSE offset' >= payload.size
      BY <1>3, <1>4, <2>1, <2>3
    <3>2. Placed' /\ pc' = "loop"
      BY <1>0, <1>2, <2>1, <2>3, <3>1, StartPlaced
    <3> QED
      BY <1>0, <1>1, <3>2 DEF Framing, Started
  <2> QED
    BY <2>2, <2>3
<1>6. CASE ParseIncrementalHeader
  <2>1. /\ offset' = 28 /\ pc' = "loop" /\ payload.incremental
    BY <1>6 DEF ParseIncrementalHeader, Framing, Started, MarketDataPacketHeaderSize,
                IncrementalPacketHeaderSize
  <2>2. IF Boundary(1) <= payload.size THEN offset' = Boundary(1)
        ELSE offset' >= payload.size
    BY <1>3, <1>4, <2>1
  <2>3. Placed'
    BY <1>0, <1>2, <2>1, <2>2, StartPlaced
  <2> QED
    BY <1>0, <1>1, <2>1, <2>3 DEF Framing, Started
<1> QED
  BY <1>5, <1>6

(* A round that parses a message described by the code.                     *)
LEMMA RoundInStep ==
  ASSUME Typed, payload' = payload, pc' = "loop",
         NEW k \in 0 .. Len(payload.wire), k < Len(payload.wire), NEW m, m = payload.wire[k + 1],
         DescribedUpTo(k), InStep(k), Described(m),
         messageHeader'.template = m.template,
         IF Boundary(k + 2) <= payload.size THEN offset' = Boundary(k + 2)
         ELSE offset' >= payload.size,
         NEW d \in DecodedOf(KnownTemplates),
         m.template \notin KnownTemplates => messages' = messages,
         m.template \in KnownTemplates =>
           /\ messages' = Append(messages, d)
           /\ IF Boundary(k + 2) <= payload.size THEN d = AsSent(k + 1) ELSE ~d.intact
  PROVE  Placed'
<1>1. /\ \A j : Boundary(j)' = Boundary(j)
      /\ \A n : DescribedUpTo(n)' = DescribedUpTo(n)
      /\ Due' = Due
  BY SamePayload
<1>2. /\ k \in Nat /\ Len(payload.wire) \in Nat
      /\ k + 1 \in 1 .. Len(payload.wire) /\ k + 1 \in 0 .. Len(payload.wire)
      /\ k \in 0 .. Len(payload.wire) - 1
      /\ (k + 1) + 1 = k + 2
  BY WireTyped
<1>3. Intact = Due[k] /\ Boundary(k + 1) <= payload.size
  BY DEF InStep
<1>4. messages' = messages => Intact' = Intact
  BY DEF Intact
<1>5. CASE Boundary(k + 2) <= payload.size
  <2>1. Intact' = Due[k + 1]
    <3>1. CASE m.template \in KnownTemplates
      <4>1. AsSent(k + 1).intact
        BY DEF AsSent, Decoded
      <4>2. d = AsSent(k + 1) /\ messages' = Append(messages, d)
        BY <1>5, <3>1
      <4>3. Intact' = Append(Intact, d)
        BY <4>1, <4>2, IntactGrows
      <4>4. Due[k + 1] = Append(Due[k], AsSent(k + 1))
        BY <1>2, <3>1, DueStep
      <4> QED
        BY <1>3, <4>2, <4>3, <4>4
    <3>2. CASE m.template \notin KnownTemplates
      <4>1. Due[k + 1] = Due[k]
        BY <1>2, <3>2, DueStep
      <4> QED
        BY <1>3, <1>4, <3>2, <4>1
    <3> QED
      BY <3>1, <3>2
  <2>2. DescribedUpTo(k + 1)
    <3>1. \A j \in 1 .. k + 1 : j \in 1 .. k \/ j = k + 1
      BY <1>2
    <3> QED
      BY <3>1 DEF DescribedUpTo
  <2>3. InStep(k + 1)'
    <3>1. /\ Boundary((k + 1) + 1)' <= payload'.size
          /\ offset' = Boundary((k + 1) + 1)'
      BY <1>1, <1>2, <1>5
    <3>2. Intact' = Due'[k + 1]
      BY <1>1, <2>1
    <3>3. messageHeader'.template = payload'.wire[k + 1].template
      OBVIOUS
    <3> QED
      BY <3>1, <3>2, <3>3 DEF InStep
  <2> QED
    BY <1>1, <1>2, <2>2, <2>3 DEF Placed
<1>6. CASE ~(Boundary(k + 2) <= payload.size)
  <2>1. Intact' = Due[k]
    BY <1>3, <1>4, <1>6, IntactGrows
  <2>2. payload.size < Boundary(k + 2)
    <3>1. k + 2 \in 1 .. Len(payload.wire) + 1
      BY <1>2
    <3>2. Boundary(k + 2) \in Nat
      BY <3>1, BoundaryType
    <3> QED
      BY <1>6, <3>2, WireTyped
  <2>3. Cut(k)'
    BY <1>1, <1>3, <1>6, <2>1, <2>2 DEF Cut
  <2> QED
    BY <1>1, <2>3 DEF Placed
<1> QED
  BY <1>5, <1>6

(* In step, the header read is that of the next message.                    *)
LEMMA HeaderInStep ==
  ASSUME Typed, NEW k \in 0 .. Len(payload.wire), DescribedUpTo(k), InStep(k),
         payload.size <= Boundary(Len(payload.wire) + 1), ParseMessageHeader
  PROVE  Placed'
<1>0. /\ pc = "loop" /\ pc' = "message" /\ payload' = payload /\ messages' = messages
      /\ offset < payload.size /\ header' \in HeadersAt(offset) /\ offset' = offset + 8
  BY DEF ParseMessageHeader, MessageHeaderSize
<1>1. /\ \A j : Boundary(j)' = Boundary(j)
      /\ \A n : DescribedUpTo(n)' = DescribedUpTo(n)
      /\ Due' = Due
  BY <1>0, SamePayload
<1>2. /\ offset = Boundary(k + 1) /\ Boundary(k + 1) <= payload.size
      /\ Intact = Due[k] /\ Intact' = Intact
  BY <1>0 DEF InStep, Intact
<1>3. k \in Nat /\ Len(payload.wire) \in Nat /\ k <= Len(payload.wire)
      /\ payload.size \in Nat /\ k + 1 \in 1 .. Len(payload.wire) + 1
  BY WireTyped
<1>4. offset \in Nat
  BY DEF Typed
<1>5. k < Len(payload.wire)
  <2>1. k # Len(payload.wire)
    BY <1>0, <1>2, <1>3, <1>4
  <2> QED
    BY <1>3, <2>1
<1>6. k + 1 \in 1 .. Len(payload.wire) /\ k + 2 \in 1 .. Len(payload.wire) + 1
      /\ k + 1 < k + 2
  BY <1>3, <1>5
<1>7. Boundary(k + 1) + 8 <= Boundary(k + 2) /\ Boundary(k + 2) \in Nat
  BY <1>3, <1>6, BoundaryBefore, BoundaryType
<1>8. CASE offset + 8 <= payload.size
  <2>1. Fits(Boundary(k + 1), MessageHeaderSize)
    BY <1>2, <1>8 DEF Fits, MessageHeaderSize
  <2>2. header' = [template |-> payload.wire[k + 1].template,
                   block |-> payload.wire[k + 1].block]
    BY <1>0, <1>2, <1>6, <2>1, HeadersAtBoundary
  <2>3. InStep(k)'
    BY <1>0, <1>1, <1>2, <1>5, <1>8, <2>2 DEF InStep, MessageHeaderSize
  <2> QED
    BY <1>0, <1>1, <2>3 DEF Placed
<1>9. CASE ~(offset + 8 <= payload.size)
  <2>1. header' = NoHeader
    BY <1>0, <1>9 DEF HeadersAt, Fits, MessageHeaderSize
  <2>2. payload.size < Boundary(k + 2) /\ offset' >= payload.size
    BY <1>0, <1>2, <1>3, <1>4, <1>7, <1>9
  <2>3. Cut(k)'
    BY <1>0, <1>1, <1>2, <1>5, <2>1, <2>2 DEF Cut
  <2> QED
    BY <1>0, <1>1, <2>3 DEF Placed
<1> QED
  BY <1>8, <1>9

(* What is known in step behind a header.                                   *)
LEMMA AtMessage ==
  ASSUME Typed, NEW k \in 0 .. Len(payload.wire), InStep(k), pc = "message"
  PROVE  /\ k < Len(payload.wire) /\ k + 1 \in 1 .. Len(payload.wire)
         /\ k + 2 \in 1 .. Len(payload.wire) + 1 /\ (k + 1) + 1 = k + 2
         /\ offset = Boundary(k + 1) + 8 /\ offset <= payload.size
         /\ Boundary(k + 1) \in Nat /\ Boundary(k + 2) \in Nat
         /\ header.template = payload.wire[k + 1].template
         /\ header.block = payload.wire[k + 1].block
         /\ header.block \in Nat /\ offset \in Nat /\ payload.size \in Nat
<1>1. k \in Nat /\ Len(payload.wire) \in Nat /\ payload.size \in Nat
  BY WireTyped
<1>2. /\ k < Len(payload.wire)
      /\ offset = Boundary(k + 1) + 8 /\ offset <= payload.size
      /\ header = [template |-> payload.wire[k + 1].template,
                   block |-> payload.wire[k + 1].block]
  BY DEF InStep, MessageHeaderSize
<1>3. /\ k + 1 \in 1 .. Len(payload.wire) /\ (k + 1) + 1 = k + 2
      /\ k + 1 \in 1 .. Len(payload.wire) + 1 /\ k + 2 \in 1 .. Len(payload.wire) + 1
  BY <1>1, <1>2
<1>4. Boundary(k + 1) \in Nat /\ Boundary(k + 2) \in Nat
  BY <1>3, BoundaryType
<1>5. header.block \in Nat /\ offset \in Nat
  BY DEF Typed, Headers
<1>6. header.template = payload.wire[k + 1].template
      /\ header.block = payload.wire[k + 1].block
  BY <1>2
<1> QED
  BY <1>1, <1>2, <1>3, <1>4, <1>5, <1>6

(* In step, a message of a fixed size is decoded as it was sent,           *)
LEMMA FixedInStep ==
  ASSUME Typed, NEW k \in 0 .. Len(payload.wire), DescribedUpTo(k), InStep(k),
         Described(payload.wire[k + 1]), ParseFixed
  PROVE  Placed'
<1> DEFINE m == payload.wire[k + 1]
           n == StructSize[m.template]
           d == Decoded(m.template, offset, <<>>, <<>>, Fits(offset, n))
<1>0. pc = "message"
  BY DEF ParseFixed
<1>1. /\ k < Len(payload.wire) /\ k + 1 \in 1 .. Len(payload.wire)
      /\ offset = Boundary(k + 1) + 8 /\ Boundary(k + 1) \in Nat /\ Boundary(k + 2) \in Nat
      /\ header.template = m.template /\ offset \in Nat /\ payload.size \in Nat
      /\ (k + 1) + 1 = k + 2
  BY <1>0, AtMessage
<1>2. /\ m.template \in FixedTemplates /\ m.template \in KnownTemplates /\ n \in Nat
  BY <1>1, FixedSizes DEF ParseFixed, KnownTemplates
<1>3. /\ messages' = Append(messages, d) /\ offset' = offset + n
      /\ payload' = payload /\ pc' = "loop" /\ messageHeader' = header
  BY <1>1 DEF ParseFixed, EndRound
<1>4. Boundary(k + 2) = Boundary(k + 1) + 8 + n /\ m.groups = <<>>
  BY <1>1, <1>2, FixedEnds
<1>5. d \in DecodedOf(KnownTemplates)
  <2>1. Fits(offset, n) \in BOOLEAN /\ <<>> \in Seq(Nat)
    BY DEF Fits
  <2> QED
    BY <1>1, <1>2, <2>1, DecodedType
<1>6. offset' = Boundary(k + 2) /\ Fits(offset, n) = (Boundary(k + 2) <= payload.size)
  <2> HIDE DEF n
  <2> QED
    BY <1>1, <1>2, <1>3, <1>4 DEF Fits
<1>7. IF Boundary(k + 2) <= payload.size THEN offset' = Boundary(k + 2)
      ELSE offset' >= payload.size
  BY <1>1, <1>6
<1>8. IF Boundary(k + 2) <= payload.size THEN d = AsSent(k + 1) ELSE ~d.intact
  <2>1. d.intact = Fits(offset, n)
    BY DEF Decoded
  <2>2. ASSUME Fits(offset, n) PROVE d = AsSent(k + 1)
    <3>1. [g \in DOMAIN <<>> |-> m.groups[g].count] = <<>>
      OBVIOUS
    <3>2. Fits(offset, n) = TRUE
      BY <2>2 DEF Fits
    <3>3. AsSent(k + 1) = Decoded(m.template, offset, <<>>, <<>>, TRUE)
      BY <1>1, <1>4, <3>1 DEF AsSent, MessageHeaderSize
    <3> QED
      BY <3>2, <3>3
  <2> HIDE DEF d
  <2> QED
    BY <1>6, <2>1, <2>2
<1> HIDE DEF d
<1> QED
  BY <1>1, <1>2, <1>3, <1>5, <1>7, <1>8, RoundInStep

(* one decode() has no case for is passed over                             *)
LEMMA UnknownInStep ==
  ASSUME Typed, NEW k \in 0 .. Len(payload.wire), DescribedUpTo(k), InStep(k),
         Described(payload.wire[k + 1]), SkipUnknown
  PROVE  Placed'
<1> DEFINE m == payload.wire[k + 1]
<1>0. pc = "message"
  BY DEF SkipUnknown
<1>1. /\ k < Len(payload.wire) /\ k + 1 \in 1 .. Len(payload.wire)
      /\ offset = Boundary(k + 1) + 8 /\ Boundary(k + 1) \in Nat /\ Boundary(k + 2) \in Nat
      /\ header.template = m.template /\ offset \in Nat /\ payload.size \in Nat
      /\ (k + 1) + 1 = k + 2 /\ header.block = m.block /\ m.block \in Nat
  BY <1>0, AtMessage
<1>2. m.template \notin KnownTemplates
  BY <1>1 DEF SkipUnknown
<1>3. /\ messages' = messages /\ offset' = offset + m.block
      /\ payload' = payload /\ pc' = "loop" /\ messageHeader' = header
  BY <1>1 DEF SkipUnknown, BlockEnd, EndRound
<1>4. offset' = Boundary(k + 2)
  BY <1>1, <1>2, <1>3, UnknownEnds
<1>5. IF Boundary(k + 2) <= payload.size THEN offset' = Boundary(k + 2)
      ELSE offset' >= payload.size
  BY <1>1, <1>4
<1>6. PICK d : d \in DecodedOf(KnownTemplates)
  <2>1. "OrderBookSnapshot" \in KnownTemplates /\ <<>> \in Seq(Nat) /\ 0 \in Nat
        /\ TRUE \in BOOLEAN
    BY DEF KnownTemplates
  <2> QED
    BY <2>1, DecodedType
<1> QED
  BY <1>1, <1>2, <1>3, <1>5, <1>6, RoundInStep

(* and a snapshot is decoded with the entries it was sent with.            *)
LEMMA SnapshotInStep ==
  ASSUME Typed, NEW k \in 0 .. Len(payload.wire), DescribedUpTo(k), InStep(k),
         Described(payload.wire[k + 1]), ParseOrderBookSnapshot
  PROVE  Placed'
<1> DEFINE m == payload.wire[k + 1]
           sent == m.groups[1].count
           fits == offset' <= payload.size
<1>0. pc = "message"
  BY DEF ParseOrderBookSnapshot
<1>1. /\ k < Len(payload.wire) /\ k + 1 \in 1 .. Len(payload.wire)
      /\ offset = Boundary(k + 1) + 8 /\ Boundary(k + 1) \in Nat /\ Boundary(k + 2) \in Nat
      /\ header.template = m.template /\ offset \in Nat /\ payload.size \in Nat
      /\ (k + 1) + 1 = k + 2
  BY <1>0, AtMessage
<1>2. m.template = "OrderBookSnapshot" /\ m.template \in KnownTemplates
  BY <1>1 DEF ParseOrderBookSnapshot, KnownTemplates
<1>3. PICK n \in CountsAt(offset + 16) :
        /\ offset' = offset + 16 + 3 + n * 57
        /\ messages' = Append(messages, Decoded(m.template, offset, <<n>>, <<n>>, fits))
  BY <1>1
  DEF ParseOrderBookSnapshot, VectorEnd, SnapshotBaseSize, GroupSizeSize, SnapshotEntrySize
<1>4. /\ payload' = payload /\ pc' = "loop" /\ messageHeader' = header
  BY DEF ParseOrderBookSnapshot, EndRound
<1>5. /\ Len(m.groups) = 1
      /\ GroupAt(k + 1, 1) = offset + 16
      /\ Boundary(k + 2) = offset + 16 + 3 + sent * 57
  BY <1>1, <1>2, SnapshotEnds
<1>6. n \in Nat /\ sent \in Nat
  <2>1. n \in 0 .. 255
    BY CountsAtType
  <2>2. 1 \in 1 .. Len(m.groups)
    BY <1>5
  <2>3. sent \in Nat
    BY <1>1, <2>2, WireGroupsTyped
  <2> QED
    BY <2>1, <2>3
<1> HIDE DEF sent
<1>7. fits \in BOOLEAN
  OBVIOUS
<1> HIDE DEF fits
<1> DEFINE d == Decoded(m.template, offset, <<n>>, <<n>>, fits)
<1>8. d \in DecodedOf(KnownTemplates)
  <2>1. <<n>> \in Seq(Nat)
    BY <1>6
  <2> QED
    BY <1>1, <1>2, <1>7, <2>1, DecodedType
<1>9. d.intact = fits
  BY DEF Decoded
<1>10. CASE offset + 16 + 3 <= payload.size
  <2>1. n = sent
    <3>1. Fits(GroupAt(k + 1, 1), GroupSizeSize)
      BY <1>5, <1>10 DEF Fits, GroupSizeSize
    <3>2. 1 \in 1 .. Len(m.groups)
      BY <1>5
    <3>3. CountsAt(offset + 16) = {sent}
      BY <1>1, <1>5, <3>1, <3>2, CountsAtGroup DEF sent
    <3> QED
      BY <1>3, <3>3
  <2>2. offset' = Boundary(k + 2)
    BY <1>3, <1>5, <2>1
  <2>3. IF Boundary(k + 2) <= payload.size THEN offset' = Boundary(k + 2)
        ELSE offset' >= payload.size
    BY <1>1, <2>2
  <2>4. IF Boundary(k + 2) <= payload.size THEN d = AsSent(k + 1) ELSE ~d.intact
    <3>1. ASSUME fits PROVE d = AsSent(k + 1)
      <4>1. fits = TRUE
        BY <1>7, <3>1
      <4>2. AsSent(k + 1).counts = <<n>>
        <5> DEFINE counts == AsSent(k + 1).counts
        <5>1. counts \in Seq(Nat) /\ Len(counts) = 1
          BY <1>1, <1>5, AsSentType
        <5>2. counts[1] = n
          <6>1. 1 \in 1 .. Len(m.groups)
            BY <1>5
          <6> QED
            BY <1>1, <2>1, <6>1, AsSentType DEF sent
        <5> HIDE DEF counts
        <5>3. counts = <<n>>
          BY <5>1, <5>2
        <5> QED
          BY <5>3 DEF counts
      <4>3. AsSent(k + 1) = Decoded(m.template, offset, <<n>>, <<n>>, TRUE)
        BY <1>1, <4>2, AsSentType
      <4> QED
        BY <4>1, <4>3
    <3>2. fits = (Boundary(k + 2) <= payload.size)
      BY <2>2 DEF fits
    <3> HIDE DEF d
    <3> QED
      BY <1>9, <3>1, <3>2
  <2> HIDE DEF d
  <2> QED
    BY <1>1, <1>2, <1>3, <1>4, <1>8, <2>3, <2>4, RoundInStep DEF d
<1>11. CASE ~(offset + 16 + 3 <= payload.size)
  <2> DEFINE entries == n * 57
             entriesSent == sent * 57
  <2>1. entries \in Nat /\ entriesSent \in Nat
    BY <1>6
  <2>2. offset' = offset + 16 + 3 + entries
        /\ Boundary(k + 2) = offset + 16 + 3 + entriesSent
    BY <1>3, <1>5
  <2> HIDE DEF entries, entriesSent
  <2> DEFINE from == offset + 16 + 3
  <2>3. from \in Nat /\ payload.size < from
    BY <1>1, <1>11
  <2>4. offset' = from + entries /\ Boundary(k + 2) = from + entriesSent
    BY <2>2
  <2> HIDE DEF from
  <2>5. ~(Boundary(k + 2) <= payload.size) /\ offset' >= payload.size
        /\ ~(offset' <= payload.size)
    BY <1>1, <2>1, <2>3, <2>4
  <2>6. ~d.intact
    BY <1>9, <2>5 DEF fits
  <2> HIDE DEF d
  <2> QED
    BY <1>1, <1>2, <1>3, <1>4, <1>8, <2>5, <2>6, RoundInStep DEF d
<1> QED
  BY <1>10, <1>11

(* A SecurityDefinition ends behind each of its groups.                     *)
LEMMA DefinitionInMessage ==
  ASSUME Typed, NEW k \in 1 .. Len(payload.wire), Described(payload.wire[k]),
         payload.wire[k].template = "SecurityDefinition", NEW g \in 1 .. 6
  PROVE  /\ GroupAt(k, g) \in Nat /\ GroupAt(k, g) <= Boundary(k + 1)
         /\ g < 6 => GroupAt(k, g) + 3 <= Boundary(k + 1)
<1> DEFINE N == Len(payload.wire[k].groups)
<1>1. N = 5 /\ Boundary(k + 1) = GroupAt(k, 6) + 24
  BY DefinitionEnds
<1>2. g \in 1 .. N + 1
  BY <1>1
<1>3. GroupAt(k, g) \in Nat
  BY <1>2, GroupAtType
<1>4. g < 6 => g \in 1 .. N
  BY <1>1
<1>5. g < 6 => GroupAt(k, g) + 3 <= Boundary(k + 1)
  BY <1>4, GroupInMessage
<1>6. k + 1 \in 1 .. Len(payload.wire) + 1
  BY WireTyped
<1>7. Boundary(k + 1) \in Nat
  BY <1>6, BoundaryType
<1>8. g = 6 => GroupAt(k, g) <= Boundary(k + 1)
  BY <1>1, <1>3
<1>9. g < 6 => GroupAt(k, g) <= Boundary(k + 1)
  BY <1>3, <1>5, <1>7
<1> QED
  BY <1>3, <1>5, <1>8, <1>9

(* The fields of a SecurityDefinition end where its first group begins,    *)
LEMMA FieldsInStep ==
  ASSUME Typed, NEW k \in 0 .. Len(payload.wire), DescribedUpTo(k), InStep(k),
         Described(payload.wire[k + 1]), ParseDefinitionFields
  PROVE  Placed'
<1> DEFINE m == payload.wire[k + 1]
<1>0. pc = "message"
  BY DEF ParseDefinitionFields
<1>1. /\ k < Len(payload.wire) /\ k + 1 \in 1 .. Len(payload.wire)
      /\ offset = Boundary(k + 1) + 8 /\ Boundary(k + 1) \in Nat /\ Boundary(k + 2) \in Nat
      /\ header.template = m.template /\ offset \in Nat /\ payload.size \in Nat
      /\ (k + 1) + 1 = k + 2
  BY <1>0, AtMessage
<1>2. m.template = "SecurityDefinition"
  BY <1>1 DEF ParseDefinitionFields
<1>3. /\ payload' = payload /\ pc' = "groups" /\ header' = header /\ messages' = messages
      /\ offset' = DefinitionFieldsEnd(offset)
      /\ definition' = Decoded(m.template, offset, <<>>, <<>>,
                               offset' = offset + DefinitionFieldBytes)
  BY <1>1 DEF ParseDefinitionFields
<1>4. /\ \A j : Boundary(j)' = Boundary(j)
      /\ \A j, g : GroupAt(j, g)' = GroupAt(j, g)
      /\ \A n : DescribedUpTo(n)' = DescribedUpTo(n)
      /\ Due' = Due
  BY <1>3, SamePayload
<1>5. Intact' = Intact /\ Intact = Due[k] /\ Boundary(k + 1) <= payload.size
  BY <1>3 DEF Intact, InStep
<1>6. GroupAt(k + 1, 1) = offset + DefinitionFieldBytes
  BY <1>1, <1>2, DefinitionEnds
<1>7. GroupAt(k + 1, 1) \in Nat /\ GroupAt(k + 1, 1) <= Boundary(k + 2)
  BY <1>1, <1>2, DefinitionInMessage
<1>8. /\ definition'.at = offset /\ definition'.counts = <<>> /\ definition'.entries = <<>>
      /\ definition'.intact = (offset' = offset + DefinitionFieldBytes)
  BY <1>3 DEF Decoded
<1>9. CASE offset' = offset + DefinitionFieldBytes /\ offset + DefinitionFieldBytes <= payload.size
  <2>1. Len(definition'.counts) = 0
    BY <1>8
  <2>2. DefinitionInStep(k + 1)'
    <3>1. offset' = GroupAt(k + 1, 0 + 1)' /\ offset' <= payload'.size
      BY <1>3, <1>4, <1>6, <1>9
    <3>2. definition'.at = Boundary(k + 1)' + MessageHeaderSize
      BY <1>1, <1>4, <1>8 DEF MessageHeaderSize
    <3>3. payload'.wire[k + 1].template = "SecurityDefinition"
          /\ Described(payload'.wire[k + 1])
          /\ header'.template = payload'.wire[k + 1].template
      BY <1>1, <1>2, <1>3
    <3>4. definition'.intact /\ definition'.entries = definition'.counts
      BY <1>8, <1>9
    <3>5. \A j \in 1 .. 0 :
            definition'.counts[j] = payload'.wire[k + 1].groups[j].count
      OBVIOUS
    <3> QED
      BY <2>1, <3>1, <3>2, <3>3, <3>4, <3>5 DEF DefinitionInStep
  <2>3. InStep(k)'
    BY <1>1, <1>3, <1>4, <1>5, <2>2 DEF InStep
  <2> QED
    BY <1>3, <1>4, <2>3 DEF Placed
<1>10. CASE ~(offset' = offset + DefinitionFieldBytes
              /\ offset + DefinitionFieldBytes <= payload.size)
  <2>1. /\ offset' < offset + DefinitionFieldBytes
        /\ payload.size < offset + DefinitionFieldBytes /\ offset' \in Nat
        /\ DefinitionFieldBytes \in Nat
    BY <1>1, <1>3, <1>10, FieldsEnd
  <2>2. offset' # offset + DefinitionFieldBytes
    BY <1>1, <2>1
  <2>3. payload.size < Boundary(k + 2)
    BY <1>1, <1>6, <1>7, <2>1
  <2>4. Cut(k)'
    BY <1>1, <1>3, <1>4, <1>5, <1>8, <2>2, <2>3 DEF Cut
  <2> QED
    BY <1>3, <1>4, <2>4 DEF Placed
<1> QED
  BY <1>9, <1>10

(* each group where the next one begins, its count being the one sent,     *)
LEMMA GroupInStep ==
  ASSUME Typed, NEW k \in 0 .. Len(payload.wire), DescribedUpTo(k), InStep(k),
         ParseDefinitionGroup
  PROVE  Placed'
<1> DEFINE m == payload.wire[k + 1]
           g == Len(definition.counts) + 1
           length(c) == IF g <= 2 THEN c ELSE definition.counts[1]
           sent == m.groups[g].count
           entry == DefinitionEntrySizes[g]
<1>0. pc = "groups" /\ payload' = payload /\ header' = header /\ messages' = messages
      /\ pc' \in {"groups", "strings"}
  BY DEF ParseDefinitionGroup
<1>1. /\ k < Len(payload.wire) /\ DefinitionInStep(k + 1)
      /\ Intact = Due[k] /\ Boundary(k + 1) <= payload.size
  BY <1>0 DEF InStep
<1>2. /\ \A j : Boundary(j)' = Boundary(j)
      /\ \A j, h : GroupAt(j, h)' = GroupAt(j, h)
      /\ \A n : DescribedUpTo(n)' = DescribedUpTo(n)
      /\ Due' = Due
  BY <1>0, SamePayload
<1>3. Intact' = Intact
  BY <1>0 DEF Intact
<1>4. /\ m.template = "SecurityDefinition" /\ Described(m)
      /\ header.template = m.template
      /\ definition.at = Boundary(k + 1) + MessageHeaderSize
      /\ definition.intact
      /\ \A j \in 1 .. Len(definition.counts) : definition.counts[j] = m.groups[j].count
      /\ definition.entries = definition.counts
      /\ offset = GroupAt(k + 1, g) /\ offset <= payload.size
  BY <1>1 DEF DefinitionInStep
<1>5. k + 1 \in 1 .. Len(payload.wire) /\ (k + 1) + 1 = k + 2
      /\ payload.size \in Nat /\ offset \in Nat
  BY <1>1, WireTyped DEF Typed
<1>6. definition \in DecodedOf({"SecurityDefinition", "Zero"})
      /\ definition.counts \in Seq(Nat) /\ definition.entries \in Seq(Nat)
  BY DEF Typed, DecodedOf
<1>7. PICK n \in CountsAt(offset) :
        /\ g \in 1 .. 5 /\ n \in Nat /\ length(n) \in Nat /\ (g = 1 => length(n) = n)
        /\ definition' = [definition EXCEPT !.counts = Append(@, n),
                                            !.entries = Append(@, length(n))]
        /\ offset' = offset + 3 + length(n) * entry
        /\ offset' \in Nat /\ offset + 3 <= offset'
  BY GroupParsed
<1>8. /\ Len(m.groups) = 5
      /\ GroupAt(k + 1, g + 1) = GroupAt(k + 1, g) + 3 + sent * entry
      /\ g > 2 => sent = m.groups[1].count
  BY <1>4, <1>5, <1>7, DefinitionEnds
<1>9. /\ GroupAt(k + 1, g + 1) <= Boundary(k + 2)
      /\ GroupAt(k + 1, g) + 3 <= Boundary(k + 2)
      /\ GroupAt(k + 1, g + 1) \in Nat
  <2>1. g \in 1 .. 6 /\ g + 1 \in 1 .. 6 /\ g < 6
    BY <1>7
  <2> HIDE DEF g
  <2> QED
    BY <1>4, <1>5, <2>1, DefinitionInMessage
<1>10. Boundary(k + 2) \in Nat
  <2>1. k + 2 \in 1 .. Len(payload.wire) + 1
    BY <1>5, WireTyped
  <2> QED
    BY <2>1, BoundaryType
<1>11. /\ definition'.template = definition.template /\ definition'.at = definition.at
       /\ definition'.intact = definition.intact
       /\ definition'.counts = Append(definition.counts, n)
       /\ definition'.entries = Append(definition.entries, length(n))
  <2> HIDE DEF length
  <2> QED
    BY <1>6, <1>7 DEF DecodedOf
<1>12. CASE offset + 3 <= payload.size
  <2>1. n = sent
    <3>1. Fits(GroupAt(k + 1, g), GroupSizeSize)
      BY <1>4, <1>12 DEF Fits, GroupSizeSize
    <3>2. g \in 1 .. Len(m.groups)
      BY <1>7, <1>8
    <3> HIDE DEF g
    <3>3. CountsAt(GroupAt(k + 1, g)) = {sent}
      BY <1>5, <3>1, <3>2, CountsAtGroup
    <3> QED
      BY <1>4, <1>7, <3>3
  <2>2. length(n) = n
    <3>1. CASE g <= 2
      BY <3>1
    <3>2. CASE ~(g <= 2)
      <4>1. g > 2 /\ 1 \in 1 .. Len(definition.counts)
        BY <1>6, <1>7, <3>2
      <4>2. definition.counts[1] = m.groups[1].count
        BY <1>4, <4>1
      <4> QED
        BY <1>8, <2>1, <3>2, <4>1, <4>2
    <3> QED
      BY <3>1, <3>2
  <2>3. offset' = GroupAt(k + 1, g + 1)
    <3> HIDE DEF length, sent, g, entry
    <3> QED
      BY <1>4, <1>7, <1>8, <2>1, <2>2
  <2>4. CASE offset' <= payload.size
    <3>1. Len(definition'.counts) = g
      BY <1>6, <1>11
    <3>2. \A j \in 1 .. g : definition'.counts[j] = m.groups[j].count
      <4>1. \A j \in 1 .. Len(definition.counts) : definition'.counts[j] = m.groups[j].count
        <5>1. \A j \in 1 .. Len(definition.counts) :
                definition'.counts[j] = definition.counts[j]
          BY <1>6, <1>11
        <5> QED
          BY <1>4, <5>1
      <4>2. definition'.counts[g] = m.groups[g].count
        <5>1. definition'.counts[g] = n
          BY <1>6, <1>11
        <5> QED
          BY <2>1, <5>1
      <4>3. \A j \in 1 .. g : j \in 1 .. Len(definition.counts) \/ j = g
        BY <1>6
      <4> HIDE DEF g
      <4> QED
        BY <4>1, <4>2, <4>3
    <3>3. definition'.entries = definition'.counts
      <4> HIDE DEF length
      <4> QED
        BY <1>4, <1>11, <2>2
    <3>4. PICK parsed : parsed = g
      OBVIOUS
    <3>5. /\ payload'.wire[k + 1].template = "SecurityDefinition"
          /\ Described(payload'.wire[k + 1])
          /\ header'.template = payload'.wire[k + 1].template
          /\ definition'.at = Boundary(k + 1)' + MessageHeaderSize
          /\ definition'.intact
          /\ \A j \in 1 .. g : definition'.counts[j] = payload'.wire[k + 1].groups[j].count
      BY <1>0, <1>2, <1>4, <1>11, <3>2
    <3>6. Len(definition'.counts) = parsed
          /\ \A j \in 1 .. parsed :
               definition'.counts[j] = payload'.wire[k + 1].groups[j].count
      BY <3>1, <3>4, <3>5
    <3>7. offset' = GroupAt(k + 1, parsed + 1)' /\ offset' <= payload'.size
      <4>1. offset' = GroupAt(k + 1, parsed + 1)
        BY <2>3, <3>4
      <4> QED
        BY <1>0, <1>2, <2>4, <4>1
    <3>8. DefinitionInStep(k + 1)'
      BY <3>3, <3>5, <3>6, <3>7 DEF DefinitionInStep
    <3>9. InStep(k)'
      BY <1>0, <1>1, <1>2, <1>3, <3>8 DEF InStep
    <3> QED
      BY <1>0, <1>2, <3>9 DEF Placed
  <2>5. CASE ~(offset' <= payload.size)
    <3>1. payload.size < Boundary(k + 2) /\ offset' > payload.size
      BY <1>5, <1>7, <1>9, <1>10, <2>3, <2>5
    <3>2. Cut(k)'
      BY <1>0, <1>1, <1>2, <1>3, <3>1 DEF Cut
    <3> QED
      BY <1>0, <1>2, <3>2 DEF Placed
  <2> QED
    BY <2>4, <2>5
<1>13. CASE ~(offset + 3 <= payload.size)
  <2>1. offset + 3 <= offset' /\ offset' \in Nat /\ offset + 3 <= Boundary(k + 2)
    BY <1>4, <1>7, <1>9
  <2>2. payload.size < Boundary(k + 2) /\ offset' > payload.size
    BY <1>5, <1>10, <1>13, <2>1
  <2>3. Cut(k)'
    BY <1>0, <1>1, <1>2, <1>3, <2>2 DEF Cut
  <2> QED
    BY <1>0, <1>2, <2>3 DEF Placed
<1> QED
  BY <1>12, <1>13

(* and the strings where the message ends.                                 *)
LEMMA StringsInStep ==
  ASSUME Typed, NEW k \in 0 .. Len(payload.wire), DescribedUpTo(k), InStep(k),
         ParseDefinitionStrings
  PROVE  Placed'
<1> DEFINE m == payload.wire[k + 1]
           fits == offset' <= payload.size
           d == [definition EXCEPT !.intact = @ /\ fits]
<1>0. /\ pc = "strings" /\ payload' = payload /\ pc' = "loop" /\ messageHeader' = header
      /\ messages' = Append(messages, d) /\ offset' = offset + 24
  BY DEF ParseDefinitionStrings, EndRound, StringLengthSize, StringStructSize, Typed
<1>1. /\ definition \in DecodedOf({"SecurityDefinition", "Zero"})
      /\ definition.template = "SecurityDefinition" /\ Len(definition.counts) = 5
      /\ offset \in Nat /\ payload.size \in Nat
  BY <1>0, WireTyped DEF Typed
<1>2. k < Len(payload.wire) /\ DefinitionInStep(k + 1)
  BY <1>0 DEF InStep
<1>3. k + 1 \in 1 .. Len(payload.wire) /\ (k + 1) + 1 = k + 2
  BY <1>2, WireTyped
<1>4. /\ m.template = "SecurityDefinition" /\ Described(m)
      /\ header.template = m.template
      /\ definition.at = Boundary(k + 1) + 8
      /\ definition.intact
      /\ \A j \in 1 .. 5 : definition.counts[j] = m.groups[j].count
      /\ definition.entries = definition.counts
      /\ offset = GroupAt(k + 1, 5 + 1)
  BY <1>1, <1>2 DEF DefinitionInStep, MessageHeaderSize
<1>5. Len(m.groups) = 5 /\ Boundary(k + 2) = GroupAt(k + 1, 6) + 24
  BY <1>3, <1>4, DefinitionEnds
<1>6. offset' = Boundary(k + 2)
  BY <1>0, <1>4, <1>5
<1>7. offset' \in Nat
  BY <1>0, <1>1
<1>8. IF Boundary(k + 2) <= payload.size THEN offset' = Boundary(k + 2)
      ELSE offset' >= payload.size
  BY <1>1, <1>6, <1>7
<1>9. fits \in BOOLEAN /\ fits = (Boundary(k + 2) <= payload.size)
  BY <1>6
<1> HIDE DEF fits
<1>10. d \in DecodedOf(KnownTemplates)
  BY <1>1, <1>9 DEF DecodedOf, KnownTemplates
<1>11. m.template \in KnownTemplates
  BY <1>4 DEF KnownTemplates
<1>12. d.intact = (definition.intact /\ fits)
  BY <1>1 DEF DecodedOf
<1>13. ASSUME fits PROVE d = AsSent(k + 1)
  <2> DEFINE counts == AsSent(k + 1).counts
  <2>1. /\ counts \in Seq(Nat) /\ Len(counts) = 5
        /\ \A j \in 1 .. 5 : counts[j] = m.groups[j].count
        /\ AsSent(k + 1) = Decoded(m.template, Boundary(k + 1) + 8, counts, counts, TRUE)
    BY <1>3, <1>5, AsSentType
  <2> HIDE DEF counts
  <2>2. definition.counts = counts
    <3>1. definition.counts \in Seq(Nat)
      BY <1>1 DEF DecodedOf
    <3>2. \A j \in 1 .. 5 : definition.counts[j] = counts[j]
      BY <1>4, <2>1
    <3> QED
      BY <1>1, <2>1, <3>1, <3>2, SeqEqual
  <2>3. (definition.intact /\ fits) = TRUE
    BY <1>4, <1>13, <1>9
  <2>4. d = [template |-> definition.template, at |-> definition.at,
             counts |-> definition.counts, entries |-> definition.entries,
             intact |-> definition.intact /\ fits]
    BY <1>1 DEF DecodedOf
  <2> HIDE DEF d
  <2>5. d = Decoded(m.template, Boundary(k + 1) + 8, counts, counts, TRUE)
    BY <1>1, <1>4, <2>2, <2>3, <2>4 DEF Decoded
  <2> QED
    BY <2>1, <2>5
<1> HIDE DEF d
<1>14. IF Boundary(k + 2) <= payload.size THEN d = AsSent(k + 1) ELSE ~d.intact
  BY <1>9, <1>12, <1>13
<1> QED
  BY <1>0, <1>2, <1>4, <1>8, <1>10, <1>11, <1>14, RoundInStep

(* In step, every step is one the sender meant.                             *)
LEMMA InStepStep ==
  ASSUME Typed, Next, ~Returned, pc \notin {"packet", "incremental"},
         payload.size <= Boundary(Len(payload.wire) + 1),
         NEW k \in 0 .. Len(payload.wire), DescribedUpTo(k), InStep(k)
  PROVE  Placed'
<1>1. CASE pc = "message" /\ ~Described(payload.wire[k + 1])
  <2>1. /\ k < Len(payload.wire) /\ offset = Boundary(k + 1) + 8
        /\ Boundary(k + 1) \in Nat
    BY <1>1, AtMessage
  <2>2. IsPrefix(Due[k], Intact) /\ Boundary(k + 1) <= payload.size
    <3>1. Due[k] = Intact /\ Boundary(k + 1) <= payload.size
      BY DEF InStep
    <3>2. Intact \in Seq(Sent)
      BY IntactType
    <3> QED
      BY <3>1, <3>2, PrefixReflexive
  <2>3. Lost(k)
    BY <1>1, <2>1, <2>2 DEF Lost
  <2>4. Lost(k)' /\ payload' = payload
    BY <2>3, LostStep, Progress
  <2> QED
    BY <2>4, SamePayload DEF Placed
<1>2. CASE pc = "message" /\ Described(payload.wire[k + 1])
  BY <1>2, FixedInStep, SnapshotInStep, FieldsInStep, UnknownInStep
  DEF Next, ParsePacketHeader, ParseIncrementalHeader, ParseMessageHeader,
      ParseDefinitionGroup, ParseDefinitionStrings, Return
<1>3. CASE ParseMessageHeader
  BY <1>3, HeaderInStep
<1>4. CASE ParseDefinitionGroup
  BY <1>4, GroupInStep
<1>5. CASE ParseDefinitionStrings
  BY <1>5, StringsInStep
<1>6. CASE Return
  <2>1. /\ pc = "loop" /\ pc' = "done" /\ payload' = payload /\ offset' = offset
        /\ messageHeader' = messageHeader /\ messages' = messages
    BY <1>6 DEF Return
  <2>2. /\ \A j : Boundary(j)' = Boundary(j)
        /\ \A n : DescribedUpTo(n)' = DescribedUpTo(n)
        /\ Due' = Due /\ Intact' = Intact
    BY <2>1, SamePayload DEF Intact
  <2>3. InStep(k)'
    BY <2>1, <2>2 DEF InStep
  <2> QED
    BY <2>1, <2>2, <2>3 DEF Placed
<1> QED
  BY <1>1, <1>2, <1>3, <1>4, <1>5, <1>6
  DEF Next, ParsePacketHeader, ParseIncrementalHeader, ParseFixed, ParseOrderBookSnapshot,
      ParseDefinitionFields, SkipUnknown

(* decode() starts in front of the packet header.                          *)
LEMMA FramingInit == Init => Framing
<1> SUFFICES ASSUME Init PROVE Framing
  OBVIOUS
<1>1. PICK incremental \in BOOLEAN, wire \in Wires :
        \E size \in 0 .. HeaderBytes(incremental) + MessagesBytes(wire) :
          payload = [incremental |-> incremental, wire |-> wire, size |-> size]
  BY DEF Init
<1>2. PICK size \in 0 .. HeaderBytes(incremental) + MessagesBytes(wire) :
        payload = [incremental |-> incremental, wire |-> wire, size |-> size]
  BY <1>1
<1>3. wire \in Seq(WireMessages)
  BY WiresAssumption
<1>4. SubSeq(wire, 1, (Len(wire) + 1) - 1) = wire
  BY <1>3, SubSeqFull
<1>5. HeaderBytes(incremental) + MessagesBytes(wire) \in Nat
  BY <1>3, MessagesBytesType
  DEF HeaderBytes, MarketDataPacketHeaderSize, IncrementalPacketHeaderSize
<1>6. Boundary(Len(payload.wire) + 1) = HeaderBytes(incremental) + MessagesBytes(wire)
  BY <1>2, <1>4 DEF Boundary
<1>7. payload.size <= Boundary(Len(payload.wire) + 1)
  BY <1>2, <1>5, <1>6
<1> QED
  BY <1>7 DEF Init, Framing, Started

(* Every step leads to a place of which as much is known.                  *)
LEMMA FramingStep ==
  ASSUME Typed, Completeness, Framing, [Next]_vars
  PROVE  Framing'
<1>1. CASE ParsePacketHeader \/ ParseIncrementalHeader
  BY <1>1, StartStep
<1>2. CASE UNCHANGED vars
  BY <1>2, NothingChanges
<1>3. CASE Returned
  BY <1>3, NothingChanges DEF Returned
<1>4. CASE Next /\ ~ParsePacketHeader /\ ~ParseIncrementalHeader /\ ~Returned
  <2>1. pc \notin {"packet", "incremental"} /\ pc' \notin {"packet", "incremental"}
    BY <1>4
    DEF Next, ParseMessageHeader, ParseFixed, ParseOrderBookSnapshot, ParseDefinitionFields,
        ParseDefinitionGroup, ParseDefinitionStrings, SkipUnknown, Return, EndRound
  <2>2. payload' = payload
    BY Progress
  <2>3. /\ \A j : Boundary(j)' = Boundary(j)
        /\ \A n : DescribedUpTo(n)' = DescribedUpTo(n)
    BY <2>2, SamePayload
  <2>4. payload.size <= Boundary(Len(payload.wire) + 1) /\ Placed
    BY <2>1 DEF Framing
  <2>5. PICK k \in 0 .. Len(payload.wire) :
          DescribedUpTo(k) /\ (InStep(k) \/ Cut(k) \/ Lost(k))
    BY <2>4 DEF Placed
  <2>6. ASSUME InStep(k) PROVE Placed'
    BY <1>4, <2>1, <2>4, <2>5, <2>6, InStepStep
  <2>7. ASSUME Cut(k) PROVE Placed'
    <3>1. Cut(k)'
      BY <1>4, <2>1, <2>7, CutStep
    <3> QED
      BY <2>2, <2>3, <2>5, <3>1 DEF Placed
  <2>8. ASSUME Lost(k) PROVE Placed'
    <3>1. Lost(k)'
      BY <2>8, LostStep
    <3> QED
      BY <2>2, <2>3, <2>5, <3>1 DEF Placed
  <2>9. Placed'
    BY <2>5, <2>6, <2>7, <2>8
  <2> QED
    <3>1. pc' = "done" => offset' >= payload'.size
      BY <1>4
      DEF Next, ParseMessageHeader, ParseFixed, ParseOrderBookSnapshot,
          ParseDefinitionFields, ParseDefinitionGroup, ParseDefinitionStrings, SkipUnknown,
          Return, EndRound
    <3> QED
      BY <2>1, <2>2, <2>3, <2>4, <2>9, <3>1 DEF Framing, Started
<1> QED
  BY <1>1, <1>2, <1>3, <1>4

(* As long as what is due has been passed, it is what was sent so far.      *)
LEMMA SentIsDue ==
  ASSUME Typed, NEW n \in 0 .. Len(payload.wire),
         \A i \in 1 .. n : Boundary(i + 1) <= offset /\ Boundary(i + 1) <= payload.size
  PROVE  SentSoFar[n] = Due[n]
<1> DEFINE N == Len(payload.wire)
           s == [k \in DOMAIN payload.wire |-> AsSent(k)]
           passed == [k \in DOMAIN payload.wire |-> Passed(k)]
           known == [k \in DOMAIN payload.wire |-> payload.wire[k].template \in KnownTemplates]
<1>1. N \in Nat /\ DOMAIN payload.wire = 1 .. N
  BY WireTyped
<1>2. s \in [1 .. N -> Sent]
  BY <1>1, AsSentType
<1>3. ASSUME NEW i \in 1 .. n PROVE passed[i] = known[i]
  <2>1. i \in 1 .. N
    BY <1>1
  <2>2. MessageEnd(i) = Boundary(i + 1)
    BY <2>1, BoundaryStep DEF MessageEnd
  <2>3. Passed(i) = (payload.wire[i].template \in KnownTemplates)
    <3>1. MessageEnd(i) <= offset /\ MessageEnd(i) <= payload.size
      BY <2>2
    <3> DEFINE b == payload.wire[i].template \in KnownTemplates
    <3>2. Passed(i) <=> b
      BY <3>1 DEF Passed
    <3>3. Passed(i) \in BOOLEAN /\ b \in BOOLEAN
      BY DEF Passed
    <3> HIDE DEF b
    <3>4. Passed(i) = b
      BY <3>2, <3>3
    <3> QED
      BY <3>4 DEF b
  <2> QED
    BY <1>1, <2>1, <2>3
<1>4. SentSoFar = Kept(s, passed) /\ Due = Kept(s, known)
  BY DEF SentSoFar, Due
<1> HIDE DEF s, passed, known
<1>5. s \in Seq(Sent) /\ Len(s) = N
  BY <1>1, <1>2, FunctionIsSeq
<1>6. Agree(Sent, s, passed, s, known, n)
  BY <1>1, <1>3, <1>5 DEF Agree
<1> QED
  BY <1>4, <1>6, KeptAgree

(* As long as nothing more is passed, nothing more was sent.                *)
LEMMA NothingMoreSent ==
  ASSUME Typed, NEW k \in 0 .. Len(payload.wire), NEW n \in k .. Len(payload.wire),
         \A i \in k + 1 .. n : ~Passed(i)
  PROVE  SentSoFar[n] = SentSoFar[k]
<1> DEFINE N == Len(payload.wire)
           s == [j \in DOMAIN payload.wire |-> AsSent(j)]
           passed == [j \in DOMAIN payload.wire |-> Passed(j)]
<1>1. N \in Nat /\ DOMAIN payload.wire = 1 .. N
  BY WireTyped
<1>2. s \in [1 .. N -> Sent]
  BY <1>1, AsSentType
<1>3. \A i \in k + 1 .. n : ~passed[i]
  <2>1. \A i \in k + 1 .. n : i \in 1 .. N
    BY <1>1
  <2> QED
    BY <1>1, <2>1
<1>4. SentSoFar = Kept(s, passed)
  BY DEF SentSoFar
<1> HIDE DEF s, passed
<1>5. s \in Seq(Sent) /\ Len(s) = N
  BY <1>1, <1>2, FunctionIsSeq
<1>6. k \in 0 .. Len(s) /\ n \in k .. Len(s)
  BY <1>5
<1> QED
  BY <1>3, <1>4, <1>5, <1>6, KeptNothing

(* What is due stays at the beginning of what is due later.                 *)
LEMMA DueGrows ==
  ASSUME Typed, NEW k \in 0 .. Len(payload.wire), NEW n \in 0 .. k
  PROVE  IsPrefix(Due[n], Due[k])
<1> DEFINE N == Len(payload.wire)
           s == [j \in DOMAIN payload.wire |-> AsSent(j)]
           known == [j \in DOMAIN payload.wire |-> payload.wire[j].template \in KnownTemplates]
<1>1. N \in Nat /\ DOMAIN payload.wire = 1 .. N
  BY WireTyped
<1>2. s \in [1 .. N -> Sent]
  BY <1>1, AsSentType
<1>3. Due = Kept(s, known)
  BY DEF Due
<1> HIDE DEF s, known
<1>4. s \in Seq(Sent) /\ Len(s) = N
  BY <1>1, <1>2, FunctionIsSeq
<1>5. n \in 0 .. Len(s) /\ k \in n .. Len(s)
  BY <1>1, <1>4
<1> QED
  BY <1>3, <1>4, <1>5, KeptGrows

(* The invariant is as strong as it has to be.                              *)
LEMMA FramingDecodes ==
  ASSUME Typed, Framing
  PROVE  DecodesWhatWasSent
<1> SUFFICES ASSUME pc \in {"loop", "done"},
                    NEW n \in 0 .. Len(payload.wire), DescribedUpTo(n)
             PROVE  /\ IsPrefix(SentSoFar[n], Intact)
                    /\ n = Len(payload.wire) => SentSoFar[n] = Intact
  BY DEF DecodesWhatWasSent
<1>1. PICK k \in 0 .. Len(payload.wire) : InStep(k) \/ Cut(k) \/ Lost(k)
  BY DEF Framing, Placed
<1>2. /\ k \in Nat /\ n \in Nat /\ Len(payload.wire) \in Nat
      /\ k <= Len(payload.wire) /\ n <= Len(payload.wire)
      /\ offset \in Nat /\ payload.size \in Nat
  BY WireTyped DEF Typed
<1>3. \A i \in 1 .. Len(payload.wire) + 1 : Boundary(i) \in Nat
  BY BoundaryType
<1>4. ASSUME k > 0 => Boundary(k + 1) <= offset /\ Boundary(k + 1) <= payload.size,
             NEW j \in 0 .. k
      PROVE  SentSoFar[j] = Due[j]
  <2>1. ASSUME NEW i \in 1 .. j
        PROVE  Boundary(i + 1) <= offset /\ Boundary(i + 1) <= payload.size
    <3>1. /\ i + 1 \in 1 .. Len(payload.wire) + 1 /\ k + 1 \in 1 .. Len(payload.wire) + 1
          /\ i + 1 <= k + 1 /\ k > 0
      BY <1>2
    <3>2. Boundary(i + 1) <= Boundary(k + 1)
      BY <3>1, BoundaryMonotonic
    <3>3. Boundary(i + 1) \in Nat /\ Boundary(k + 1) \in Nat
      BY <1>3, <3>1
    <3> QED
      BY <1>2, <1>4, <3>1, <3>2, <3>3
  <2>2. j \in 0 .. Len(payload.wire)
    BY <1>2
  <2> QED
    BY <2>1, <2>2, SentIsDue
<1>5. ASSUME k > 0 => Boundary(k + 1) <= offset /\ Boundary(k + 1) <= payload.size,
             \A i \in k + 1 .. Len(payload.wire) : ~Passed(i),
             Intact = Due[k]
      PROVE  /\ IsPrefix(SentSoFar[n], Intact)
             /\ n = Len(payload.wire) => SentSoFar[n] = Intact
  <2>1. ASSUME k <= n PROVE SentSoFar[n] = Intact
    <3>1. n \in k .. Len(payload.wire) /\ k \in 0 .. k
      BY <1>2, <2>1
    <3>2. \A i \in k + 1 .. n : i \in k + 1 .. Len(payload.wire)
      BY <1>2
    <3>3. SentSoFar[n] = SentSoFar[k]
      BY <1>5, <3>1, <3>2, NothingMoreSent
    <3> QED
      BY <1>4, <1>5, <3>1, <3>3
  <2>2. ASSUME n < k PROVE IsPrefix(SentSoFar[n], Intact)
    <3>1. n \in 0 .. k
      BY <1>2, <2>2
    <3>2. SentSoFar[n] = Due[n]
      BY <1>4, <1>5, <3>1
    <3> QED
      BY <1>5, <3>1, <3>2, DueGrows
  <2>3. IsPrefix(Intact, Intact)
    BY IntactType, PrefixReflexive
  <2> QED
    BY <1>2, <2>1, <2>2, <2>3
<1>6. ASSUME NEW i \in k + 1 .. Len(payload.wire)
      PROVE  /\ k < Len(payload.wire) /\ k + 1 \in 1 .. Len(payload.wire) + 1
             /\ k + 2 \in 1 .. Len(payload.wire) + 1
             /\ Boundary(k + 1) + 8 <= Boundary(k + 2)
             /\ Boundary(k + 1) \in Nat /\ Boundary(k + 2) \in Nat
             /\ Boundary(k + 2) <= MessageEnd(i) /\ MessageEnd(i) \in Nat
  <2>1. /\ k < Len(payload.wire) /\ k + 1 \in 1 .. Len(payload.wire) + 1
        /\ k + 2 \in 1 .. Len(payload.wire) + 1 /\ i + 1 \in 1 .. Len(payload.wire) + 1
        /\ k + 1 < k + 2 /\ k + 2 <= i + 1 /\ i \in 1 .. Len(payload.wire)
    BY <1>2
  <2>2. MessageEnd(i) = Boundary(i + 1)
    BY <2>1, BoundaryStep DEF MessageEnd
  <2> QED
    BY <1>3, <2>1, <2>2, BoundaryBefore, BoundaryMonotonic
<1>7. CASE InStep(k)
  <2>1. /\ offset = Boundary(k + 1) /\ Boundary(k + 1) <= payload.size
        /\ Intact = Due[k]
    BY <1>7 DEF InStep
  <2>2. \A i \in k + 1 .. Len(payload.wire) : ~Passed(i)
    BY <1>2, <1>6, <2>1 DEF Passed
  <2>3. Boundary(k + 1) <= offset
    BY <1>2, <2>1
  <2> QED
    BY <1>5, <2>1, <2>2, <2>3
<1>8. CASE Cut(k)
  <2>1. /\ k > 0 => Boundary(k + 1) <= payload.size
        /\ k < Len(payload.wire) => payload.size < Boundary(k + 2)
        /\ Intact = Due[k] /\ offset >= payload.size
    BY <1>8 DEF Cut
  <2>2. \A i \in k + 1 .. Len(payload.wire) : ~Passed(i)
    BY <1>2, <1>6, <2>1 DEF Passed
  <2>3. k > 0 => Boundary(k + 1) <= offset
    <3>1. k + 1 \in 1 .. Len(payload.wire) + 1
      BY <1>2
    <3> QED
      BY <1>2, <1>3, <2>1, <3>1
  <2> QED
    BY <1>5, <2>1, <2>2, <2>3
<1>9. CASE Lost(k)
  <2>1. /\ k < Len(payload.wire) /\ ~Described(payload.wire[k + 1])
        /\ Boundary(k + 1) <= offset
        /\ Boundary(k + 1) <= payload.size
        /\ IsPrefix(Due[k], Intact)
    BY <1>9 DEF Lost
  <2>2. n \in 0 .. k /\ n # Len(payload.wire)
    <3>1. ~(k + 1 \in 1 .. n)
      BY <2>1 DEF DescribedUpTo
    <3> QED
      BY <1>2, <2>1, <3>1
  <2>3. SentSoFar[n] = Due[n]
    BY <1>4, <2>1, <2>2
  <2>4. IsPrefix(Due[n], Due[k])
    BY <2>2, DueGrows
  <2>5. n \in 0 .. Len(payload.wire) /\ Due[n] \in Seq(Sent) /\ Due[k] \in Seq(Sent)
        /\ Intact \in Seq(Sent)
    BY DueStep, IntactType
  <2> QED
    BY <2>1, <2>2, <2>3, <2>4, <2>5, PrefixTransitive
<1> QED
  BY <1>1, <1>7, <1>8, <1>9

(* It is strong enough for the header that is reported as well.            *)
LEMMA FramingReports ==
  ASSUME Typed, Framing
  PROVE  ReportsLastHeader
<1> SUFFICES ASSUME pc = "done", ~Truncated, payload.wire # <<>>,
                    DescribedUpTo(Len(payload.wire))
             PROVE  messageHeader.template = Last(payload.wire).template
  BY DEF ReportsLastHeader
<1> DEFINE N == Len(payload.wire)
<1>1. N \in Nat /\ N > 0 /\ N + 1 \in 1 .. N + 1 /\ payload.size \in Nat
  BY WireTyped
<1>2. Boundary(N + 1) <= payload.size
  <2>1. Boundary(N + 1) \in Nat
    BY <1>1, BoundaryType
  <2> QED
    BY <1>1, <2>1 DEF Truncated
<1>3. PICK k \in 0 .. N : InStep(k) \/ Cut(k) \/ Lost(k)
  BY DEF Framing, Placed
<1>4. ~Lost(k)
  <2>1. k < N => k + 1 \in 1 .. N
    BY <1>1
  <2> QED
    BY <2>1 DEF Lost, DescribedUpTo
<1>5. ~Cut(k)
  <2> SUFFICES ASSUME Cut(k) PROVE FALSE
    OBVIOUS
  <2>1. k < N /\ payload.size < Boundary(k + 2)
    BY <1>1 DEF Cut
  <2>2. k + 2 \in 1 .. N + 1 /\ k + 2 <= N + 1
    BY <1>1, <2>1
  <2>3. Boundary(k + 2) <= Boundary(N + 1) /\ Boundary(k + 2) \in Nat /\ Boundary(N + 1) \in Nat
    BY <1>1, <2>2, BoundaryMonotonic, BoundaryType
  <2> QED
    BY <1>1, <1>2, <2>1, <2>3
<1>6. InStep(k)
  BY <1>3, <1>4, <1>5
<1>7. k = N
  <2> SUFFICES ASSUME k < N PROVE FALSE
    BY <1>1
  <2>1. offset = Boundary(k + 1) /\ offset >= payload.size
    BY <1>6 DEF InStep, Framing
  <2>2. k + 1 \in 1 .. N + 1 /\ k + 1 < N + 1
    BY <1>1
  <2>3. Boundary(k + 1) + 8 <= Boundary(N + 1) /\ Boundary(k + 1) \in Nat
        /\ Boundary(N + 1) \in Nat
    BY <1>1, <2>2, BoundaryBefore, BoundaryType
  <2> QED
    BY <1>1, <1>2, <2>1, <2>3
<1> QED
  BY <1>1, <1>6, <1>7 DEF InStep, Last

(* The invariant holds.                                                     *)
LEMMA Invariance == Spec => []DecoderInv
<1>1. Init => DecoderInv
  BY TypedInit, CompletenessInit, FramingInit DEF DecoderInv
<1>2. DecoderInv /\ [Next]_vars => DecoderInv'
  BY TypedStep, CompletenessStep, FramingStep DEF DecoderInv
<1> QED
  BY <1>1, <1>2, PTL DEF Spec

(* For every payload and every size it is cut to, the messages decoded in   *)
(* full begin with those sent so far, as long as the code describes them,  *)
(* and are these if it describes them all.                                 *)
THEOREM DecodesWhatWasSentAlways == Spec => []DecodesWhatWasSent
<1>1. DecoderInv => DecodesWhatWasSent
  BY FramingDecodes DEF DecoderInv
<1> QED
  BY Invariance, <1>1, PTL

(* A payload that is not cut is reported with the header of its last        *)
(* message.                                                                *)
THEOREM ReportsLastHeaderAlways == Spec => []ReportsLastHeader
<1>1. DecoderInv => ReportsLastHeader
  BY FramingReports DEF DecoderInv
<1> QED
  BY Invariance, <1>1, PTL

-----------------------------------------------------------------------------
(* decode() ends. *)

(* The calls left from each point of decode().                              *)
LEMMA CallsLeftIs ==
  ASSUME NEW g
  PROVE  /\ CallsLeft("done", g) = 0 /\ CallsLeft("loop", g) = 1
         /\ CallsLeft("strings", g) = 2 /\ CallsLeft("incremental", g) = 2
         /\ CallsLeft("packet", g) = 3 /\ CallsLeft("groups", g) = 7 - g
         /\ CallsLeft("message", g) = 8
BY DEF CallsLeft

(* Nothing goes back in the payload: a step that takes calls off the round  *)
(* lowers the bound.                                                       *)
LEMMA RoundRunsDown ==
  ASSUME Typed, payload' = payload, offset' \in Nat, offset <= offset',
         NEW m \in 0 .. 8, NEW n \in 0 .. 8, n < m,
         CallsLeft(pc, Len(definition.counts)) = m,
         CallsLeft(pc', Len(definition'.counts)) = n
  PROVE  StepsLeft' \in 0 .. StepsLeft - 1
<1>1. offset \in Nat /\ payload.size \in Nat
  BY DEF Typed
<1>2. BytesLeft \in Nat /\ BytesLeft' \in Nat /\ BytesLeft' <= BytesLeft
  BY <1>1 DEF BytesLeft
<1>3. PICK a \in Nat, b \in Nat : a = BytesLeft /\ b = BytesLeft' /\ b <= a
  BY <1>2
<1>4. StepsLeft = 8 * a + m /\ StepsLeft' = 8 * b + n
  BY <1>3 DEF StepsLeft
<1>5. ASSUME NEW x \in Nat, NEW y \in Nat, y <= x
      PROVE  8 * y + n \in 0 .. 8 * x + m - 1
  BY <1>5
<1>6. 8 * b + n \in 0 .. 8 * a + m - 1
  BY <1>3, <1>5
<1>7. 8 * b + n \in 0 .. StepsLeft - 1
  BY <1>4, <1>6
<1> QED
  BY <1>4, <1>7

(* Every step lowers the bound or changes nothing.                          *)
LEMMA StepsLeftStep ==
  ASSUME Typed, Next
  PROVE  StepsLeft' \in 0 .. StepsLeft - 1 \/ UNCHANGED vars
<1>0. offset \in Nat /\ payload.size \in Nat
  BY DEF Typed
<1>1. CASE ParsePacketHeader
  <2>1. offset' \in Nat /\ offset <= offset' /\ payload' = payload
    BY <1>0, <1>1 DEF ParsePacketHeader, MarketDataPacketHeaderSize
  <2>2. pc = "packet" /\ pc' \in {"incremental", "loop"}
    BY <1>1 DEF ParsePacketHeader
  <2>3. /\ CallsLeft(pc, Len(definition.counts)) = 3
        /\ \/ CallsLeft(pc', Len(definition'.counts)) = 2
           \/ CallsLeft(pc', Len(definition'.counts)) = 1
    BY <2>2, CallsLeftIs
  <2> QED
    BY <2>1, <2>3, RoundRunsDown
<1>2. CASE ParseIncrementalHeader
  <2>1. offset' \in Nat /\ offset <= offset' /\ payload' = payload
    BY <1>0, <1>2 DEF ParseIncrementalHeader, IncrementalPacketHeaderSize
  <2>2. /\ CallsLeft(pc, Len(definition.counts)) = 2
        /\ CallsLeft(pc', Len(definition'.counts)) = 1
    BY <1>2, CallsLeftIs DEF ParseIncrementalHeader
  <2> QED
    BY <2>1, <2>2, RoundRunsDown
<1>3. CASE ParseMessageHeader
  <2>1. /\ offset < payload.size /\ payload' = payload
        /\ offset' = offset + 8
    BY <1>3 DEF ParseMessageHeader, MessageHeaderSize
  <2>2. BytesLeft \in Nat /\ BytesLeft' \in Nat /\ BytesLeft' <= BytesLeft - 1
    BY <1>0, <2>1 DEF BytesLeft
  <2>3. /\ CallsLeft(pc, Len(definition.counts)) = 1
        /\ CallsLeft(pc', Len(definition'.counts)) = 8
    BY <1>3, CallsLeftIs DEF ParseMessageHeader
  <2>4. PICK a \in Nat, b \in Nat : a = BytesLeft /\ b = BytesLeft' /\ b <= a - 1
    BY <2>2
  <2>5. StepsLeft = 8 * a + 1 /\ StepsLeft' = 8 * b + 8
    BY <2>3, <2>4 DEF StepsLeft
  <2>6. ASSUME NEW x \in Nat, NEW y \in Nat, y <= x - 1
        PROVE  8 * y + 8 \in 0 .. 8 * x + 1 - 1
    BY <2>6
  <2>7. 8 * b + 8 \in 0 .. 8 * a + 1 - 1
    BY <2>4, <2>6
  <2>8. 8 * b + 8 \in 0 .. StepsLeft - 1
    BY <2>5, <2>7
  <2> QED
    BY <2>5, <2>8
<1>4. ASSUME pc \in {"message", "strings"}, pc' = "loop", payload' = payload,
             offset' \in Nat, offset <= offset'
      PROVE  StepsLeft' \in 0 .. StepsLeft - 1
  <2>1. /\ \/ CallsLeft(pc, Len(definition.counts)) = 8
           \/ CallsLeft(pc, Len(definition.counts)) = 2
        /\ CallsLeft(pc', Len(definition'.counts)) = 1
    BY <1>4, CallsLeftIs
  <2> QED
    BY <1>4, <2>1, RoundRunsDown
<1>5. CASE ParseFixed
  <2>1. StructSize[header.template] \in Nat
    BY <1>5, FixedSizes DEF ParseFixed
  <2>2. offset' \in Nat /\ offset <= offset'
    BY <1>0, <1>5, <2>1 DEF ParseFixed
  <2> QED
    BY <1>4, <1>5, <2>2 DEF ParseFixed, EndRound
<1>6. CASE ParseOrderBookSnapshot
  <2>1. PICK n \in CountsAt(offset + SnapshotBaseSize) :
          offset' = VectorEnd(offset + SnapshotBaseSize + GroupSizeSize,
                              n, SnapshotEntrySize)
    BY <1>6 DEF ParseOrderBookSnapshot
  <2>2. n \in 0 .. 255
    BY CountsAtType
  <2>3. offset' \in Nat /\ offset <= offset'
    BY <1>0, <2>1, <2>2 DEF VectorEnd, SnapshotBaseSize, GroupSizeSize, SnapshotEntrySize
  <2> QED
    BY <1>4, <1>6, <2>3 DEF ParseOrderBookSnapshot, EndRound
<1>7. CASE ParseDefinitionFields
  <2>1. offset' \in Nat /\ offset <= offset' /\ payload' = payload
    BY <1>0, <1>7, FieldsEnd DEF ParseDefinitionFields
  <2>2. definition'.counts = <<>> /\ Len(<<>>) = 0
    BY <1>7 DEF ParseDefinitionFields, Decoded
  <2>3. /\ CallsLeft(pc, Len(definition.counts)) = 8
        /\ CallsLeft(pc', Len(definition'.counts)) = 7
    BY <1>7, <2>2, CallsLeftIs DEF ParseDefinitionFields
  <2> QED
    BY <2>1, <2>3, RoundRunsDown
<1>8. CASE ParseDefinitionGroup
  <2> DEFINE g == Len(definition.counts) + 1
  <2>1. \E n \in Nat, length \in Nat :
          /\ g \in 1 .. 5
          /\ definition' = [definition EXCEPT !.counts = Append(@, n),
                                              !.entries = Append(@, length)]
          /\ offset' \in Nat /\ offset + 3 <= offset'
          /\ pc' = IF g = 5 THEN "strings" ELSE "groups"
    BY <1>8, GroupParsed
  <2>2. definition.counts \in Seq(Nat) /\ definition \in DecodedOf({"SecurityDefinition", "Zero"})
    BY DEF Typed, DecodedOf
  <2>3. Len(definition'.counts) = g
    BY <2>1, <2>2 DEF DecodedOf
  <2>4. offset' \in Nat /\ offset <= offset' /\ payload' = payload
    BY <1>0, <1>8, <2>1 DEF ParseDefinitionGroup
  <2>5. /\ g \in 1 .. 5 /\ CallsLeft(pc, Len(definition.counts)) = 7 - (g - 1)
        /\ \/ CallsLeft(pc', Len(definition'.counts)) = 7 - g
           \/ g = 5 /\ CallsLeft(pc', Len(definition'.counts)) = 2
    <3>1. CallsLeft("groups", Len(definition.counts)) = 7 - Len(definition.counts)
          /\ CallsLeft("groups", g) = 7 - g /\ CallsLeft("strings", g) = 2
      BY CallsLeftIs
    <3>2. pc = "groups" /\ Len(definition.counts) \in Nat
      BY <1>8, <2>2 DEF ParseDefinitionGroup
    <3>3. g - 1 = Len(definition.counts)
      BY <3>2
    <3> HIDE DEF g
    <3> QED
      BY <2>1, <2>3, <3>1, <3>2, <3>3
  <2>6. PICK m \in 0 .. 8, n \in 0 .. 8 :
          /\ n < m /\ CallsLeft(pc, Len(definition.counts)) = m
          /\ CallsLeft(pc', Len(definition'.counts)) = n
    <3> HIDE DEF g
    <3> QED
      BY <2>5
  <2> HIDE DEF g
  <2> QED
    BY <2>4, <2>6, RoundRunsDown
<1>9. CASE ParseDefinitionStrings
  <2>1. offset' \in Nat /\ offset <= offset'
    BY <1>0, <1>9 DEF ParseDefinitionStrings, StringLengthSize, StringStructSize
  <2> QED
    BY <1>4, <1>9, <2>1 DEF ParseDefinitionStrings, EndRound
<1>10. CASE SkipUnknown
  <2>1. header.block \in Nat
    BY DEF Typed, Headers
  <2>2. offset' \in Nat /\ offset <= offset'
    BY <1>0, <1>10, <2>1 DEF SkipUnknown, BlockEnd
  <2> QED
    BY <1>4, <1>10, <2>2 DEF SkipUnknown, EndRound
<1>11. CASE Return
  <2>1. offset' = offset /\ payload' = payload
    BY <1>11 DEF Return
  <2>2. /\ CallsLeft(pc, Len(definition.counts)) = 1
        /\ CallsLeft(pc', Len(definition'.counts)) = 0
    BY <1>11, CallsLeftIs DEF Return
  <2> QED
    BY <1>0, <2>1, <2>2, RoundRunsDown
<1>12. CASE Returned
  BY <1>12 DEF Returned
<1> QED
  BY <1>1, <1>2, <1>3, <1>5, <1>6, <1>7, <1>8, <1>9, <1>10, <1>11, <1>12 DEF Next

(* decode() takes a bounded number of steps, whatever the payload contains.  *)
THEOREM RunsDownAlways == Spec => RunsDown
<1>1. DecoderInv /\ [Next]_vars => [StepsLeft' \in 0 .. StepsLeft - 1]_vars
  BY StepsLeftStep DEF DecoderInv
<1> QED
  BY <1>1, Invariance, PTL DEF Spec, RunsDown
===============================================================================
