------------------------- MODULE EvaluationProofs --------------------------
(***************************************************************************)
(* The evaluation for any fixtures, model, judge and number of columns.    *)
(***************************************************************************)
EXTENDS Evaluation, FiniteSetTheorems, TLAPS

Fraction == [n : Nat, d : Nat \ {0}]
Score == Fraction \cup {NoValue}
Column ==
    [gs07_intent_accuracy : Score, gs07_slot_f1 : Score, gs08_coherence : Score,
     gs02_inventions : Nat, schema_validity : Score, tool_call_sequence_accuracy : Score]

LEMMA EqualsAreNotLess ==
  ASSUME NEW a \in Fraction, NEW b \in Fraction, Same(a, b)
  PROVE  ~Less(a, b)
  <1>1. ~(NoValue \in {a, b})
    BY DEF Fraction, NoValue, Ratio
  <1>2. a.n * b.d = b.n * a.d
    BY <1>1 DEF Same
  <1>3. a.n * b.d \in Int
    BY DEF Fraction
  <1>4. QED
    BY <1>2, <1>3 DEF Less

LEMMA LessIsOneWay ==
  ASSUME NEW a \in Fraction, NEW b \in Fraction, Less(a, b)
  PROVE  ~Less(b, a)
  <1>1. a.n * b.d \in Int /\ b.n * a.d \in Int
    BY DEF Fraction
  <1>2. QED
    BY <1>1 DEF Less

\* Where a verdict is given no primary metric is missing.
LEMMA PrimaryScores ==
  ASSUME NEW base \in Column, NEW qlora \in Column, Missing(base, qlora) = {}
  PROVE  \A m \in PrimaryMetrics : base[m] \in Fraction /\ qlora[m] \in Fraction
  <1> SUFFICES ASSUME NEW m \in PrimaryMetrics
               PROVE  base[m] \in Fraction /\ qlora[m] \in Fraction
    OBVIOUS
  <1>1. base[m] \in Score /\ qlora[m] \in Score
    BY DEF Column, PrimaryMetrics
  <1>2. NoValue \notin {base[m], qlora[m]}
    BY DEF Missing
  <1>3. QED
    BY <1>1, <1>2 DEF Score

LEMMA FewerThanTwo ==
  ASSUME NEW S, S \subseteq {"gs08_coherence"}
  PROVE  ~(Cardinality(S) >= 2)
  <1>1. IsFiniteSet({"gs08_coherence"}) /\ Cardinality({"gs08_coherence"}) = 1
    BY FS_Singleton
  <1>2. IsFiniteSet(S) /\ Cardinality(S) <= 1
    BY <1>1, FS_Subset
  <1>3. Cardinality(S) \in Nat
    BY <1>2, FS_CardinalityType
  <1>4. QED
    BY <1>2, <1>3

\* An adapter that scores as the base model does on the code-mixed slice is cut, whatever
\* the judge says and whatever the other metrics are: noise in the one judged metric can
\* never keep it (clause (ii) of the rule in verdict.py).
THEOREM JudgeAloneNeverKeeps ==
  ASSUME NEW base \in Column, NEW qlora \in Column,
         Same(base.gs07_intent_accuracy, qlora.gs07_intent_accuracy),
         Same(base.gs07_slot_f1, qlora.gs07_slot_f1)
  PROVE  ~Keep(base, qlora)
  <1> SUFFICES ASSUME Keep(base, qlora) PROVE FALSE
    OBVIOUS
  <1>1. \A m \in PrimaryMetrics : base[m] \in Fraction /\ qlora[m] \in Fraction
    BY PrimaryScores DEF Keep
  <1>2. /\ ~Less(base["gs07_intent_accuracy"], qlora["gs07_intent_accuracy"])
        /\ ~Less(base["gs07_slot_f1"], qlora["gs07_slot_f1"])
    BY <1>1, EqualsAreNotLess DEF PrimaryMetrics
  <1>3. Improved(base, qlora) \subseteq {"gs08_coherence"}
    BY <1>2 DEF Improved, PrimaryMetrics
  <1>4. QED
    BY <1>3, FewerThanTwo DEF Keep

\* If the rule keeps one of two models against the other, it does not keep the other
\* against the one: exchanging the two artifacts never gives two keeps.
THEOREM KeepIsOneWay ==
  ASSUME NEW base \in Column, NEW qlora \in Column, Keep(base, qlora)
  PROVE  ~Keep(qlora, base)
  <1>1. \A m \in PrimaryMetrics : base[m] \in Fraction /\ qlora[m] \in Fraction
    BY PrimaryScores DEF Keep
  <1>2. PICK m \in Improved(base, qlora) : TRUE
    BY DEF Keep, MarginMet
  <1>3. m \in PrimaryMetrics /\ Less(base[m], qlora[m])
    BY <1>2 DEF Improved
  <1>4. CASE m \in Missing(qlora, base)
    BY <1>4 DEF Keep
  <1>5. CASE m \notin Missing(qlora, base)
    <2>1. m \in Regressed(qlora, base)
      BY <1>3, <1>5 DEF Regressed
    <2>2. QED
      BY <2>1 DEF Keep
  <1>6. QED
    BY <1>4, <1>5
-----------------------------------------------------------------------------
(* Sequences and folds over them.                                          *)

LEMMA SeqFacts ==
  ASSUME NEW s, IsSeq(s)
  PROVE  Len(s) \in Nat /\ DOMAIN s = 1 .. Len(s)
  BY DEF IsSeq

LEMMA AppendFacts ==
  ASSUME NEW s, IsSeq(s), NEW x
  PROVE  /\ IsSeq(Append(s, x))
         /\ Len(Append(s, x)) = Len(s) + 1
         /\ DOMAIN Append(s, x) = 1 .. Len(s) + 1
         /\ Append(s, x)[Len(s) + 1] = x
         /\ \A k \in 1 .. Len(s) : Append(s, x)[k] = s[k]
         /\ Append(s, x) # <<>>
  <1> DEFINE S == ToSet(s) \cup {x}
  <1>1. \A k \in 1 .. Len(s) : s[k] \in S
    BY SeqFacts DEF ToSet
  <1>2. s = [k \in 1 .. Len(s) |-> s[k]]
    BY DEF IsSeq
  <1>3. s \in Seq(S) /\ x \in S
    <2>1. Len(s) \in Nat /\ x \in S
      BY SeqFacts
    <2> HIDE DEF S
    <2>2. QED
      BY <1>1, <1>2, <2>1
  <1> HIDE DEF S
  <1>4. Append(s, x) \in Seq(S) /\ Len(Append(s, x)) = Len(s) + 1
    BY <1>3
  <1>5. /\ Append(s, x)[Len(s) + 1] = x
        /\ \A k \in 1 .. Len(s) : Append(s, x)[k] = s[k]
    BY <1>3
  <1>6. \A r \in Seq(S) : r \in Seq(ToSet(r))
    <2> SUFFICES ASSUME NEW r \in Seq(S) PROVE r \in Seq(ToSet(r))
      OBVIOUS
    <2>1. r = [k \in 1 .. Len(r) |-> r[k]] /\ Len(r) \in Nat /\ DOMAIN r = 1 .. Len(r)
      OBVIOUS
    <2>2. \A k \in 1 .. Len(r) : r[k] \in ToSet(r)
      BY <2>1 DEF ToSet
    <2>3. QED
      BY <2>1, <2>2
  <1>7. IsSeq(Append(s, x))
    BY <1>4, <1>6 DEF IsSeq
  <1>8. QED
    BY <1>4, <1>5, <1>7, SeqFacts

LEMMA SeqOfSet ==
  ASSUME NEW S, NEW s \in Seq(S)
  PROVE  IsSeq(s)
  <1>1. s = [k \in 1 .. Len(s) |-> s[k]] /\ Len(s) \in Nat /\ DOMAIN s = 1 .. Len(s)
    OBVIOUS
  <1>2. \A k \in 1 .. Len(s) : s[k] \in ToSet(s)
    BY <1>1 DEF ToSet
  <1>3. QED
    BY <1>1, <1>2 DEF IsSeq

LEMMA SeqInto ==
  ASSUME NEW T, NEW s, IsSeq(s), \A k \in 1 .. Len(s) : s[k] \in T
  PROVE  s \in Seq(T)
  <1>1. s = [k \in 1 .. Len(s) |-> s[k]] /\ Len(s) \in Nat
    BY DEF IsSeq
  <1>2. QED
    BY <1>1

LEMMA NoElements == IsSeq(<<>>)
  <1>1. <<>> \in Seq(ToSet(<<>>))
    OBVIOUS
  <1>2. QED
    BY <1>1 DEF IsSeq

\* s and x have a common set.
LEMMA CommonSet ==
  ASSUME NEW s, IsSeq(s), NEW x
  PROVE  \E S : s \in Seq(S) /\ x \in S
  <1>1. s = [k \in 1 .. Len(s) |-> s[k]] /\ Len(s) \in Nat
    BY DEF IsSeq
  <1>2. \A k \in 1 .. Len(s) : s[k] \in ToSet(s) \cup {x}
    BY SeqFacts DEF ToSet
  <1>3. s \in Seq(ToSet(s) \cup {x})
    <2> DEFINE S == ToSet(s) \cup {x}
    <2> HIDE DEF S
    <2> SUFFICES s \in Seq(S)
      BY DEF S
    <2>1. \A k \in 1 .. Len(s) : s[k] \in S
      BY <1>2 DEF S
    <2>2. QED
      BY <1>1, <2>1
  <1>4. QED
    BY <1>3

Reader == INSTANCE LeftFolds WITH
    Op <- LAMBDA read, m, e : ReadMessage(read, m), Base <- LAMBDA e : NothingRead,
    Holds <- LAMBDA e, s, read : TRUE
Chooser == INSTANCE LeftFolds WITH
    Op <- LAMBDA kept, m, role : IF m.role = role THEN Append(kept, m) ELSE kept,
    Base <- LAMBDA role : <<>>, Holds <- LAMBDA role, s, kept : IsSeq(kept)

LEMMA ReadOffIsFold == \A s : ReadOff(s) = Reader!Fold(0, s)
  BY DEF ReadOff, Reader!Fold, FoldLeft, MapThenFoldSet, Max,
         Reader!FoldLeft, Reader!MapThenFoldSet, Reader!Max

LEMMA ReadOffAppend ==
  ASSUME NEW s, IsSeq(s), NEW m
  PROVE  ReadOff(Append(s, m)) = ReadMessage(ReadOff(s), m)
  <1>1. PICK S : s \in Seq(S) /\ m \in S
    BY CommonSet
  <1>2. Reader!Fold(0, Append(s, m)) = ReadMessage(Reader!Fold(0, s), m)
    BY <1>1, Reader!FoldOfAppend
  <1>3. QED
    BY <1>2, ReadOffIsFold

LEMMA OfRoleIsFold == \A s, role : OfRole(s, role) = Chooser!Fold(role, s)
  BY DEF OfRole, Selected, Chooser!Fold, FoldLeft, MapThenFoldSet, Max,
         Chooser!FoldLeft, Chooser!MapThenFoldSet, Chooser!Max

LEMMA OfRoleSeq ==
  ASSUME NEW role, NEW s, IsSeq(s)
  PROVE  IsSeq(OfRole(s, role))
  <1>1. PICK S : s \in Seq(S)
    BY CommonSet
  <1>2. IsSeq(<<>>)
    BY NoElements
  <1>3. ASSUME NEW t \in Seq(S), NEW x \in S, IsSeq(Chooser!Fold(role, t))
        PROVE  IsSeq(IF x.role = role THEN Append(Chooser!Fold(role, t), x)
                     ELSE Chooser!Fold(role, t))
    BY <1>3, AppendFacts
  <1>4. \A t \in Seq(S) : IsSeq(Chooser!Fold(role, t))
    BY <1>2, <1>3, Chooser!FoldInduction
  <1>5. QED
    BY <1>1, <1>4, OfRoleIsFold

LEMMA OfRoleAppend ==
  ASSUME NEW role, NEW s, IsSeq(s), NEW m
  PROVE  OfRole(Append(s, m), role) = IF m.role = role THEN Append(OfRole(s, role), m)
                                      ELSE OfRole(s, role)
  <1>1. PICK S : s \in Seq(S) /\ m \in S
    BY CommonSet
  <1>2. Chooser!Fold(role, Append(s, m)) = IF m.role = role THEN Append(Chooser!Fold(role, s), m)
                                           ELSE Chooser!Fold(role, s)
    BY <1>1, Chooser!FoldOfAppend
  <1>3. QED
    BY <1>2, OfRoleIsFold

Users(msgs) == Len(OfRole(msgs, "user"))
LEMMA UsersAppend ==
  ASSUME NEW s, IsSeq(s), NEW m
  PROVE  /\ Users(s) \in Nat
         /\ m.role = "user" => Users(Append(s, m)) = Users(s) + 1
         /\ m.role # "user" => Users(Append(s, m)) = Users(s)
  BY OfRoleSeq, OfRoleAppend, AppendFacts, SeqFacts DEF Users
-----------------------------------------------------------------------------
(* Reading a transcript.                                                   *)

Told(cs) == [k \in DOMAIN cs |-> ToolSays(cs[k].tool, cs[k].result)]

\* Reading msgs gives the answers said, the results of the calls cs, and the calls the
\* model made, of which cs are the first.
Reads(msgs, cs, said) ==
    LET read == ReadOff(msgs)
    IN  /\ read = [answers |-> said, made |-> read.made, told |-> Told(cs)]
        /\ IsSeq(read.made)
        /\ Len(cs) <= Len(read.made)
        /\ \A k \in DOMAIN cs :
               read.made[k] = [tool |-> cs[k].tool, arguments |-> cs[k].arguments]
MadeIn(msgs) == ReadOff(msgs).made

LEMMA ReadUser ==
  ASSUME NEW msgs, IsSeq(msgs), NEW cs, NEW said, Reads(msgs, cs, said), NEW n
  PROVE  /\ Reads(Append(msgs, User(n)), cs, Append(said, NoAnswer))
         /\ MadeIn(Append(msgs, User(n))) = MadeIn(msgs)
  <1> DEFINE made == MadeIn(msgs)
             m == User(n)
  <1>1. m.role = "user"
    BY DEF User
  <1>2. ReadOff(msgs) = [answers |-> said, made |-> made, told |-> Told(cs)]
    BY DEF Reads, MadeIn
  <1>3. ReadOff(Append(msgs, m)) = ReadMessage(ReadOff(msgs), m)
    BY ReadOffAppend
  <1> HIDE DEF m, made
  <1>4. ReadOff(Append(msgs, m)) = [answers |-> Append(said, NoAnswer), made |-> made, told |-> Told(cs)]
    <2>1. ReadMessage([answers |-> said, made |-> made, told |-> Told(cs)], m) =
              [[answers |-> said, made |-> made, told |-> Told(cs)]
                  EXCEPT !.answers = Append(said, NoAnswer)]
      BY <1>1 DEF ReadMessage
    <2>2. QED
      BY <1>2, <1>3, <2>1
  <1>5. QED
    BY <1>4 DEF Reads, MadeIn, m, made

LEMMA ReadAnswer ==
  ASSUME NEW msgs, IsSeq(msgs), NEW cs, NEW prior, IsSeq(prior),
         Reads(msgs, cs, Append(prior, NoAnswer)), NEW m, MessageOK(m)
  PROVE  /\ ReadOff(Append(msgs, m)) = [answers |-> Append(prior, m.answer),
                                        made |-> MadeIn(msgs) \o m.calls, told |-> Told(cs)]
         /\ m.calls = <<>> => Reads(Append(msgs, m), cs, Append(prior, m.answer))
                              /\ MadeIn(Append(msgs, m)) = MadeIn(msgs)
  <1> DEFINE made == MadeIn(msgs)
             said == Append(prior, NoAnswer)
  <1>1. m.role = "assistant"
    BY DEF MessageOK
  <1>2. ReadOff(msgs) = [answers |-> said, made |-> made, told |-> Told(cs)] /\ IsSeq(made)
    BY DEF Reads, MadeIn
  <1>3. ReadOff(Append(msgs, m)) = ReadMessage(ReadOff(msgs), m)
    BY ReadOffAppend
  <1> HIDE DEF said, made
  <1>4. ReadOff(Append(msgs, m)) = [answers |-> [said EXCEPT ![Len(said)] = m.answer],
                                    made |-> made \o m.calls, told |-> Told(cs)]
    <2>1. ReadMessage([answers |-> said, made |-> made, told |-> Told(cs)], m) =
              [[answers |-> said, made |-> made, told |-> Told(cs)]
                  EXCEPT !.made = made \o m.calls, !.answers = [said EXCEPT ![Len(said)] = m.answer]]
      BY <1>1 DEF ReadMessage
    <2>2. QED
      BY <1>2, <1>3, <2>1
  <1>5. [said EXCEPT ![Len(said)] = m.answer] = Append(prior, m.answer)
    <2>1. PICK T : prior \in Seq(T) /\ NoAnswer \in T /\ m.answer \in T
      <3>1. PICK T : prior \in Seq(T) /\ NoAnswer \in T
        BY CommonSet
      <3>2. \A k \in 1 .. Len(prior) : prior[k] \in T \cup {m.answer}
        BY <3>1
      <3>3. prior \in Seq(T \cup {m.answer})
        BY <3>2, SeqInto
      <3>4. NoAnswer \in T \cup {m.answer} /\ m.answer \in T \cup {m.answer}
        BY <3>1
      <3>5. QED
        BY <3>3, <3>4
    <2>2. /\ Len(said) = Len(prior) + 1 /\ said \in Seq(T) /\ Len(prior) \in Nat
          /\ \A k \in 1 .. Len(prior) : said[k] = prior[k]
      BY <2>1 DEF said
    <2> DEFINE A == [said EXCEPT ![Len(prior) + 1] = m.answer]
               B == Append(prior, m.answer)
    <2>3. B \in Seq(T) /\ Len(B) = Len(prior) + 1
          /\ B[Len(prior) + 1] = m.answer /\ \A k \in 1 .. Len(prior) : B[k] = prior[k]
      BY <2>1
    <2>4. A \in Seq(T) /\ Len(A) = Len(prior) + 1
      BY <2>1, <2>2
    <2>5. A[Len(prior) + 1] = m.answer /\ \A k \in 1 .. Len(prior) : A[k] = said[k]
      BY <2>1, <2>2
    <2> HIDE DEF A, B
    <2>6. \A k \in 1 .. Len(prior) + 1 : A[k] = B[k]
      BY <2>2, <2>3, <2>5
    <2>7. A = B
      BY <2>3, <2>4, <2>6
    <2>8. QED
      BY <2>2, <2>7 DEF A, B
  <1>6. ReadOff(Append(msgs, m)) = [answers |-> Append(prior, m.answer),
                                    made |-> made \o m.calls, told |-> Told(cs)]
    BY <1>4, <1>5
  <1>7. ASSUME m.calls = <<>>
        PROVE  made \o m.calls = made
    <2>1. made \in Seq(ToSet(made))
      BY <1>2 DEF IsSeq
    <2>2. made \o <<>> = made
      BY <2>1
    <2>3. QED
      BY <2>2, <1>7
  <1>8. ReadOff(Append(msgs, m)) = [answers |-> Append(prior, m.answer),
                                    made |-> MadeIn(msgs) \o m.calls, told |-> Told(cs)]
    BY <1>6 DEF made
  <1>9. ASSUME m.calls = <<>>
        PROVE  Reads(Append(msgs, m), cs, Append(prior, m.answer)) /\ MadeIn(Append(msgs, m)) = MadeIn(msgs)
    <2>1. ReadOff(Append(msgs, m)) = [answers |-> Append(prior, m.answer), made |-> made, told |-> Told(cs)]
      BY <1>6, <1>7, <1>9
    <2>2. QED
      BY <2>1 DEF Reads, MadeIn, made
  <1>10. QED
    BY <1>8, <1>9

LEMMA ConcatFacts ==
  ASSUME NEW s, IsSeq(s), NEW t, IsSeq(t)
  PROVE  /\ IsSeq(s \o t) /\ Len(s \o t) = Len(s) + Len(t)
         /\ \A k \in 1 .. Len(s) : (s \o t)[k] = s[k]
         /\ \A k \in 1 .. Len(t) : (s \o t)[Len(s) + k] = t[k]
  <1> DEFINE S == ToSet(s) \cup ToSet(t)
  <1>1. Len(s) \in Nat /\ Len(t) \in Nat
        /\ s = [k \in 1 .. Len(s) |-> s[k]] /\ t = [k \in 1 .. Len(t) |-> t[k]]
    BY DEF IsSeq
  <1>2. (\A k \in 1 .. Len(s) : s[k] \in S) /\ (\A k \in 1 .. Len(t) : t[k] \in S)
    BY SeqFacts DEF ToSet
  <1> HIDE DEF S
  <1>3. s \in Seq(S) /\ t \in Seq(S)
    BY <1>1, <1>2
  <1>4. s \o t \in Seq(S) /\ Len(s \o t) = Len(s) + Len(t)
    BY <1>3
  <1>5. IsSeq(s \o t)
    BY <1>4, SeqOfSet
  <1>6. \A k \in 1 .. Len(s) : (s \o t)[k] = s[k]
    BY <1>1, <1>3
  <1>7. \A k \in 1 .. Len(t) : (s \o t)[Len(s) + k] = t[k]
    BY <1>1, <1>3
  <1>8. QED
    BY <1>4, <1>5, <1>6, <1>7

LEMMA ReadCalls ==
  ASSUME NEW msgs, IsSeq(msgs), NEW cs, IsSeq(cs), NEW prior, IsSeq(prior),
         Reads(msgs, cs, Append(prior, NoAnswer)), NEW m, MessageOK(m), m.calls # <<>>
  PROVE  /\ Reads(Append(msgs, m), cs, Append(prior, NoAnswer))
         /\ MadeIn(Append(msgs, m)) = MadeIn(msgs) \o m.calls
  <1> DEFINE made == MadeIn(msgs)
  <1>1. IsSeq(made) /\ Len(cs) <= Len(made)
        /\ \A k \in DOMAIN cs : made[k] = [tool |-> cs[k].tool, arguments |-> cs[k].arguments]
    BY DEF Reads, MadeIn
  <1>2. m.answer = NoAnswer /\ IsSeq(m.calls)
    BY DEF MessageOK
  <1>3. ReadOff(Append(msgs, m)) = [answers |-> Append(prior, NoAnswer),
                                    made |-> made \o m.calls, told |-> Told(cs)]
    BY <1>2, ReadAnswer
  <1> HIDE DEF made
  <1>4. /\ IsSeq(made \o m.calls) /\ Len(made \o m.calls) = Len(made) + Len(m.calls)
        /\ \A k \in 1 .. Len(made) : (made \o m.calls)[k] = made[k]
    BY <1>1, <1>2, ConcatFacts
  <1>5. Len(cs) \in Nat /\ Len(made) \in Nat /\ Len(m.calls) \in Nat /\ DOMAIN cs = 1 .. Len(cs)
    BY <1>1, <1>2, SeqFacts
  <1>6. Len(cs) <= Len(made \o m.calls)
    BY <1>1, <1>4, <1>5
  <1>7. \A k \in DOMAIN cs :
            (made \o m.calls)[k] = [tool |-> cs[k].tool, arguments |-> cs[k].arguments]
    BY <1>1, <1>4, <1>5
  <1>8. QED
    BY <1>3, <1>4, <1>6, <1>7 DEF Reads, MadeIn, made

LEMMA ReadTold ==
  ASSUME NEW msgs, IsSeq(msgs), NEW cs, IsSeq(cs), NEW said, Reads(msgs, cs, said),
         NEW c, Len(cs) < Len(MadeIn(msgs)),
         MadeIn(msgs)[Len(cs) + 1] = [tool |-> c.tool, arguments |-> c.arguments]
  PROVE  /\ Reads(Append(msgs, ToolSays(c.tool, c.result)), Append(cs, c), said)
         /\ MadeIn(Append(msgs, ToolSays(c.tool, c.result))) = MadeIn(msgs)
  <1> DEFINE made == MadeIn(msgs)
             m == ToolSays(c.tool, c.result)
  <1>1. m.role = "tool"
    BY DEF ToolSays
  <1>2. ReadOff(msgs) = [answers |-> said, made |-> made, told |-> Told(cs)]
        /\ IsSeq(made)
        /\ \A k \in DOMAIN cs : made[k] = [tool |-> cs[k].tool, arguments |-> cs[k].arguments]
    BY DEF Reads, MadeIn
  <1>3. ReadOff(Append(msgs, m)) = ReadMessage(ReadOff(msgs), m)
    BY ReadOffAppend
  <1> HIDE DEF made
  <1>4. ReadOff(Append(msgs, m)) = [answers |-> said, made |-> made, told |-> Append(Told(cs), m)]
    <2> HIDE DEF m
    <2>1. ReadMessage([answers |-> said, made |-> made, told |-> Told(cs)], m) =
              [[answers |-> said, made |-> made, told |-> Told(cs)] EXCEPT !.told = Append(Told(cs), m)]
      BY <1>1 DEF ReadMessage
    <2>2. QED
      BY <1>2, <1>3, <2>1
  <1>5. /\ Len(cs) \in Nat /\ DOMAIN cs = 1 .. Len(cs)
        /\ Len(Append(cs, c)) = Len(cs) + 1 /\ DOMAIN Append(cs, c) = 1 .. Len(cs) + 1
        /\ Append(cs, c)[Len(cs) + 1] = c
        /\ \A k \in 1 .. Len(cs) : Append(cs, c)[k] = cs[k]
    BY SeqFacts, AppendFacts
  <1>6. Told(Append(cs, c)) = Append(Told(cs), m)
    <2> DEFINE A == Told(Append(cs, c))
               B == Told(cs)
    <2>1. B = [k \in 1 .. Len(cs) |-> ToolSays(cs[k].tool, cs[k].result)]
      BY <1>5 DEF Told
    <2>2. A = [k \in 1 .. Len(cs) + 1 |-> ToolSays(Append(cs, c)[k].tool, Append(cs, c)[k].result)]
      BY <1>5 DEF Told
    <2>3. A[Len(cs) + 1] = m /\ \A k \in 1 .. Len(cs) : A[k] = B[k]
      BY <2>1, <2>2, <1>5
    <2> DEFINE S == {B[k] : k \in 1 .. Len(cs)} \cup {m}
    <2>4. (\A k \in 1 .. Len(cs) : B[k] \in S) /\ m \in S
      OBVIOUS
    <2> HIDE DEF S
    <2>5. B = [k \in 1 .. Len(cs) |-> B[k]]
      BY <2>1, Zenon
    <2>6. A = [k \in 1 .. Len(cs) + 1 |-> A[k]]
      BY <2>2, Zenon
    <2> HIDE DEF A, B, m
    <2>7. B \in Seq(S) /\ Len(B) = Len(cs)
      BY <2>4, <2>5, <1>5
    <2>8. \A k \in 1 .. Len(cs) + 1 : A[k] \in S
      BY <2>3, <2>4, <1>5
    <2>9. A \in Seq(S) /\ Len(A) = Len(cs) + 1
      BY <2>6, <2>8, <1>5
    <2>10. Append(B, m) \in Seq(S) /\ Len(Append(B, m)) = Len(cs) + 1
           /\ \A k \in 1 .. Len(cs) + 1 : Append(B, m)[k] = A[k]
      BY <2>3, <2>4, <2>7, <1>5
    <2>11. A = Append(B, m)
      BY <2>9, <2>10
    <2>12. QED
      BY <2>11 DEF A, B, m
  <1> HIDE DEF m
  <1>7. ReadOff(Append(msgs, m)) =
            [answers |-> said, made |-> made, told |-> Told(Append(cs, c))]
    BY <1>4, <1>6
  <1>8. Len(made) \in Nat /\ Len(cs) < Len(made)
        /\ made[Len(cs) + 1] = [tool |-> c.tool, arguments |-> c.arguments]
    BY <1>2, SeqFacts DEF made
  <1>9. \A k \in DOMAIN Append(cs, c) :
            made[k] = [tool |-> Append(cs, c)[k].tool, arguments |-> Append(cs, c)[k].arguments]
    <2> SUFFICES ASSUME NEW k \in 1 .. Len(cs) + 1
                 PROVE  made[k] = [tool |-> Append(cs, c)[k].tool,
                                        arguments |-> Append(cs, c)[k].arguments]
      BY <1>5
    <2>1. CASE k = Len(cs) + 1
      BY <2>1, <1>5, <1>8
    <2>2. CASE k \in 1 .. Len(cs)
      BY <2>2, <1>2, <1>5
    <2>3. QED
      BY <2>1, <2>2, <1>5
  <1>10. Len(Append(cs, c)) <= Len(made)
    BY <1>5, <1>8
  <1>11. QED
    BY <1>2, <1>7, <1>9, <1>10 DEF Reads, MadeIn, made, m
-----------------------------------------------------------------------------
(* What the model may say.                                                 *)

LEMMA NoAnswerFinite == IsFiniteSet(DOMAIN NoAnswer.slots)
  <1>1. NoAnswer.slots = <<>> /\ DOMAIN <<>> = {}
    BY DEF NoAnswer
  <1>2. IsFiniteSet({})
    BY FS_EmptySet
  <1>3. QED
    BY <1>1, <1>2

LEMMA OneCall ==
  ASSUME NEW c, CallOK(c)
  PROVE  MessageOK(Calls(<<c>>)) /\ Calls(<<c>>).calls # <<>>
  <1> DEFINE m == Calls(<<c>>)
  <1>1. m.role = "assistant" /\ m.calls = <<c>> /\ m.answer = NoAnswer
        /\ m = [role |-> "assistant", calls |-> m.calls, answer |-> m.answer]
    BY DEF Calls
  <1>2. IsSeq(<<c>>) /\ <<c>> # <<>>
    <2>1. <<c>> \in Seq({c}) /\ <<c>> # <<>>
      OBVIOUS
    <2>2. QED
      BY <2>1, SeqOfSet
  <1>3. \A i \in DOMAIN <<c>> : CallOK(<<c>>[i])
    OBVIOUS
  <1> HIDE DEF m
  <1>4. QED
    BY <1>1, <1>2, <1>3, NoAnswerFinite DEF MessageOK, m

LEMMA OneAnswer ==
  ASSUME NEW answer, IsFiniteSet(DOMAIN answer.slots)
  PROVE  MessageOK(Says(answer)) /\ Says(answer).calls = <<>>
  <1> DEFINE m == Says(answer)
  <1>1. m.role = "assistant" /\ m.calls = <<>> /\ m.answer = answer
        /\ m = [role |-> "assistant", calls |-> m.calls, answer |-> m.answer]
    BY DEF Says
  <1>2. \A i \in DOMAIN <<>> : CallOK(<<>>[i])
    OBVIOUS
  <1> HIDE DEF m
  <1>3. QED
    BY <1>1, <1>2, NoElements DEF MessageOK, m

LEMMA PlayOK ==
  ASSUME NEW f, FixtureOK(f), NEW msgs, Users(msgs) \in 1 .. f.turns, NEW done
  PROVE  /\ MessageOK(Play(f, msgs, done))
         /\ Play(f, msgs, done).calls = <<>> =>
                Play(f, msgs, done) = Says(PlayedAnswer(f, Users(msgs)))
  <1> DEFINE plan == AllocateCalls(f, Users(msgs))
             c == Bind(plan[done + 1], msgs)
             answer == PlayedAnswer(f, Users(msgs))
  <1>1. Play(f, msgs, done) = IF done < Len(plan) THEN Calls(<<c>>) ELSE Says(answer)
    BY DEF Play, Users
  <1>2. CallOK(c)
    BY DEF CallOK, Bind
  <1>3. IsFiniteSet(DOMAIN answer.slots)
    BY DEF PlayedAnswer, FixtureOK
  <1> HIDE DEF plan, c, answer
  <1>4. QED
    BY <1>1, <1>2, <1>3, OneCall, OneAnswer DEF answer

LEMMA MockOK ==
  ASSUME NEW f, FixtureOK(f), NEW msgs, Users(msgs) \in 1 .. f.turns
  PROVE  MessageOK(SeededAction(f, msgs)) /\ MessageOK(NextAction(f, msgs))
  <1> DEFINE seeded == f.id = SeededTool /\ Len(OfRole(msgs, "user")) = 1
             done == ResultsThisTurn(msgs) - (IF seeded THEN 1 ELSE 0)
             next == Play(f, msgs, done)
             invents == [next EXCEPT !.answer.titles = @ \cup {Invention}]
  <1>1. MessageOK(LookupMovie)
    <2>1. CallOK([tool |-> "lookup_movie", arguments |-> [name |-> {"query"}]])
      BY DEF CallOK
    <2>2. QED
      BY <2>1, OneCall DEF LookupMovie
  <1>2. MessageOK(next)
    <2> HIDE DEF done
    <2>1. QED
      BY PlayOK
  <1>3. ASSUME next.calls = <<>>
        PROVE  MessageOK(invents)
    <2> DEFINE answer == PlayedAnswer(f, Users(msgs))
               more == [answer EXCEPT !.titles = @ \cup {Invention}]
    <2>1. next = Says(answer)
      <3> HIDE DEF done
      <3>1. QED
        BY <1>3, PlayOK
    <2>2. invents = Says(more)
      <3>1. next.answer = answer
        <4> HIDE DEF next, answer
        <4>1. QED
          BY <2>1 DEF Says
      <3> HIDE DEF next, answer
      <3>2. invents = [next EXCEPT !.answer = more]
        BY <3>1
      <3> HIDE DEF more, invents
      <3>3. [Says(answer) EXCEPT !.answer = more] = Says(more)
        BY DEF Says
      <3>4. QED
        BY <2>1, <3>2, <3>3
    <2>3. more.slots = answer.slots /\ IsFiniteSet(DOMAIN answer.slots)
      BY DEF PlayedAnswer, FixtureOK
    <2> HIDE DEF more, answer, invents
    <2>4. QED
      BY <2>2, <2>3, OneAnswer
  <1>4. MessageOK(SeededAction(f, msgs))
    <2>1. SeededAction(f, msgs) = IF done < 0 THEN LookupMovie
              ELSE IF f.id = SeededInvention /\ next.calls = <<>> THEN invents ELSE next
      BY DEF SeededAction
    <2> HIDE DEF done, next, invents
    <2>2. QED
      BY <2>1, <1>1, <1>2, <1>3
  <1>5. MessageOK(NextAction(f, msgs))
    BY PlayOK DEF NextAction
  <1>6. QED
    BY <1>4, <1>5
-----------------------------------------------------------------------------
(* The driver.                                                             *)

\* Where only the labels are counted they must be countable.
Finite(said) == \A k \in DOMAIN said : IsFiniteSet(DOMAIN said[k].slots)

ResultOK(k, r) ==
    /\ r = ScoreFixture(Fixtures[k], r.transcript)
    /\ TranscriptOK(r.transcript)
    /\ IsSeq(r.transcript.calls) /\ IsSeq(r.transcript.answers) /\ Finite(r.transcript.answers)

ResultsOK == IsSeq(results) /\ \A k \in DOMAIN results : k \in DOMAIN Fixtures /\ ResultOK(k, results[k])

\* Inside a fixture the current turn has no answer yet.
InFixture ==
    /\ fixture \in DOMAIN Fixtures /\ turn \in 1 .. Driven.turns
    /\ Len(results) = fixture - 1
    /\ IsSeq(messages) /\ IsSeq(calls) /\ IsSeq(answers) /\ Finite(answers)
    /\ Reads(messages, calls, Append(answers, NoAnswer))
    /\ Users(messages) = turn

\* The message at p is the last the model said; the calls it asks for are the last made,
\* and as many of them are answered as messages follow it.
OpenAt(p, msgs, cs) ==
    LET asked == msgs[p].calls
        done  == Len(msgs) - p
    IN  /\ p \in DOMAIN msgs /\ msgs[p].role = "assistant"
        /\ \A j \in p + 1 .. Len(msgs) : msgs[j].role = "tool"
        /\ IsSeq(asked) /\ \A i \in DOMAIN asked : CallOK(asked[i])
        /\ done <= Len(asked)
        /\ Len(MadeIn(msgs)) = Len(cs) - done + Len(asked)
        /\ \A i \in 1 .. Len(asked) : MadeIn(msgs)[Len(cs) - done + i] = asked[i]

DriverInv ==
    /\ pc \in {"idle", "chat", "tools", "scored"}
    /\ ResultsOK
    /\ pc \in {"idle", "scored"} => calls = <<>> /\ answers = <<>> /\ turn = 1
    /\ pc = "idle" => results = <<>>
    /\ pc \in {"chat", "tools"} => InFixture
    /\ pc = "chat" => Len(MadeIn(messages)) = Len(calls)
    /\ pc = "tools" => \E p \in DOMAIN messages : OpenAt(p, messages, calls)

LEMMA FixtureFacts ==
  /\ Len(Fixtures) \in Nat \ {0} /\ DOMAIN Fixtures = 1 .. Len(Fixtures)
  /\ \A k \in DOMAIN Fixtures : FixtureOK(Fixtures[k]) /\ 1 \in 1 .. Fixtures[k].turns
  <1>1. IsSeq(Fixtures) /\ Fixtures # <<>> /\ \A k \in DOMAIN Fixtures : FixtureOK(Fixtures[k])
    BY EvaluationAssumption
  <1>2. Len(Fixtures) \in Nat /\ DOMAIN Fixtures = 1 .. Len(Fixtures)
    BY <1>1, SeqFacts
  <1>3. Len(Fixtures) # 0
    BY <1>1 DEF IsSeq
  <1>4. QED
    BY <1>1, <1>2, <1>3 DEF FixtureOK

LEMMA Fresh ==
  /\ IsSeq(<<User(1)>>) /\ Users(<<User(1)>>) = 1
  /\ Reads(<<User(1)>>, <<>>, Append(<<>>, NoAnswer))
  /\ Len(MadeIn(<<User(1)>>)) = Len(<<>>)
  <1>1. <<User(1)>> = Append(<<>>, User(1))
    OBVIOUS
  <1>2. ReadOff(<<>>) = NothingRead
    BY Reader!FoldOfEmpty, ReadOffIsFold
  <1>3. Told(<<>>) = <<>>
    BY DEF Told
  <1>4. Reads(<<>>, <<>>, <<>>) /\ MadeIn(<<>>) = <<>>
    BY <1>2, <1>3, NoElements DEF Reads, MadeIn, NothingRead
  <1>5. OfRole(<<>>, "user") = <<>>
    BY Chooser!FoldOfEmpty, OfRoleIsFold
  <1>6. Users(<<>>) = 0
    BY <1>5 DEF Users
  <1>7. User(1).role = "user"
    BY DEF User
  <1> DEFINE e == <<>>
  <1>8. <<User(1)>> = Append(e, User(1)) /\ IsSeq(e) /\ Users(e) = 0 /\ Reads(e, <<>>, <<>>)
        /\ MadeIn(e) = <<>>
    BY <1>1, <1>4, <1>6, NoElements
  <1> HIDE DEF e
  <1>9. Users(<<User(1)>>) = 1
    <2>1. Users(Append(e, User(1))) = Users(e) + 1
      BY <1>7, <1>8, UsersAppend
    <2>2. Users(Append(e, User(1))) = 1
      BY <1>8, <2>1
    <2>3. QED
      BY <1>8, <2>2
  <1>10. IsSeq(<<User(1)>>)
    BY <1>8, AppendFacts
  <1>11. Reads(<<User(1)>>, <<>>, Append(<<>>, NoAnswer)) /\ MadeIn(<<User(1)>>) = <<>>
    <2>1. Reads(Append(e, User(1)), <<>>, Append(<<>>, NoAnswer))
          /\ MadeIn(Append(e, User(1))) = MadeIn(e)
      BY <1>8, ReadUser
    <2>2. QED
      BY <1>8, <2>1
  <1>12. QED
    BY <1>9, <1>10, <1>11

LEMMA EndFixtureKeeps ==
  ASSUME DriverInv, InFixture, NEW status, NEW msgs, NEW said, EndFixture(status, msgs, said),
         IsSeq(said), Finite(said), Reads(msgs, calls, said), Len(MadeIn(msgs)) = Len(calls)
  PROVE  DriverInv'
  <1> DEFINE t == [chat_status |-> status, messages |-> msgs, calls |-> calls, answers |-> said]
             r == ScoreFixture(Driven, t)
  <1>1. results' = Append(results, r) /\ turn' = 1 /\ calls' = <<>> /\ answers' = <<>>
    BY DEF EndFixture
  <1>2. r.transcript = t
    BY DEF ScoreFixture
  <1>3. ResultOK(fixture, r)
    <2>1. ReadOff(msgs) = [answers |-> said, made |-> MadeIn(msgs), told |-> Told(calls)]
          /\ \A k \in DOMAIN calls : MadeIn(msgs)[k] = [tool |-> calls[k].tool, arguments |-> calls[k].arguments]
      BY DEF Reads, MadeIn
    <2>2. Len(Told(calls)) = Len(calls)
      <3>1. Len(calls) \in Nat /\ DOMAIN calls = 1 .. Len(calls)
        BY SeqFacts DEF InFixture
      <3>2. QED
        BY <3>1 DEF Told
    <2>3. TranscriptOK(t)
      <3> DEFINE read == ReadOff(msgs)
      <3>1. read.answers = said /\ read.told = Told(calls) /\ read.made = MadeIn(msgs)
        BY <2>1
      <3> HIDE DEF read
      <3>2. QED
        BY <2>1, <2>2, <3>1 DEF TranscriptOK, Told, read
    <2> HIDE DEF t
    <2>4. t.calls = calls /\ t.answers = said
      BY DEF t
    <2> HIDE DEF r
    <2>5. r = ScoreFixture(Fixtures[fixture], r.transcript)
      BY <1>2 DEF r, Driven
    <2>6. QED
      BY <1>2, <2>3, <2>4, <2>5 DEF ResultOK, InFixture
  <1> HIDE DEF r
  <1>4. ResultsOK' /\ Len(results)' = fixture
    <2>1. IsSeq(results) /\ Len(results) = fixture - 1 /\ fixture \in DOMAIN Fixtures
      BY DEF DriverInv, ResultsOK, InFixture
    <2>2. fixture \in Nat /\ Len(results) + 1 = fixture
      BY <2>1, FixtureFacts
    <2>3. /\ IsSeq(Append(results, r)) /\ Len(Append(results, r)) = fixture
          /\ DOMAIN Append(results, r) = 1 .. fixture /\ Append(results, r)[fixture] = r
          /\ \A k \in 1 .. Len(results) : Append(results, r)[k] = results[k]
      BY <2>1, <2>2, AppendFacts
    <2>4. ASSUME NEW k \in 1 .. fixture
          PROVE  k \in DOMAIN Fixtures /\ ResultOK(k, Append(results, r)[k])
      <3>1. CASE k = fixture
        BY <3>1, <2>1, <2>3, <1>3
      <3>2. CASE k \in 1 .. Len(results)
        <4>1. k \in DOMAIN results
          BY <3>2, <2>1, SeqFacts
        <4>2. QED
          BY <3>2, <4>1, <2>3 DEF DriverInv, ResultsOK
      <3>3. QED
        BY <3>1, <3>2, <2>2
    <2>5. QED
      BY <1>1, <2>3, <2>4 DEF ResultsOK, ResultOK
  <1>5. CASE fixture = Len(Fixtures)
    <2>1. pc' = "scored"
      BY <1>5 DEF EndFixture
    <2>2. QED
      BY <1>1, <1>4, <2>1 DEF DriverInv
  <1>6. CASE fixture # Len(Fixtures)
    <2>1. pc' = "chat" /\ fixture' = fixture + 1 /\ messages' = <<User(1)>>
      BY <1>6 DEF EndFixture
    <2>2. fixture' \in DOMAIN Fixtures /\ Len(results)' = fixture' - 1
      BY <1>4, <1>6, <2>1, FixtureFacts DEF InFixture
    <2>3. turn' \in 1 .. Driven'.turns
      BY <1>1, <2>2, FixtureFacts DEF Driven
    <2>4. Finite(<<>>)
      BY DEF Finite
    <2>5. InFixture'
      BY <1>1, <2>1, <2>2, <2>3, <2>4, Fresh, NoElements DEF InFixture
    <2>6. QED
      BY <1>1, <1>4, <2>1, <2>5, Fresh DEF DriverInv
  <1>7. QED
    BY <1>5, <1>6

LEMMA EndTurnKeeps ==
  ASSUME DriverInv, InFixture, NEW answer, NEW msgs, EndTurn(answer, msgs),
         IsSeq(msgs), Users(msgs) = turn, IsFiniteSet(DOMAIN answer.slots),
         Reads(msgs, calls, Append(answers, answer)), Len(MadeIn(msgs)) = Len(calls)
  PROVE  DriverInv'
  <1> DEFINE said == Append(answers, answer)
  <1>1. IsSeq(said) /\ Finite(said)
    <2>1. /\ IsSeq(said) /\ DOMAIN said = 1 .. Len(answers) + 1 /\ said[Len(answers) + 1] = answer
          /\ \A k \in 1 .. Len(answers) : said[k] = answers[k]
      BY AppendFacts DEF InFixture
    <2>2. Len(answers) \in Nat /\ DOMAIN answers = 1 .. Len(answers)
      BY SeqFacts DEF InFixture
    <2> HIDE DEF said
    <2>3. ASSUME NEW k \in 1 .. Len(answers) + 1
          PROVE  IsFiniteSet(DOMAIN said[k].slots)
      <3>1. CASE k = Len(answers) + 1
        BY <3>1, <2>1
      <3>2. CASE k \in 1 .. Len(answers)
        BY <3>2, <2>1, <2>2 DEF InFixture, Finite
      <3>3. QED
        BY <3>1, <3>2, <2>2
    <2>4. QED
      BY <2>1, <2>3 DEF Finite
  <1>2. CASE turn = Driven.turns
    <2>1. EndFixture("up", msgs, said)
      BY <1>2 DEF EndTurn
    <2> HIDE DEF said
    <2>2. Reads(msgs, calls, said)
      BY DEF said
    <2>3. QED
      BY <1>1, <2>1, <2>2, EndFixtureKeeps
  <1>3. CASE turn # Driven.turns
    <2>1. /\ turn' = turn + 1 /\ pc' = "chat" /\ answers' = said
          /\ messages' = Append(msgs, User(turn + 1))
          /\ results' = results /\ fixture' = fixture /\ calls' = calls
      BY <1>3 DEF EndTurn
    <2> DEFINE u == User(turn + 1)
    <2>2. IsSeq(Append(msgs, u)) /\ u.role = "user"
      BY AppendFacts DEF User
    <2>3. turn \in Nat /\ Driven.turns \in Nat /\ turn <= Driven.turns
      BY FixtureFacts DEF InFixture, Driven, FixtureOK
    <2>4. Users(Append(msgs, u)) = turn + 1
      BY <2>2, UsersAppend
    <2>5. /\ Reads(Append(msgs, u), calls, Append(said, NoAnswer))
          /\ MadeIn(Append(msgs, u)) = MadeIn(msgs)
      BY ReadUser
    <2>6. turn' \in 1 .. Driven'.turns
      BY <1>3, <2>1, <2>3 DEF Driven, InFixture
    <2> HIDE DEF said, u
    <2>7. messages' = Append(msgs, u)
      BY <2>1 DEF u
    <2>8. InFixture'
      BY <1>1, <2>1, <2>2, <2>4, <2>5, <2>6, <2>7 DEF InFixture
    <2>9. ResultsOK'
      BY <2>1 DEF DriverInv, ResultsOK
    <2>10. QED
      BY <2>1, <2>5, <2>7, <2>8, <2>9 DEF DriverInv
  <1>4. QED
    BY <1>2, <1>3
LEMMA LastAssistantIs ==
  ASSUME NEW p \in DOMAIN messages, OpenAt(p, messages, calls), IsSeq(messages)
  PROVE  /\ LastAssistant = p /\ Asked = messages[p].calls /\ Answered = Len(messages) - p
         /\ p \in Nat /\ Len(messages) \in Nat /\ p <= Len(messages)
  <1>1. DOMAIN messages = 1 .. Len(messages) /\ Len(messages) \in Nat
    BY SeqFacts
  <1>2. messages[p].role = "assistant" /\ \A j \in p + 1 .. Len(messages) : messages[j].role = "tool"
    BY DEF OpenAt
  <1>3. ASSUME NEW i \in DOMAIN messages, messages[i].role = "assistant",
               \A j \in i + 1 .. Len(messages) : messages[j].role = "tool"
        PROVE  i = p
    <2>1. i \in 1 .. Len(messages) /\ p \in 1 .. Len(messages)
      BY <1>1
    <2>2. ~(i < p)
      <3>1. i < p => p \in i + 1 .. Len(messages)
        BY <2>1, <1>1
      <3>2. QED
        BY <3>1, <1>2, <1>3
    <2>3. ~(p < i)
      <3>1. p < i => i \in p + 1 .. Len(messages)
        BY <2>1, <1>1
      <3>2. QED
        BY <3>1, <1>2, <1>3
    <2>4. QED
      BY <2>1, <2>2, <2>3
  <1>4. LastAssistant = p
    BY <1>2, <1>3 DEF LastAssistant
  <1>5. QED
    BY <1>1, <1>4 DEF Asked, Answered

LEMMA DriverInit == Init => DriverInv
  <1> SUFFICES ASSUME Init PROVE DriverInv
    OBVIOUS
  <1>1. results = <<>> /\ pc = "idle" /\ calls = <<>> /\ answers = <<>> /\ turn = 1
    BY DEF Init
  <1>2. ResultsOK
    BY <1>1, NoElements DEF ResultsOK
  <1>3. QED
    BY <1>1, <1>2 DEF DriverInv

LEMMA StartRunKeeps ==
  ASSUME DriverInv, NEW i, StartRun(i)
  PROVE  DriverInv'
  <1>1. /\ pc = "idle" /\ pc' = "chat" /\ fixture' = 1 /\ messages' = <<User(1)>>
        /\ results' = results /\ turn' = turn /\ calls' = calls /\ answers' = answers
    BY DEF StartRun
  <1>2. results = <<>> /\ calls = <<>> /\ answers = <<>> /\ turn = 1 /\ ResultsOK
    BY <1>1 DEF DriverInv
  <1>3. fixture' \in DOMAIN Fixtures /\ turn' \in 1 .. Driven'.turns
    BY <1>1, <1>2, FixtureFacts DEF Driven
  <1>4. Finite(<<>>) /\ Len(results') = fixture' - 1
    BY <1>1, <1>2 DEF Finite
  <1>5. InFixture'
    BY <1>1, <1>2, <1>3, <1>4, Fresh, NoElements DEF InFixture
  <1>6. ResultsOK'
    BY <1>1, <1>2 DEF ResultsOK
  <1>7. QED
    BY <1>1, <1>2, <1>5, <1>6, Fresh DEF DriverInv

LEMMA ReceiveKeeps ==
  ASSUME DriverInv, NEW m, MessageOK(m), Receive(m)
  PROVE  DriverInv'
  <1>1. pc = "chat" /\ InFixture /\ Len(MadeIn(messages)) = Len(calls)
    BY DEF Receive, DriverInv
  <1>2. IsSeq(messages) /\ IsSeq(calls) /\ IsSeq(answers) /\ Users(messages) = turn
        /\ Reads(messages, calls, Append(answers, NoAnswer))
    BY <1>1 DEF InFixture
  <1>3. IsSeq(Append(messages, m)) /\ m.role = "assistant" /\ IsFiniteSet(DOMAIN m.answer.slots)
    BY <1>2, AppendFacts DEF MessageOK
  <1>4. Users(Append(messages, m)) = turn
    BY <1>2, <1>3, UsersAppend
  <1>5. CASE m.calls = <<>>
    <2>1. EndTurn(m.answer, Append(messages, m))
      BY <1>5 DEF Receive
    <2>2. Reads(Append(messages, m), calls, Append(answers, m.answer))
          /\ MadeIn(Append(messages, m)) = MadeIn(messages)
      BY <1>2, <1>5, ReadAnswer
    <2>3. QED
      BY <1>1, <1>3, <1>4, <2>1, <2>2, EndTurnKeeps
  <1>6. CASE m.calls # <<>>
    <2>1. /\ pc' = "tools" /\ messages' = Append(messages, m)
          /\ results' = results /\ fixture' = fixture /\ turn' = turn
          /\ calls' = calls /\ answers' = answers
      BY <1>6 DEF Receive, loops
    <2>2. Reads(Append(messages, m), calls, Append(answers, NoAnswer))
          /\ MadeIn(Append(messages, m)) = MadeIn(messages) \o m.calls
      BY <1>2, <1>6, ReadCalls
    <2>3. InFixture'
      BY <1>1, <1>3, <1>4, <2>1, <2>2 DEF InFixture, Driven
    <2>4. ResultsOK'
      BY <2>1 DEF DriverInv, ResultsOK
    <2> DEFINE p == Len(messages) + 1
               msgs == Append(messages, m)
    <2>5. Len(messages) \in Nat /\ DOMAIN msgs = 1 .. p /\ Len(msgs) = p /\ msgs[p] = m
      BY <1>2, SeqFacts, AppendFacts
    <2>6. IsSeq(m.calls) /\ \A i \in DOMAIN m.calls : CallOK(m.calls[i])
      BY DEF MessageOK
    <2>7. IsSeq(MadeIn(messages))
      BY <1>2 DEF Reads, MadeIn
    <2>8. /\ Len(MadeIn(msgs)) = Len(calls) + Len(m.calls)
          /\ \A i \in 1 .. Len(m.calls) : MadeIn(msgs)[Len(calls) + i] = m.calls[i]
      <3> DEFINE made == MadeIn(messages)
                 more == m.calls
      <3>1. MadeIn(msgs) = made \o more /\ Len(made) = Len(calls) /\ IsSeq(made) /\ IsSeq(more)
        BY <1>1, <2>2, <2>6, <2>7
      <3> HIDE DEF made, more, msgs, p
      <3>2. Len(made \o more) = Len(made) + Len(more)
        BY <3>1, ConcatFacts
      <3>3. \A i \in 1 .. Len(more) : (made \o more)[Len(made) + i] = more[i]
        BY <3>1, ConcatFacts
      <3>4. /\ Len(MadeIn(msgs)) = Len(calls) + Len(more)
            /\ \A i \in 1 .. Len(more) : MadeIn(msgs)[Len(calls) + i] = more[i]
        BY <3>1, <3>2, <3>3
      <3>5. QED
        BY <3>4 DEF more
    <2> HIDE DEF msgs
    <2>9. OpenAt(p, msgs, calls)
      <3>1. Len(m.calls) \in Nat /\ Len(calls) \in Nat /\ p \in Nat /\ p \in 1 .. p
        BY <1>2, <2>5, <2>6, SeqFacts
      <3> HIDE DEF p
      <3>2. \A j \in p + 1 .. Len(msgs) : FALSE
        BY <2>5, <3>1
      <3>3. Len(calls) - (Len(msgs) - p) = Len(calls)
        BY <2>5, <3>1
      <3>4. Len(msgs) - p <= Len(m.calls)
        BY <2>5, <3>1
      <3>5. QED
        BY <1>3, <2>5, <2>6, <2>8, <3>1, <3>2, <3>3, <3>4 DEF OpenAt
    <2>10. p \in DOMAIN msgs
      BY <2>9 DEF OpenAt
    <2> HIDE DEF p
    <2>11. \E q \in DOMAIN messages' : OpenAt(q, messages', calls')
      BY <2>1, <2>9, <2>10 DEF msgs
    <2>12. QED
      BY <2>1, <2>3, <2>4, <2>11 DEF DriverInv
  <1>7. QED
    BY <1>5, <1>6

LEMMA EndpointFailsKeeps ==
  ASSUME DriverInv, EndpointFails
  PROVE  DriverInv'
  <1>1. pc = "chat" /\ InFixture /\ Len(MadeIn(messages)) = Len(calls)
    BY DEF EndpointFails, DriverInv
  <1>2. EndFixture("error", messages, Append(answers, NoAnswer))
    BY DEF EndpointFails, Abort
  <1>3. IsSeq(answers) /\ Finite(answers) /\ Reads(messages, calls, Append(answers, NoAnswer))
    BY <1>1 DEF InFixture
  <1>4. /\ IsSeq(Append(answers, NoAnswer)) /\ DOMAIN Append(answers, NoAnswer) = 1 .. Len(answers) + 1
        /\ Append(answers, NoAnswer)[Len(answers) + 1] = NoAnswer
        /\ \A k \in 1 .. Len(answers) : Append(answers, NoAnswer)[k] = answers[k]
        /\ Len(answers) \in Nat /\ DOMAIN answers = 1 .. Len(answers)
    BY <1>3, AppendFacts, SeqFacts
  <1>5. Finite(Append(answers, NoAnswer))
    <2> DEFINE said == Append(answers, NoAnswer)
    <2> HIDE DEF said
    <2> SUFFICES ASSUME NEW k \in DOMAIN said PROVE IsFiniteSet(DOMAIN said[k].slots)
      BY DEF Finite, said
    <2>1. CASE k = Len(answers) + 1
      BY <2>1, <1>4, NoAnswerFinite DEF said
    <2>2. CASE k \in 1 .. Len(answers)
      BY <2>2, <1>3, <1>4 DEF said, Finite
    <2>3. QED
      BY <2>1, <2>2, <1>4 DEF said
  <1>6. QED
    BY <1>1, <1>2, <1>3, <1>4, <1>5, EndFixtureKeeps

LEMMA HandleCallKeeps ==
  ASSUME DriverInv, HandleCall
  PROVE  DriverInv'
  <1>1. pc = "tools" /\ InFixture
    BY DEF HandleCall, DriverInv
  <1>2. IsSeq(messages) /\ IsSeq(calls) /\ IsSeq(answers) /\ Users(messages) = turn
        /\ Reads(messages, calls, Append(answers, NoAnswer))
    BY <1>1 DEF InFixture
  <1>3. PICK p \in DOMAIN messages : OpenAt(p, messages, calls)
    BY <1>1 DEF DriverInv
  <1> DEFINE asked == messages[p].calls
             done == Len(messages) - p
             call == asked[done + 1]
             result == IF ValidCall(call) THEN Execute(Driven, call.tool, call.arguments) ELSE Error
             c == EmittedCallRecord(call, result)
             m == ToolSays(call.tool, result)
  <1>4. /\ Asked = asked /\ Answered = done /\ p \in Nat /\ Len(messages) \in Nat
        /\ p <= Len(messages) /\ done \in Nat
    BY <1>2, <1>3, LastAssistantIs
  <1>5. /\ done < Len(asked) /\ calls' = Append(calls, c) /\ messages' = Append(messages, m)
        /\ results' = results /\ fixture' = fixture /\ turn' = turn /\ pc' = pc
        /\ answers' = answers
    BY <1>4 DEF HandleCall, loops
  <1>6. c.tool = call.tool /\ c.arguments = call.arguments /\ c.result = result
    BY DEF EmittedCallRecord
  <1>7. /\ IsSeq(asked) /\ \A i \in DOMAIN asked : CallOK(asked[i])
        /\ Len(MadeIn(messages)) = Len(calls) - done + Len(asked)
        /\ \A i \in 1 .. Len(asked) : MadeIn(messages)[Len(calls) - done + i] = asked[i]
        /\ messages[p].role = "assistant" /\ \A j \in p + 1 .. Len(messages) : messages[j].role = "tool"
    BY <1>3 DEF OpenAt
  <1>8. Len(asked) \in Nat /\ DOMAIN asked = 1 .. Len(asked) /\ Len(calls) \in Nat
        /\ DOMAIN messages = 1 .. Len(messages)
    BY <1>2, <1>7, SeqFacts
  <1> HIDE DEF done, asked, call, result
  <1>9. done + 1 \in 1 .. Len(asked) /\ Len(calls) - done + (done + 1) = Len(calls) + 1
    BY <1>4, <1>5, <1>8
  <1>10. MadeIn(messages)[Len(calls) + 1] = [tool |-> c.tool, arguments |-> c.arguments]
    <2>1. MadeIn(messages)[Len(calls) + 1] = call
      BY <1>7, <1>9 DEF call
    <2>2. CallOK(call)
      BY <1>7, <1>8, <1>9 DEF call
    <2>3. QED
      BY <1>6, <2>1, <2>2 DEF CallOK
  <1>11. Len(calls) < Len(MadeIn(messages))
    BY <1>4, <1>5, <1>7, <1>8
  <1>12. m = ToolSays(c.tool, c.result) /\ m.role = "tool"
    BY <1>6 DEF ToolSays
  <1> HIDE DEF c, m
  <1>13. /\ Reads(Append(messages, m), Append(calls, c), Append(answers, NoAnswer))
         /\ MadeIn(Append(messages, m)) = MadeIn(messages)
    BY <1>2, <1>10, <1>11, <1>12, ReadTold
  <1>14. /\ IsSeq(Append(messages, m)) /\ Len(Append(messages, m)) = Len(messages) + 1
         /\ DOMAIN Append(messages, m) = 1 .. Len(messages) + 1
         /\ Append(messages, m)[Len(messages) + 1] = m
         /\ \A k \in 1 .. Len(messages) : Append(messages, m)[k] = messages[k]
         /\ IsSeq(Append(calls, c)) /\ Len(Append(calls, c)) = Len(calls) + 1
    BY <1>2, AppendFacts
  <1>15. Users(Append(messages, m)) = turn
    BY <1>2, <1>12, UsersAppend
  <1>16. InFixture'
    BY <1>1, <1>5, <1>13, <1>14, <1>15 DEF InFixture, Driven
  <1> DEFINE msgs == Append(messages, m)
             cs == Append(calls, c)
  <1> HIDE DEF msgs, cs
  <1>17. OpenAt(p, msgs, cs)
    <2>1. p \in DOMAIN msgs /\ p \in 1 .. Len(messages) /\ msgs[p] = messages[p]
      BY <1>4, <1>8, <1>14 DEF msgs
    <2>2. \A j \in p + 1 .. Len(msgs) : msgs[j].role = "tool"
      <3> SUFFICES ASSUME NEW j \in p + 1 .. Len(messages) + 1 PROVE msgs[j].role = "tool"
        BY <1>14 DEF msgs
      <3>1. CASE j = Len(messages) + 1
        BY <3>1, <1>12, <1>14 DEF msgs
      <3>2. CASE j \in p + 1 .. Len(messages)
        BY <3>2, <1>4, <1>7, <1>14 DEF msgs
      <3>3. QED
        BY <3>1, <3>2, <1>4
    <2>3. Len(msgs) - p = done + 1 /\ Len(cs) - (Len(msgs) - p) = Len(calls) - done
      BY <1>4, <1>8, <1>14 DEF msgs, cs, done
    <2>4. done + 1 <= Len(asked)
      BY <1>4, <1>5, <1>8
    <2>5. msgs[p].calls = asked /\ MadeIn(msgs) = MadeIn(messages)
      BY <2>1, <1>13 DEF asked, msgs
    <2>6. QED
      BY <1>7, <2>1, <2>2, <2>3, <2>4, <2>5 DEF OpenAt
  <1>18. \E q \in DOMAIN messages' : OpenAt(q, messages', calls')
    <2>1. messages' = msgs /\ calls' = cs /\ p \in DOMAIN msgs
      BY <1>5, <1>17 DEF msgs, cs, OpenAt
    <2>2. QED
      BY <2>1, <1>17
  <1>19. ResultsOK'
    BY <1>5 DEF DriverInv, ResultsOK
  <1>20. QED
    BY <1>1, <1>5, <1>16, <1>18, <1>19 DEF DriverInv

\* When every call is answered the reading is closed.
LEMMA AllToldFacts ==
  ASSUME DriverInv, pc = "tools", Answered = Len(Asked)
  PROVE  Len(MadeIn(messages)) = Len(calls)
  <1>1. IsSeq(messages) /\ IsSeq(calls)
    BY DEF DriverInv, InFixture
  <1>2. PICK p \in DOMAIN messages : OpenAt(p, messages, calls)
    BY DEF DriverInv
  <1>3. Asked = messages[p].calls /\ Answered = Len(messages) - p
    BY <1>1, <1>2, LastAssistantIs
  <1>4. Len(MadeIn(messages)) = Len(calls) - Answered + Len(Asked) /\ IsSeq(Asked)
    BY <1>2, <1>3 DEF OpenAt
  <1>5. Len(calls) \in Nat /\ Len(Asked) \in Nat
    BY <1>1, <1>4, SeqFacts
  <1>6. QED
    BY <1>4, <1>5

LEMMA NextRoundKeeps ==
  ASSUME DriverInv, NextRound
  PROVE  DriverInv'
  <1>1. /\ pc = "tools" /\ Answered = Len(Asked) /\ pc' = "chat" /\ InFixture
        /\ results' = results /\ fixture' = fixture /\ turn' = turn
        /\ messages' = messages /\ calls' = calls /\ answers' = answers
    BY DEF NextRound, DriverInv, transcript
  <1>2. Len(MadeIn(messages)) = Len(calls)
    BY <1>1, AllToldFacts
  <1>3. InFixture' /\ ResultsOK'
    BY <1>1 DEF InFixture, Driven, DriverInv, ResultsOK
  <1>4. QED
    BY <1>1, <1>2, <1>3 DEF DriverInv

LEMMA RoundsExhaustedKeeps ==
  ASSUME DriverInv, RoundsExhausted
  PROVE  DriverInv'
  <1>1. pc = "tools" /\ Answered = Len(Asked) /\ InFixture /\ EndTurn(NoAnswer, messages)
    BY DEF RoundsExhausted, DriverInv
  <1>2. Len(MadeIn(messages)) = Len(calls)
    BY <1>1, AllToldFacts
  <1>3. QED
    BY <1>1, <1>2, NoAnswerFinite, EndTurnKeeps DEF InFixture

LEMMA WriteRunKeeps ==
  ASSUME DriverInv, WriteRun
  PROVE  DriverInv'
  <1>1. /\ pc = "scored" /\ pc' = "idle" /\ results' = <<>>
        /\ turn' = turn /\ calls' = calls /\ answers' = answers
    BY DEF WriteRun, loops, transcript
  <1>2. ResultsOK'
    BY <1>1, NoElements DEF ResultsOK
  <1>3. QED
    BY <1>1, <1>2 DEF DriverInv

LEMMA DriverUnchanged ==
  ASSUME DriverInv, UNCHANGED <<results, fixture, turn, pc, messages, calls, answers>>
  PROVE  DriverInv'
  <1>1. InFixture = InFixture' /\ ResultsOK = ResultsOK'
    BY DEF InFixture, ResultsOK, Driven
  <1>2. QED
    BY <1>1 DEF DriverInv

LEMMA DriverStep == DriverInv /\ [Next]_vars => DriverInv'
  <1> SUFFICES ASSUME DriverInv, [Next]_vars PROVE DriverInv'
    OBVIOUS
  <1>1. ASSUME NEW i \in DOMAIN Order, StartRun(i) PROVE DriverInv'
    BY <1>1, StartRunKeeps
  <1>2. CASE ModelPlays
    <2>1. pc = "chat"
      BY <1>2 DEF ModelPlays, Receive
    <2>2. FixtureOK(Driven) /\ Users(messages) \in 1 .. Driven.turns
      BY <2>1, FixtureFacts DEF DriverInv, InFixture, Driven
    <2>3. MessageOK(SeededAction(Driven, messages)) /\ MessageOK(NextAction(Driven, messages))
      BY <2>2, MockOK
    <2>4. QED
      BY <1>2, <2>3, ReceiveKeeps DEF ModelPlays
  <1>3. ASSUME NEW m \in Messages, ModelSlips(m) PROVE DriverInv'
    BY <1>3, EvaluationAssumption, ReceiveKeeps DEF ModelSlips
  <1>4. CASE EndpointFails
    BY <1>4, EndpointFailsKeeps
  <1>5. CASE HandleCall
    BY <1>5, HandleCallKeeps
  <1>6. CASE NextRound
    BY <1>6, NextRoundKeeps
  <1>7. CASE RoundsExhausted
    BY <1>7, RoundsExhaustedKeeps
  <1>8. CASE WriteRun
    BY <1>8, WriteRunKeeps
  <1>9. ASSUME NEW c \in Live, NEW verdicts \in [Judged -> Verdicts], Rejudge(c, verdicts)
        PROVE  DriverInv'
    BY <1>9, DriverUnchanged DEF Rejudge, loops, transcript
  <1>10. CASE UNCHANGED vars
    BY <1>10, DriverUnchanged DEF vars, loops, transcript
  <1>11. QED
    BY <1>1, <1>2, <1>3, <1>4, <1>5, <1>6, <1>7, <1>8, <1>9, <1>10 DEF Next

\* What scorers, judge and auditor read off a transcript is what was said, for any model,
\* any labels and any number of rounds: the driver's loops (driver.py run_fixture) keep
\* messages, calls and answers in step through tool errors, invalid calls, turns whose
\* rounds ran out and endpoints that fail.
THEOREM TranscriptsAreFaithful == Spec => []TranscriptFaithful
  <1>1. DriverInv => TranscriptFaithful
    <2> SUFFICES ASSUME DriverInv PROVE TranscriptFaithful
      OBVIOUS
    <2>1. \A k \in DOMAIN results : TranscriptOK(results[k].transcript)
      BY DEF DriverInv, ResultsOK, ResultOK
    <2>2. ASSUME pc = "chat"
          PROVE  Len(ReadOff(messages).made) = Len(ReadOff(messages).told)
      <3>1. Len(MadeIn(messages)) = Len(calls) /\ IsSeq(calls)
            /\ Reads(messages, calls, Append(answers, NoAnswer))
        BY <2>2 DEF DriverInv, InFixture
      <3>2. ReadOff(messages).told = Told(calls)
        BY <3>1 DEF Reads
      <3>3. Len(Told(calls)) = Len(calls)
        BY <3>1, SeqFacts DEF Told
      <3>4. QED
        BY <3>1, <3>2, <3>3 DEF MadeIn
    <2>3. QED
      BY <2>1, <2>2 DEF TranscriptFaithful
  <1>2. QED
    BY <1>1, DriverInit, DriverStep, PTL DEF Spec

-----------------------------------------------------------------------------
(* Matching expected calls greedily finds a match whenever there is one.   *)

Matches(x, emitted, j) == CallMatchesExpected(x, emitted[j], SeenBefore(emitted, j))

\* f places the expected calls, in order, at emitted calls that match them.
Embeds(expected, emitted, f) ==
    /\ f \in [DOMAIN expected -> DOMAIN emitted]
    /\ \A i, j \in DOMAIN expected : i < j => f[i] < f[j]
    /\ \A i \in DOMAIN expected : Matches(expected[i], emitted, f[i])

\* As long as everything matched, the expected calls so far can be placed before the cursor
\* and no call before the cursor is left for the next one, however they are placed; once one
\* has not matched, there is no way to place them.
Placed(emitted, expected, cursor) ==
    /\ \E f : /\ Embeds(expected, emitted, f)
              /\ \A i \in DOMAIN expected : f[i] < cursor
    /\ \A f : \A j \in DOMAIN emitted :
           Embeds(expected, emitted, f) /\ (\A i \in DOMAIN expected : f[i] < j) => cursor <= j

AllOf(flags) == \A k \in 1 .. Len(flags) : flags[k]
ScanOK(emitted, expected, scan) ==
    /\ scan.cursor \in 1 .. Len(emitted) + 1
    /\ scan.matches \in Seq(BOOLEAN) /\ Len(scan.matches) = Len(expected)
    /\ IF AllOf(scan.matches) THEN Placed(emitted, expected, scan.cursor)
       ELSE \A f : ~Embeds(expected, emitted, f)
Scan == INSTANCE LeftFolds WITH
    Op <- MatchNext, Base <- LAMBDA emitted : [cursor |-> 1, matches |-> <<>>], Holds <- ScanOK

LEMMA PlacedNone ==
  ASSUME NEW emitted, IsSeq(emitted)
  PROVE  Placed(emitted, <<>>, 1)
  <1> DEFINE f == [i \in {} |-> 0]
  <1>1. DOMAIN <<>> = {}
    OBVIOUS
  <1>2. f \in [{} -> DOMAIN emitted]
    OBVIOUS
  <1> HIDE DEF f
  <1>3. Embeds(<<>>, emitted, f) /\ \A i \in DOMAIN <<>> : f[i] < 1
    BY <1>1, <1>2 DEF Embeds
  <1>4. \A j \in DOMAIN emitted : 1 <= j
    BY SeqFacts
  <1>5. QED
    BY <1>3, <1>4 DEF Placed

\* A placing of a longer sequence places the shorter one before its last element.
LEMMA Shorter ==
  ASSUME NEW emitted, NEW s, IsSeq(s), NEW x, NEW g, Embeds(Append(s, x), emitted, g)
  PROVE  /\ Embeds(s, emitted, [i \in DOMAIN s |-> g[i]])
         /\ g[Len(s) + 1] \in DOMAIN emitted /\ Matches(x, emitted, g[Len(s) + 1])
         /\ \A i \in DOMAIN s : g[i] < g[Len(s) + 1]
  <1> DEFINE p == Len(s) + 1
             r == Append(s, x)
             h == [i \in DOMAIN s |-> g[i]]
  <1>1. /\ Len(s) \in Nat /\ DOMAIN s = 1 .. Len(s) /\ DOMAIN r = 1 .. p /\ r[p] = x
        /\ \A i \in 1 .. Len(s) : r[i] = s[i]
    BY SeqFacts, AppendFacts
  <1>2. /\ g \in [DOMAIN r -> DOMAIN emitted]
        /\ \A i, j \in DOMAIN r : i < j => g[i] < g[j]
        /\ \A i \in DOMAIN r : Matches(r[i], emitted, g[i])
    BY DEF Embeds
  <1> HIDE DEF r
  <1>3. p \in DOMAIN r /\ \A i \in DOMAIN s : i \in DOMAIN r /\ i < p
    BY <1>1
  <1> HIDE DEF p
  <1>4. g[p] \in DOMAIN emitted /\ Matches(x, emitted, g[p]) /\ \A i \in DOMAIN s : g[i] < g[p]
    BY <1>1, <1>2, <1>3
  <1>5. Embeds(s, emitted, h)
    <2>1. h \in [DOMAIN s -> DOMAIN emitted]
      BY <1>2, <1>3
    <2>2. \A i \in DOMAIN s : h[i] = g[i]
      OBVIOUS
    <2> HIDE DEF h
    <2>3. \A i, j \in DOMAIN s : i < j => h[i] < h[j]
      BY <1>2, <1>3, <2>2
    <2>4. \A i \in DOMAIN s : Matches(s[i], emitted, h[i])
      BY <1>1, <1>2, <1>3, <2>2
    <2>5. QED
      BY <2>1, <2>3, <2>4 DEF Embeds
  <1>6. QED
    BY <1>4, <1>5 DEF p

LEMMA FoundIs ==
  ASSUME NEW emitted, IsSeq(emitted), NEW x, NEW cursor \in 1 .. Len(emitted) + 1
  PROVE  \A j : j \in Matching(x, emitted, cursor)
                  <=> j \in DOMAIN emitted /\ cursor <= j /\ Matches(x, emitted, j)
  <1>1. Len(emitted) \in Nat /\ DOMAIN emitted = 1 .. Len(emitted)
    BY SeqFacts
  <1>2. \A j : j \in cursor .. Len(emitted) <=> j \in DOMAIN emitted /\ cursor <= j
    BY <1>1
  <1>3. QED
    BY <1>2 DEF Matching, Matches

LEMMA PlacedNot ==
  ASSUME NEW emitted, IsSeq(emitted), NEW s, IsSeq(s), NEW x,
         NEW cursor \in 1 .. Len(emitted) + 1, Placed(emitted, s, cursor),
         Matching(x, emitted, cursor) = {}, NEW g, Embeds(Append(s, x), emitted, g)
  PROVE  FALSE
  <1> DEFINE h == [i \in DOMAIN s |-> g[i]]
             j == g[Len(s) + 1]
  <1>1. Embeds(s, emitted, h) /\ j \in DOMAIN emitted /\ Matches(x, emitted, j)
        /\ \A i \in DOMAIN s : h[i] < j
    BY Shorter
  <1> HIDE DEF h, j
  <1>2. cursor <= j
    BY <1>1 DEF Placed
  <1>3. QED
    BY <1>1, <1>2, FoundIs

LEMMA EarliestIs ==
  ASSUME NEW found \in SUBSET Nat, found # {}
  PROVE  Earliest(found) \in found /\ \A k \in found : Earliest(found) <= k
  BY Scan!SmallestOfNats DEF Earliest

LEMMA PlacedNext ==
  ASSUME NEW emitted, IsSeq(emitted), NEW s, IsSeq(s), NEW x,
         NEW cursor \in 1 .. Len(emitted) + 1, Placed(emitted, s, cursor),
         Matching(x, emitted, cursor) # {}
  PROVE  LET first == Earliest(Matching(x, emitted, cursor))
         IN  first + 1 \in 1 .. Len(emitted) + 1 /\ Placed(emitted, Append(s, x), first + 1)
  <1> DEFINE found == Matching(x, emitted, cursor)
             first == Earliest(found)
             p == Len(s) + 1
             r == Append(s, x)
  <1>1. \A j : j \in found <=> j \in DOMAIN emitted /\ cursor <= j /\ Matches(x, emitted, j)
    BY FoundIs
  <1>2. Len(emitted) \in Nat /\ DOMAIN emitted = 1 .. Len(emitted)
    BY SeqFacts
  <1> HIDE DEF found
  <1>3. found \in SUBSET Nat /\ found # {}
    BY <1>1, <1>2 DEF found
  <1>4. first \in found /\ \A k \in found : first <= k
    BY <1>3, EarliestIs
  <1> HIDE DEF first
  <1>5. first \in DOMAIN emitted /\ cursor <= first /\ Matches(x, emitted, first)
    BY <1>1, <1>4
  <1>6. /\ Len(s) \in Nat /\ DOMAIN s = 1 .. Len(s) /\ DOMAIN r = 1 .. p /\ r[p] = x
        /\ \A i \in 1 .. Len(s) : r[i] = s[i]
    BY SeqFacts, AppendFacts
  <1> HIDE DEF r
  <1>7. \E g : Embeds(r, emitted, g) /\ \A i \in DOMAIN r : g[i] < first + 1
    <2>1. PICK f : Embeds(s, emitted, f) /\ \A i \in DOMAIN s : f[i] < cursor
      BY DEF Placed
    <2> DEFINE g == [i \in DOMAIN r |-> IF i = p THEN first ELSE f[i]]
    <2>2. \A i \in DOMAIN r : i = p \/ (i \in DOMAIN s /\ i < p)
      BY <1>6
    <2>3. p \in DOMAIN r /\ p \notin DOMAIN s /\ \A i \in DOMAIN s : i \in DOMAIN r /\ i # p
      BY <1>6
    <2>4. /\ f \in [DOMAIN s -> DOMAIN emitted]
          /\ \A i, j \in DOMAIN s : i < j => f[i] < f[j]
          /\ \A i \in DOMAIN s : Matches(s[i], emitted, f[i])
      BY <2>1 DEF Embeds
    <2>5. g[p] = first /\ \A i \in DOMAIN s : g[i] = f[i]
      BY <2>3
    <2>6. g \in [DOMAIN r -> DOMAIN emitted]
      BY <1>5, <2>2, <2>4
    <2> HIDE DEF g
    <2>7. \A i \in DOMAIN s : f[i] \in Int /\ f[i] < first
      BY <1>2, <1>5, <2>1, <2>4
    <2>8. \A i \in DOMAIN r : g[i] < first + 1
      BY <1>2, <1>5, <2>2, <2>5, <2>7
    <2>9. \A i, j \in DOMAIN r : i < j => g[i] < g[j]
      <3> SUFFICES ASSUME NEW i \in DOMAIN r, NEW j \in DOMAIN r, i < j PROVE g[i] < g[j]
        OBVIOUS
      <3>1. i \in DOMAIN s
        BY <1>6
      <3>2. CASE j = p
        BY <2>5, <2>7, <3>1, <3>2
      <3>3. CASE j \in DOMAIN s
        BY <2>4, <2>5, <3>1, <3>3
      <3>4. QED
        BY <2>2, <3>2, <3>3
    <2>10. \A i \in DOMAIN r : Matches(r[i], emitted, g[i])
      <3> SUFFICES ASSUME NEW i \in DOMAIN r PROVE Matches(r[i], emitted, g[i])
        OBVIOUS
      <3>1. CASE i = p
        BY <1>5, <1>6, <2>5, <3>1
      <3>2. CASE i \in DOMAIN s
        BY <1>6, <2>4, <2>5, <3>2
      <3>3. QED
        BY <2>2, <3>1, <3>2
    <2>11. QED
      BY <2>6, <2>8, <2>9, <2>10 DEF Embeds
  <1>8. ASSUME NEW g, NEW j \in DOMAIN emitted, Embeds(r, emitted, g),
               \A i \in DOMAIN r : g[i] < j
        PROVE  first + 1 <= j
    <2> DEFINE h == [i \in DOMAIN s |-> g[i]]
               last == g[p]
    <2>1. Embeds(s, emitted, h) /\ last \in DOMAIN emitted /\ Matches(x, emitted, last)
          /\ \A i \in DOMAIN s : h[i] < last
      BY <1>8, Shorter DEF r
    <2>2. last < j
      BY <1>6, <1>8
    <2> HIDE DEF h, last
    <2>3. cursor <= last
      BY <2>1 DEF Placed
    <2>4. first <= last
      BY <1>1, <1>4, <2>1, <2>3
    <2>5. QED
      BY <1>2, <1>5, <2>1, <2>2, <2>4
  <1>9. first + 1 \in 1 .. Len(emitted) + 1
    BY <1>2, <1>5
  <1>10. Placed(emitted, r, first + 1)
    BY <1>7, <1>8 DEF Placed
  <1>11. QED
    BY <1>9, <1>10 DEF first, found, r

LEMMA MatchNextKeeps ==
  ASSUME NEW emitted, IsSeq(emitted), NEW s, IsSeq(s), NEW x,
         NEW scan, ScanOK(emitted, s, scan)
  PROVE  ScanOK(emitted, Append(s, x), MatchNext(scan, x, emitted))
  <1> DEFINE found == Matching(x, emitted, scan.cursor)
             next == MatchNext(scan, x, emitted)
             flags == scan.matches
             all == Append(flags, found # {})
  <1>1. /\ scan.cursor \in 1 .. Len(emitted) + 1 /\ flags \in Seq(BOOLEAN) /\ Len(flags) = Len(s)
        /\ AllOf(flags) => Placed(emitted, s, scan.cursor)
        /\ ~AllOf(flags) => \A f : ~Embeds(s, emitted, f)
    BY DEF ScanOK
  <1>2. /\ next.matches = all
        /\ next.cursor = IF found = {} THEN Len(emitted) + 1 ELSE Earliest(found) + 1
    BY DEF MatchNext
  <1>3. Len(emitted) \in Nat /\ Len(s) \in Nat /\ Len(Append(s, x)) = Len(s) + 1
    BY SeqFacts, AppendFacts
  <1> HIDE DEF found, next, flags
  <1>4. /\ all \in Seq(BOOLEAN) /\ Len(all) = Len(s) + 1
        /\ all[Len(s) + 1] = (found # {}) /\ \A k \in 1 .. Len(s) : all[k] = flags[k]
    BY <1>1, <1>3
  <1> HIDE DEF all
  <1>5. AllOf(all) <=> AllOf(flags) /\ found # {}
    <2>1. AllOf(all) <=> \A k \in 1 .. Len(s) + 1 : all[k]
      BY <1>4 DEF AllOf
    <2>2. AllOf(flags) <=> \A k \in 1 .. Len(s) : flags[k]
      BY <1>1 DEF AllOf
    <2>3. \A k \in 1 .. Len(s) + 1 : k = Len(s) + 1 \/ k \in 1 .. Len(s)
      BY <1>3
    <2>4. Len(s) + 1 \in 1 .. Len(s) + 1 /\ \A k \in 1 .. Len(s) : k \in 1 .. Len(s) + 1
      BY <1>3
    <2>5. QED
      BY <1>4, <2>1, <2>2, <2>3, <2>4
  <1>6. CASE AllOf(flags) /\ found # {}
    <2>1. Earliest(found) + 1 \in 1 .. Len(emitted) + 1
          /\ Placed(emitted, Append(s, x), Earliest(found) + 1)
      BY <1>1, <1>6, PlacedNext DEF found
    <2>2. QED
      BY <1>2, <1>3, <1>4, <1>5, <1>6, <2>1 DEF ScanOK, next
  <1>7. CASE ~AllOf(flags) \/ found = {}
    <2>1. \A g : ~Embeds(Append(s, x), emitted, g)
      <3> SUFFICES ASSUME NEW g, Embeds(Append(s, x), emitted, g) PROVE FALSE
        OBVIOUS
      <3>1. CASE ~AllOf(flags)
        BY <1>1, <3>1, Shorter
      <3>2. CASE AllOf(flags) /\ found = {}
        BY <1>1, <3>2, PlacedNot DEF found
      <3>3. QED
        BY <1>7, <3>1, <3>2
    <2>2. next.cursor \in 1 .. Len(emitted) + 1
      <3>1. CASE found = {}
        BY <1>2, <1>3, <3>1
      <3>2. CASE found # {}
        <4>1. \A j \in found : j \in 1 .. Len(emitted)
          BY <1>1, <1>3, FoundIs, SeqFacts DEF found
        <4>2. found \in SUBSET Nat
          BY <1>3, <4>1
        <4>3. Earliest(found) \in found
          BY <3>2, <4>2, EarliestIs
        <4>4. QED
          BY <1>2, <1>3, <3>2, <4>1, <4>3
      <3>3. QED
        BY <3>1, <3>2
    <2>3. QED
      BY <1>2, <1>3, <1>4, <1>5, <1>7, <2>1, <2>2 DEF ScanOK, next
  <1>8. QED
    BY <1>6, <1>7

LEMMA CountAll ==
  ASSUME NEW flags \in Seq(BOOLEAN)
  PROVE  Count(flags) = Len(flags) <=> AllOf(flags)
  <1> DEFINE yes == {i \in DOMAIN flags : flags[i]}
             n == Len(flags)
  <1>1. n \in Nat /\ DOMAIN flags = 1 .. n /\ yes \subseteq 1 .. n
    OBVIOUS
  <1>2. Count(flags) = Cardinality(yes)
    BY DEF Count
  <1>3. AllOf(flags) <=> yes = 1 .. n
    BY <1>1 DEF AllOf
  <1> HIDE DEF yes, n
  <1>4. IsFiniteSet(1 .. n) /\ Cardinality(1 .. n) = n
    <2>1. 1 \in Int /\ n \in Int
      BY <1>1
    <2>2. IsFiniteSet(1 .. n) /\ Cardinality(1 .. n) = IF 1 > n THEN 0 ELSE n - 1 + 1
      BY <2>1, FS_Interval
    <2>3. QED
      BY <1>1, <2>2
  <1>5. Cardinality(yes) = Cardinality(1 .. n) <=> yes = 1 .. n
    BY <1>1, <1>4, FS_Subset
  <1>6. QED
    BY <1>2, <1>3, <1>4, <1>5 DEF n

\* The greedy scan of score_tool_calls, which lets each expected call consume the emitted
\* calls up to its first match and never goes back, finds a sequence match exactly when
\* there is one: no choice of later matches could have done better.
THEOREM GreedyIsExact ==
  ASSUME NEW expected, IsSeq(expected), NEW emitted, IsSeq(emitted)
  PROVE  ScoreToolCalls(expected, emitted).sequence_match = Appear(expected, emitted)
  <1> DEFINE scan == Scan!Fold(emitted, expected)
  <1>1. scan = FoldLeft(LAMBDA s, e : MatchNext(s, e, emitted),
                        [cursor |-> 1, matches |-> <<>>], expected)
    BY DEF Scan!Fold, FoldLeft, MapThenFoldSet, Max, Scan!FoldLeft, Scan!MapThenFoldSet, Scan!Max
  <1>2. ScoreToolCalls(expected, emitted).sequence_match
          = (Count(scan.matches) = Len(scan.matches))
    BY <1>1 DEF ScoreToolCalls
  <1>3. ScanOK(emitted, expected, scan)
    <2>1. PICK S : expected \in Seq(S)
      BY CommonSet
    <2>2. ScanOK(emitted, <<>>, [cursor |-> 1, matches |-> <<>>])
      <3>1. Len(emitted) \in Nat /\ Len(<<>>) = 0 /\ <<>> \in Seq(BOOLEAN)
        BY SeqFacts
      <3>2. AllOf(<<>>)
        BY DEF AllOf
      <3>3. QED
        BY <3>1, <3>2, PlacedNone DEF ScanOK
    <2>3. ASSUME NEW t \in Seq(S), NEW x \in S, ScanOK(emitted, t, Scan!Fold(emitted, t))
          PROVE  ScanOK(emitted, Append(t, x), MatchNext(Scan!Fold(emitted, t), x, emitted))
      BY <2>3, SeqOfSet, MatchNextKeeps
    <2>4. \A s \in Seq(S) : ScanOK(emitted, s, Scan!Fold(emitted, s))
      BY <2>2, <2>3, Scan!FoldInduction
    <2>5. QED
      BY <2>1, <2>4
  <1> HIDE DEF scan
  <1>4. Count(scan.matches) = Len(scan.matches) <=> AllOf(scan.matches)
    BY <1>3, CountAll DEF ScanOK
  <1>5. Appear(expected, emitted) <=> \E f : Embeds(expected, emitted, f)
    BY DEF Appear, Embeds, Matches
  <1>6. AllOf(scan.matches) <=> \E f : Embeds(expected, emitted, f)
    BY <1>3 DEF ScanOK, Placed
  <1>7. Count(scan.matches) = Len(scan.matches) <=> Appear(expected, emitted)
    BY <1>4, <1>5, <1>6
  <1>8. (Count(scan.matches) = Len(scan.matches)) = Appear(expected, emitted)
    BY <1>7 DEF Appear
  <1>9. QED
    BY <1>2, <1>8

-----------------------------------------------------------------------------
(* Storing the transcripts of a run without their messages changes none of *)
(* its metrics.                                                            *)

Counts == [tp : Nat, fp : Nat, fn : Nat]
ResultFields == {"fixture_id", "slice", "transcript", "tool_calls", "intent_matches", "slot_counts",
                 "asserted", "inventions", "judge_coherence", "judge_error"}
RecordOK(r) ==
    /\ r = [key \in DOMAIN r |-> r[key]] /\ ResultFields \subseteq DOMAIN r
    /\ IsSeq(r.intent_matches) /\ r.slot_counts \in Counts
RecordsOK(s) == IsSeq(s) /\ \A k \in DOMAIN s : RecordOK(s[k])

AllStored(s) == [k \in DOMAIN s |-> Stored(s[k])]

Slices == INSTANCE LeftFolds WITH
    Op <- LAMBDA kept, r, slice : IF r.slice = slice THEN Append(kept, r) ELSE kept,
    Base <- LAMBDA slice : <<>>,
    Holds <- LAMBDA slice, s, kept :
                 RecordsOK(kept) /\ InSlice(AllStored(s), slice) = AllStored(kept)

LEMMA FunctionIsSeq ==
  ASSUME NEW n \in Nat, NEW f, f = [k \in 1 .. n |-> f[k]]
  PROVE  IsSeq(f) /\ Len(f) = n
  <1>1. \A k \in 1 .. n : f[k] \in ToSet(f)
    BY DEF ToSet
  <1>2. f \in Seq(ToSet(f)) /\ Len(f) = n
    <2> DEFINE T == ToSet(f)
    <2> HIDE DEF T
    <2>1. \A k \in 1 .. n : f[k] \in T
      BY <1>1 DEF T
    <2>2. f \in Seq(T) /\ Len(f) = n
      BY <2>1
    <2>3. QED
      BY <2>2 DEF T
  <1>3. QED
    BY <1>2 DEF IsSeq

LEMMA StoredKeeps ==
  ASSUME NEW r, RecordOK(r)
  PROVE  /\ RecordOK(Stored(r)) /\ Stored(r).slice = r.slice
         /\ Stored(r).tool_calls = r.tool_calls /\ Stored(r).intent_matches = r.intent_matches
         /\ Stored(r).slot_counts = r.slot_counts /\ Stored(r).asserted = r.asserted
         /\ Stored(r).inventions = r.inventions
         /\ Stored(r).judge_coherence = r.judge_coherence
         /\ Completed(Stored(r)) <=> Completed(r)
  <1> DEFINE t == [chat_status |-> r.transcript.chat_status,
                   answers |-> [i \in DOMAIN r.transcript.answers |->
                                   [text |-> r.transcript.answers[i].text]]]
             st == Stored(r)
  <1>1. st = [r EXCEPT !.transcript = t]
    BY DEF Stored
  <1>2. t.chat_status = r.transcript.chat_status /\ DOMAIN t.answers = DOMAIN r.transcript.answers
        /\ \A i \in DOMAIN r.transcript.answers : t.answers[i].text = r.transcript.answers[i].text
    OBVIOUS
  <1> HIDE DEF t, st
  <1>3. r = [key \in DOMAIN r |-> r[key]] /\ ResultFields \subseteq DOMAIN r
    BY DEF RecordOK
  <1>4. DOMAIN st = DOMAIN r /\ st = [key \in DOMAIN st |-> st[key]]
    BY <1>1, <1>3
  <1>5. st["transcript"] = t /\ \A key \in ResultFields : key # "transcript" => st[key] = r[key]
    BY <1>1, <1>3 DEF ResultFields
  <1>6. /\ st.slice = r.slice /\ st.tool_calls = r.tool_calls
        /\ st.intent_matches = r.intent_matches /\ st.slot_counts = r.slot_counts
        /\ st.asserted = r.asserted /\ st.inventions = r.inventions
        /\ st.judge_coherence = r.judge_coherence /\ st.transcript = t
    BY <1>5 DEF ResultFields
  <1>7. Completed(st) <=> Completed(r)
    BY <1>2, <1>6 DEF Completed
  <1>8. RecordOK(st)
    BY <1>3, <1>4, <1>6 DEF RecordOK
  <1>9. QED
    BY <1>6, <1>7, <1>8 DEF st

LEMMA AllStoredFacts ==
  ASSUME NEW s, IsSeq(s)
  PROVE  /\ IsSeq(AllStored(s)) /\ Len(AllStored(s)) = Len(s)
         /\ \A x : AllStored(Append(s, x)) = Append(AllStored(s), Stored(x))
  <1> DEFINE n == Len(s)
             a == AllStored(s)
  <1>1. n \in Nat /\ DOMAIN s = 1 .. n
    BY SeqFacts
  <1>2. a = [k \in 1 .. n |-> a[k]] /\ \A k \in 1 .. n : a[k] = Stored(s[k])
    BY <1>1 DEF AllStored
  <1> HIDE DEF n, a
  <1>3. IsSeq(a) /\ Len(a) = n
    BY <1>1, <1>2, FunctionIsSeq
  <1>4. ASSUME NEW x
        PROVE  AllStored(Append(s, x)) = Append(a, Stored(x))
    <2> DEFINE r == Append(s, x)
               b == Append(a, Stored(x))
               c == AllStored(r)
    <2>1. DOMAIN r = 1 .. n + 1 /\ r[n + 1] = x /\ \A k \in 1 .. n : r[k] = s[k]
      BY AppendFacts DEF n
    <2>2. IsSeq(b) /\ DOMAIN b = 1 .. n + 1 /\ b[n + 1] = Stored(x) /\ \A k \in 1 .. n : b[k] = a[k]
      BY <1>3, AppendFacts
    <2>3. c = [k \in 1 .. n + 1 |-> Stored(r[k])]
      BY <2>1 DEF AllStored
    <2> HIDE DEF r, b, c
    <2>4. b = [k \in DOMAIN b |-> b[k]]
      BY <2>2 DEF IsSeq
    <2>5. \A k \in 1 .. n + 1 : k = n + 1 \/ k \in 1 .. n
      BY <1>1
    <2>6. \A k \in 1 .. n + 1 : b[k] = Stored(r[k])
      BY <1>2, <2>1, <2>2, <2>5
    <2>7. b = c
      BY <2>2, <2>3, <2>4, <2>6
    <2>8. QED
      BY <2>7 DEF b, c, r
  <1>5. QED
    BY <1>3, <1>4 DEF a, n

LEMMA NoneStored == AllStored(<<>>) = <<>> /\ RecordsOK(<<>>)
  BY NoElements DEF AllStored, RecordsOK

LEMMA RecordsAppend ==
  ASSUME NEW s, RecordsOK(s), NEW x, RecordOK(x)
  PROVE  RecordsOK(Append(s, x))
  <1>1. IsSeq(s) /\ Len(s) \in Nat /\ DOMAIN s = 1 .. Len(s) /\ \A k \in DOMAIN s : RecordOK(s[k])
    BY SeqFacts DEF RecordsOK
  <1> DEFINE r == Append(s, x)
  <1>2. /\ IsSeq(r) /\ DOMAIN r = 1 .. Len(s) + 1 /\ r[Len(s) + 1] = x
        /\ \A k \in 1 .. Len(s) : r[k] = s[k]
    BY <1>1, AppendFacts
  <1> HIDE DEF r
  <1>3. \A k \in 1 .. Len(s) + 1 : k = Len(s) + 1 \/ k \in 1 .. Len(s)
    BY <1>1
  <1>4. \A k \in DOMAIN r : RecordOK(r[k])
    BY <1>1, <1>2, <1>3
  <1>5. QED
    BY <1>2, <1>4 DEF RecordsOK, r

\* The records of one set, over which the folds go.
LEMMA RecordSet ==
  ASSUME NEW s, RecordsOK(s)
  PROVE  \E S : s \in Seq(S) /\ \A x \in S : RecordOK(x)
  <1> DEFINE S == {s[k] : k \in DOMAIN s}
  <1>1. IsSeq(s) /\ \A k \in 1 .. Len(s) : s[k] \in S
    BY SeqFacts DEF RecordsOK
  <1>2. \A x \in S : RecordOK(x)
    BY DEF RecordsOK
  <1> HIDE DEF S
  <1>3. QED
    BY <1>1, <1>2, SeqInto

LEMMA InSliceIsFold == \A s, slice : InSlice(s, slice) = Slices!Fold(slice, s)
  BY DEF InSlice, Selected, Slices!Fold, FoldLeft, MapThenFoldSet, Max,
         Slices!FoldLeft, Slices!MapThenFoldSet, Slices!Max

LEMMA InSliceAppend ==
  ASSUME NEW slice, NEW s, IsSeq(s), NEW r
  PROVE  InSlice(Append(s, r), slice) = IF r.slice = slice THEN Append(InSlice(s, slice), r)
                                        ELSE InSlice(s, slice)
  <1>1. PICK S : s \in Seq(S) /\ r \in S
    BY CommonSet
  <1>2. Slices!Fold(slice, Append(s, r)) = IF r.slice = slice THEN Append(Slices!Fold(slice, s), r)
                                           ELSE Slices!Fold(slice, s)
    BY <1>1, Slices!FoldOfAppend
  <1>3. QED
    BY <1>2, InSliceIsFold

LEMMA SlicesStored ==
  ASSUME NEW s, RecordsOK(s), NEW slice
  PROVE  /\ RecordsOK(InSlice(s, slice))
         /\ InSlice(AllStored(s), slice) = AllStored(InSlice(s, slice))
  <1>1. PICK S : s \in Seq(S) /\ \A x \in S : RecordOK(x)
    BY RecordSet
  <1>2. RecordsOK(<<>>) /\ InSlice(AllStored(<<>>), slice) = AllStored(<<>>)
    BY NoneStored, InSliceIsFold, Slices!FoldOfEmpty
  <1>3. ASSUME NEW t \in Seq(S), NEW x \in S, NEW kept, RecordsOK(kept),
               InSlice(AllStored(t), slice) = AllStored(kept)
        PROVE  LET next == IF x.slice = slice THEN Append(kept, x) ELSE kept
               IN  RecordsOK(next) /\ InSlice(AllStored(Append(t, x)), slice) = AllStored(next)
    <2>1. IsSeq(t) /\ IsSeq(AllStored(t)) /\ IsSeq(kept)
      BY <1>3, SeqOfSet, AllStoredFacts DEF RecordsOK
    <2>2. /\ AllStored(Append(t, x)) = Append(AllStored(t), Stored(x))
          /\ AllStored(Append(kept, x)) = Append(AllStored(kept), Stored(x))
      BY <2>1, AllStoredFacts
    <2>3. RecordOK(x) /\ Stored(x).slice = x.slice
      BY <1>1, StoredKeeps
    <2>4. InSlice(Append(AllStored(t), Stored(x)), slice)
            = IF x.slice = slice THEN Append(AllStored(kept), Stored(x)) ELSE AllStored(kept)
      BY <1>3, <2>1, <2>3, InSliceAppend
    <2>5. RecordsOK(Append(kept, x))
      BY <1>3, <2>3, RecordsAppend
    <2>6. QED
      BY <1>3, <2>2, <2>4, <2>5
  <1>4. \A t \in Seq(S) : /\ RecordsOK(Slices!Fold(slice, t))
                          /\ InSlice(AllStored(t), slice) = AllStored(Slices!Fold(slice, t))
    BY <1>2, <1>3, Slices!FoldInduction
  <1>5. QED
    BY <1>1, <1>4, InSliceIsFold

\* What is the same for every record of s and of its stored form.
LEMMA StoredAlike ==
  ASSUME NEW s, RecordsOK(s)
  PROVE  /\ DOMAIN AllStored(s) = DOMAIN s /\ RecordsOK(AllStored(s))
         /\ (AllStored(s) = <<>> <=> s = <<>>)
         /\ \A k \in DOMAIN s :
                /\ AllStored(s)[k].tool_calls = s[k].tool_calls
                /\ AllStored(s)[k].intent_matches = s[k].intent_matches
                /\ AllStored(s)[k].slot_counts = s[k].slot_counts
                /\ AllStored(s)[k].asserted = s[k].asserted
                /\ AllStored(s)[k].inventions = s[k].inventions
                /\ AllStored(s)[k].judge_coherence = s[k].judge_coherence
                /\ Completed(AllStored(s)[k]) <=> Completed(s[k])
  <1> DEFINE a == AllStored(s)
  <1>1. DOMAIN a = DOMAIN s /\ \A k \in DOMAIN s : a[k] = Stored(s[k])
    BY DEF AllStored
  <1>2. IsSeq(s) /\ IsSeq(a) /\ Len(a) = Len(s) /\ \A k \in DOMAIN s : RecordOK(s[k])
    BY AllStoredFacts DEF RecordsOK
  <1>3. Len(s) \in Nat
    BY <1>2, SeqFacts
  <1> HIDE DEF a
  <1>4. \A r : IsSeq(r) => (r = <<>> <=> Len(r) = 0)
    BY DEF IsSeq
  <1>5. a = <<>> <=> s = <<>>
    BY <1>2, <1>4
  <1>6. RecordsOK(a)
    BY <1>1, <1>2, StoredKeeps DEF RecordsOK
  <1>7. ASSUME NEW k \in DOMAIN s
        PROVE  /\ a[k].tool_calls = s[k].tool_calls /\ a[k].intent_matches = s[k].intent_matches
               /\ a[k].slot_counts = s[k].slot_counts /\ a[k].asserted = s[k].asserted
               /\ a[k].inventions = s[k].inventions
               /\ a[k].judge_coherence = s[k].judge_coherence
               /\ Completed(a[k]) <=> Completed(s[k])
    BY <1>1, <1>2, StoredKeeps
  <1>8. QED
    BY <1>1, <1>5, <1>6, <1>7 DEF a

LEMMA MetricsStored ==
  ASSUME NEW s, RecordsOK(s)
  PROVE  /\ IntentAccuracy(AllStored(s)) = IntentAccuracy(s)
         /\ SlotF1(AllStored(s)) = SlotF1(s)
         /\ Invented(AllStored(s)) = Invented(s)
         /\ Coherence(AllStored(s)) = Coherence(s)
  <1> DEFINE a == AllStored(s)
  <1>1. /\ DOMAIN a = DOMAIN s /\ (a = <<>> <=> s = <<>>)
        /\ \A k \in DOMAIN s : /\ a[k].intent_matches = s[k].intent_matches
                               /\ a[k].slot_counts = s[k].slot_counts
                               /\ a[k].inventions = s[k].inventions
                               /\ a[k].judge_coherence = s[k].judge_coherence
    BY StoredAlike
  <1> HIDE DEF a
  <1>2. [i \in DOMAIN a |-> a[i].intent_matches] = [i \in DOMAIN s |-> s[i].intent_matches]
    BY <1>1
  <1>3. [i \in DOMAIN a |-> a[i].slot_counts] = [i \in DOMAIN s |-> s[i].slot_counts]
    BY <1>1
  <1>4. [i \in DOMAIN a |-> Total(a[i].inventions)] = [i \in DOMAIN s |-> Total(s[i].inventions)]
    BY <1>1
  <1>5. IntentAccuracy(a) = IntentAccuracy(s)
    BY <1>2 DEF IntentAccuracy
  <1>6. SlotF1(a) = SlotF1(s)
    BY <1>1, <1>3 DEF SlotF1
  <1>7. Invented(a) = Invented(s)
    BY <1>4 DEF Invented
  <1>8. [i \in DOMAIN a |-> a[i].judge_coherence] = [i \in DOMAIN s |-> s[i].judge_coherence]
    BY <1>1
  <1>9. Coherence(a) = Coherence(s)
    BY <1>8 DEF Coherence
  <1>10. QED
    BY <1>5, <1>6, <1>7, <1>9 DEF a

LEMMA AggregateStored ==
  ASSUME NEW s, RecordsOK(s)
  PROVE  AggregateMetrics(AllStored(s)) = AggregateMetrics(s)
  <1> DEFINE a == AllStored(s)
  <1>1. /\ IntentAccuracy(a) = IntentAccuracy(s) /\ SlotF1(a) = SlotF1(s)
        /\ Invented(a) = Invented(s) /\ Coherence(a) = Coherence(s)
    BY MetricsStored
  <1>2. IntentAccuracy(InSlice(a, "code_mixed")) = IntentAccuracy(InSlice(s, "code_mixed"))
        /\ Invented(InSlice(a, "negative")) = Invented(InSlice(s, "negative"))
    BY SlicesStored, MetricsStored
  <1>3. /\ DOMAIN a = DOMAIN s
        /\ \A k \in DOMAIN s : /\ a[k].tool_calls = s[k].tool_calls
                               /\ a[k].asserted = s[k].asserted
                               /\ Completed(a[k]) <=> Completed(s[k])
    BY StoredAlike
  <1> HIDE DEF a
  <1>4. {i \in DOMAIN a : Completed(a[i])} = {i \in DOMAIN s : Completed(s[i])}
    BY <1>3
  <1>5. [i \in DOMAIN a |-> Total(a[i].asserted)] = [i \in DOMAIN s |-> Total(s[i].asserted)]
    BY <1>3
  <1>6. [i \in DOMAIN a |-> IF a[i].tool_calls = NotScored THEN NoValue
                            ELSE IF a[i].tool_calls.sequence_match THEN One ELSE Zero]
          = [i \in DOMAIN s |-> IF s[i].tool_calls = NotScored THEN NoValue
                                ELSE IF s[i].tool_calls.sequence_match THEN One ELSE Zero]
    BY <1>3
  <1>7. [i \in DOMAIN a |-> IF a[i].tool_calls = NotScored THEN NoValue
                            ELSE a[i].tool_calls.call_level]
          = [i \in DOMAIN s |-> IF s[i].tool_calls = NotScored THEN NoValue
                                ELSE s[i].tool_calls.call_level]
    BY <1>3
  <1>8. [i \in DOMAIN a |-> IF a[i].tool_calls = NotScored THEN NoValue
                            ELSE a[i].tool_calls.schema_validity]
          = [i \in DOMAIN s |-> IF s[i].tool_calls = NotScored THEN NoValue
                                ELSE s[i].tool_calls.schema_validity]
    BY <1>3
  <1>9. AggregateMetrics(a) = AggregateMetrics(s)
    BY <1>1, <1>2, <1>4, <1>5, <1>6, <1>7, <1>8 DEF AggregateMetrics, MeanOf
  <1>10. QED
    BY <1>9 DEF a

-----------------------------------------------------------------------------
(* Every recorded score is a fraction or missing.                          *)

Tally == INSTANCE LeftFolds WITH
    Op <- LAMBDA a, b, e : AddCounts(a, b), Base <- LAMBDA e : NoCounts,
    Holds <- LAMBDA e, s, c : c \in Counts
Row == INSTANCE LeftFolds WITH
    Op <- LAMBDA a, b, e : a \o b, Base <- LAMBDA e : <<>>,
    Holds <- LAMBDA e, s, row : IsSeq(row)

LEMMA CountsAdd ==
  ASSUME NEW s \in Seq(Counts)
  PROVE  FoldLeft(AddCounts, NoCounts, s) \in Counts
  <1>1. FoldLeft(AddCounts, NoCounts, s) = Tally!Fold(0, s)
    BY DEF Tally!Fold, FoldLeft, MapThenFoldSet, Max,
           Tally!FoldLeft, Tally!MapThenFoldSet, Tally!Max
  <1>2. NoCounts \in Counts /\ \A a, b \in Counts : AddCounts(a, b) \in Counts
    BY DEF NoCounts, AddCounts, Counts
  <1>3. \A t \in Seq(Counts) : Tally!Fold(0, t) \in Counts
    BY <1>2, Tally!FoldInduction
  <1>4. QED
    BY <1>1, <1>3

LEMMA JoinedIsSeq ==
  ASSUME NEW s, IsSeq(s), \A k \in DOMAIN s : IsSeq(s[k])
  PROVE  IsSeq(Joined(s))
  <1> DEFINE S == {s[k] : k \in DOMAIN s}
  <1>1. Joined(s) = Row!Fold(0, s)
    BY DEF Joined, Row!Fold, FoldLeft, MapThenFoldSet, Max, Row!FoldLeft, Row!MapThenFoldSet, Row!Max
  <1>2. (\A x \in S : IsSeq(x)) /\ \A k \in 1 .. Len(s) : s[k] \in S
    BY SeqFacts
  <1> HIDE DEF S
  <1>3. s \in Seq(S)
    BY <1>2, SeqInto
  <1>4. IsSeq(<<>>)
    BY NoElements
  <1>5. \A t \in Seq(S), x \in S : IsSeq(Row!Fold(0, t)) => IsSeq(Row!Fold(0, t) \o x)
    BY <1>2, ConcatFacts
  <1>6. \A t \in Seq(S) : IsSeq(Row!Fold(0, t))
    BY <1>4, <1>5, Row!FoldInduction
  <1>7. QED
    BY <1>1, <1>3, <1>6

LEMMA SlotCounts ==
  ASSUME NEW expected, NEW predicted, IsFiniteSet(DOMAIN expected), IsFiniteSet(DOMAIN predicted)
  PROVE  ScoreSlots(expected, predicted) \in Counts
  <1> DEFINE hits == {key \in DOMAIN expected : SlotHit(key, expected, predicted)}
  <1>1. hits \in SUBSET DOMAIN expected /\ DOMAIN predicted \ hits \in SUBSET DOMAIN predicted
        /\ DOMAIN expected \ hits \in SUBSET DOMAIN expected
    OBVIOUS
  <1>2. ScoreSlots(expected, predicted)
          = [tp |-> Cardinality(hits), fp |-> Cardinality(DOMAIN predicted \ hits),
             fn |-> Cardinality(DOMAIN expected \ hits)]
    BY DEF ScoreSlots
  <1> HIDE DEF hits
  <1>3. IsFiniteSet(hits) /\ IsFiniteSet(DOMAIN predicted \ hits) /\ IsFiniteSet(DOMAIN expected \ hits)
    BY <1>1, FS_Subset
  <1>4. /\ Cardinality(hits) \in Nat /\ Cardinality(DOMAIN predicted \ hits) \in Nat
        /\ Cardinality(DOMAIN expected \ hits) \in Nat
    BY <1>3, FS_CardinalityType
  <1>5. QED
    BY <1>2, <1>4 DEF Counts

LEMMA ScoredRecord ==
  ASSUME NEW k \in DOMAIN Fixtures, NEW r, ResultOK(k, r)
  PROVE  RecordOK(r)
  <1> DEFINE f == Fixtures[k]
             t == r.transcript
             predicted(i) == IF AnswerOf(t.answers, i).preamble THEN AnswerOf(t.answers, i).slots
                             ELSE <<>>
             counts == [i \in DOMAIN f.slots |-> ScoreSlots(f.slots[i], predicted(i))]
  <1>1. r = ScoreFixture(f, t) /\ IsSeq(t.answers) /\ Finite(t.answers)
    BY DEF ResultOK
  <1>2. /\ IsSeq(f.intents) /\ IsSeq(f.slots) /\ Len(f.slots) = f.turns
        /\ \A i \in 1 .. f.turns : IsFiniteSet(DOMAIN f.slots[i])
    BY FixtureFacts DEF FixtureOK
  <1>3. IsSeq(r.intent_matches)
    <2>1. r.intent_matches = ScoreIntents(f.intents, t.answers)
      BY <1>1 DEF ScoreFixture
    <2>2. Len(f.intents) \in Nat /\ DOMAIN f.intents = 1 .. Len(f.intents)
      BY <1>2, SeqFacts
    <2> DEFINE flags == ScoreIntents(f.intents, t.answers)
    <2>3. flags = [i \in 1 .. Len(f.intents) |-> flags[i]]
      BY <2>2 DEF ScoreIntents
    <2> HIDE DEF flags
    <2>4. IsSeq(flags)
      BY <2>2, <2>3, FunctionIsSeq
    <2>5. QED
      BY <2>1, <2>4 DEF flags
  <1>4. r.slot_counts \in Counts
    <2>1. r.slot_counts = FoldLeft(AddCounts, NoCounts, counts)
      BY <1>1 DEF ScoreFixture, ScoreSlotsPerTurn
    <2>2. Len(f.slots) \in Nat /\ DOMAIN f.slots = 1 .. Len(f.slots)
      BY <1>2, SeqFacts
    <2>3. ASSUME NEW i \in 1 .. Len(f.slots)
          PROVE  ScoreSlots(f.slots[i], predicted(i)) \in Counts
      <3>1. IsFiniteSet(DOMAIN f.slots[i])
        BY <1>2
      <3>2. IsFiniteSet(DOMAIN <<>>)
        BY FS_EmptySet
      <3>3. IsFiniteSet(DOMAIN AnswerOf(t.answers, i).slots)
        BY <1>1, NoAnswerFinite DEF AnswerOf, Finite
      <3>4. IsFiniteSet(DOMAIN predicted(i))
        BY <3>2, <3>3
      <3>5. QED
        BY <3>1, <3>4, SlotCounts
    <2>4. counts \in Seq(Counts)
      <3>1. counts \in [1 .. Len(f.slots) -> Counts]
        BY <2>2, <2>3
      <3> HIDE DEF counts
      <3>2. QED
        BY <2>2, <3>1
    <2>5. QED
      BY <2>1, <2>4, CountsAdd
  <1>5. r = [key \in DOMAIN r |-> r[key]] /\ ResultFields \subseteq DOMAIN r
    BY <1>1 DEF ScoreFixture, ResultFields
  <1>6. QED
    BY <1>3, <1>4, <1>5 DEF RecordOK

LEMMA AccuracyType ==
  ASSUME NEW s, RecordsOK(s)
  PROVE  IntentAccuracy(s) \in Score
  <1> DEFINE rows == [i \in DOMAIN s |-> s[i].intent_matches]
             flags == Joined(rows)
             yes == {i \in DOMAIN flags : flags[i]}
  <1>1. IsSeq(s) /\ Len(s) \in Nat /\ DOMAIN s = 1 .. Len(s)
    BY SeqFacts DEF RecordsOK
  <1>2. IsSeq(rows) /\ \A k \in DOMAIN rows : IsSeq(rows[k])
    <2>1. \A k \in DOMAIN s : IsSeq(s[k].intent_matches)
      BY DEF RecordsOK, RecordOK
    <2>2. rows = [k \in 1 .. Len(s) |-> rows[k]] /\ DOMAIN rows = DOMAIN s
          /\ \A k \in DOMAIN s : rows[k] = s[k].intent_matches
      BY <1>1
    <2> HIDE DEF rows
    <2>3. QED
      BY <1>1, <2>1, <2>2, FunctionIsSeq
  <1>3. IntentAccuracy(s) = Share(Cardinality(yes), Len(flags))
    BY DEF IntentAccuracy, Count
  <1> HIDE DEF rows
  <1>4. IsSeq(flags)
    BY <1>2, JoinedIsSeq
  <1> HIDE DEF flags
  <1>5. Len(flags) \in Nat /\ yes \in SUBSET (1 .. Len(flags))
    BY <1>4, SeqFacts
  <1> HIDE DEF yes
  <1>6. IsFiniteSet(1 .. Len(flags))
    BY <1>5, FS_Interval
  <1>7. Cardinality(yes) \in Nat
    BY <1>5, <1>6, FS_Subset, FS_CardinalityType
  <1>8. QED
    BY <1>3, <1>5, <1>7 DEF Share, Ratio, NoValue, Score, Fraction

LEMMA SlotF1Type ==
  ASSUME NEW s, RecordsOK(s)
  PROVE  SlotF1(s) \in Score
  <1> DEFINE counts == [i \in DOMAIN s |-> s[i].slot_counts]
             c == FoldLeft(AddCounts, NoCounts, counts)
  <1>1. IsSeq(s) /\ Len(s) \in Nat /\ DOMAIN s = 1 .. Len(s)
        /\ \A k \in DOMAIN s : s[k].slot_counts \in Counts
    BY SeqFacts DEF RecordsOK, RecordOK
  <1>2. counts \in Seq(Counts)
    <2>1. counts \in [1 .. Len(s) -> Counts]
      BY <1>1
    <2> HIDE DEF counts
    <2>2. QED
      BY <1>1, <2>1
  <1>3. c \in Counts
    BY <1>2, CountsAdd
  <1>4. SlotF1(s) = IF s = <<>> THEN NoValue ELSE MicroF1(c)
    BY DEF SlotF1
  <1> HIDE DEF c
  <1>5. c.tp \in Nat /\ c.fp \in Nat /\ c.fn \in Nat
    BY <1>3 DEF Counts
  <1>6. MicroF1(c) \in Fraction
    BY <1>5 DEF MicroF1, One, Ratio, Fraction
  <1>7. QED
    BY <1>4, <1>6 DEF Score

-----------------------------------------------------------------------------
(* The artifacts.                                                          *)

ArtifactOK(a) ==
    /\ a = [fixtures |-> a.fixtures, judged |-> a.judged, metrics |-> a.metrics, exit |-> a.exit]
    /\ RecordsOK(a.fixtures) /\ a.metrics = AggregateMetrics(a.fixtures)
ArtifactsInv ==
    /\ artifacts = [c \in Columns |-> artifacts[c]]
    /\ \A c \in Columns : artifacts[c] = NotRun \/ ArtifactOK(artifacts[c])

LEMMA VerdictsKeep ==
  ASSUME NEW s, RecordsOK(s), NEW verdicts
  PROVE  RecordsOK(ApplyJudgeScores(s, verdicts))
  <1> DEFINE j == ApplyJudgeScores(s, verdicts)
  <1>1. IsSeq(s) /\ Len(s) \in Nat /\ DOMAIN s = 1 .. Len(s) /\ \A k \in DOMAIN s : RecordOK(s[k])
    BY SeqFacts DEF RecordsOK
  <1>2. j = [k \in 1 .. Len(s) |-> j[k]] /\ DOMAIN j = DOMAIN s
        /\ \A k \in DOMAIN s : j[k] = ApplyVerdict(s[k], verdicts[k])
    BY <1>1 DEF ApplyJudgeScores
  <1> HIDE DEF j
  <1>3. ASSUME NEW r, RecordOK(r), NEW v
        PROVE  RecordOK(ApplyVerdict(r, v))
    <2>1. r = [key \in DOMAIN r |-> r[key]] /\ ResultFields \subseteq DOMAIN r
          /\ IsSeq(r.intent_matches) /\ r.slot_counts \in Counts
      BY <1>3 DEF RecordOK
    <2>2. ASSUME NEW key \in {"judge_error", "judge_coherence"}, NEW value, NEW q,
                 q = [r EXCEPT ![key] = value]
          PROVE  RecordOK(q)
      <3>1. DOMAIN q = DOMAIN r /\ q = [k \in DOMAIN q |-> q[k]]
        BY <2>1, <2>2
      <3>2. q["intent_matches"] = r["intent_matches"] /\ q["slot_counts"] = r["slot_counts"]
        BY <2>1, <2>2 DEF ResultFields
      <3>3. QED
        BY <2>1, <3>1, <3>2 DEF RecordOK
    <2>3. CASE r.slice # "backtracking"
      BY <1>3, <2>3 DEF ApplyVerdict
    <2>4. CASE r.slice = "backtracking" /\ v.error
      BY <2>2, <2>4 DEF ApplyVerdict
    <2>5. CASE r.slice = "backtracking" /\ ~v.error
      BY <2>2, <2>5 DEF ApplyVerdict
    <2>6. QED
      BY <2>3, <2>4, <2>5
  <1>4. IsSeq(j)
    BY <1>1, <1>2, FunctionIsSeq
  <1>5. \A k \in DOMAIN j : RecordOK(j[k])
    BY <1>1, <1>2, <1>3
  <1>6. QED
    BY <1>4, <1>5 DEF RecordsOK, j

LEMMA WriteRunArtifacts ==
  ASSUME DriverInv, ArtifactsInv, WriteRun
  PROVE  ArtifactsInv'
  <1>1. PICK mode : artifacts' = [artifacts EXCEPT ![column] = Artifact(mode, results)]
    BY DEF WriteRun
  <1>2. RecordsOK(results)
    BY ScoredRecord DEF DriverInv, ResultsOK, RecordsOK
  <1> DEFINE a == Artifact(mode, results)
  <1>3. /\ a.fixtures = AllStored(results) /\ a.metrics = AggregateMetrics(results)
        /\ a = [fixtures |-> a.fixtures, judged |-> a.judged, metrics |-> a.metrics, exit |-> a.exit]
    BY DEF Artifact, AllStored
  <1> HIDE DEF a
  <1>4. ArtifactOK(a)
    BY <1>2, <1>3, AggregateStored, StoredAlike DEF ArtifactOK
  <1>5. /\ artifacts = [c \in Columns |-> artifacts[c]]
        /\ \A c \in Columns : artifacts[c] = NotRun \/ ArtifactOK(artifacts[c])
    BY DEF ArtifactsInv
  <1>6. artifacts' = [c \in Columns |-> artifacts'[c]]
        /\ \A c \in Columns : artifacts'[c] = IF c = column THEN a ELSE artifacts[c]
    BY <1>1, <1>5 DEF a
  <1>7. ASSUME NEW c \in Columns
        PROVE  artifacts'[c] = NotRun \/ ArtifactOK(artifacts'[c])
    BY <1>4, <1>5, <1>6
  <1>8. QED
    BY <1>6, <1>7 DEF ArtifactsInv, Columns, ArtifactOK, NotRun

LEMMA RejudgeArtifacts ==
  ASSUME ArtifactsInv, NEW c \in Live, NEW verdicts, Rejudge(c, verdicts)
  PROVE  ArtifactsInv'
  <1> DEFINE a == artifacts[c]
             b == Rejudged(a, verdicts)
             j == ApplyJudgeScores(a.fixtures, verdicts)
  <1>1. c \in Columns /\ artifacts[c] # NotRun
        /\ artifacts' = [artifacts EXCEPT ![c] = b]
    BY DEF Rejudge, Live
  <1>2. /\ artifacts = [d \in Columns |-> artifacts[d]]
        /\ \A d \in Columns : artifacts[d] = NotRun \/ ArtifactOK(artifacts[d])
    BY DEF ArtifactsInv
  <1>3. ArtifactOK(a)
    BY <1>1, <1>2
  <1>4. b = [fixtures |-> j, judged |-> TRUE, metrics |-> AggregateMetrics(j), exit |-> a.exit]
    <2>1. a = [fixtures |-> a.fixtures, judged |-> a.judged, metrics |-> a.metrics, exit |-> a.exit]
      BY <1>3 DEF ArtifactOK
    <2>2. b = [a EXCEPT !.fixtures = j, !.judged = TRUE, !.metrics = AggregateMetrics(j)]
      BY DEF Rejudged
    <2> HIDE DEF j, b
    <2>3. QED
      BY <2>1, <2>2
  <1>5. RecordsOK(j)
    BY <1>3, VerdictsKeep DEF ArtifactOK
  <1> HIDE DEF j, b
  <1>6. ArtifactOK(b)
    <2>1. b.fixtures = j /\ b.metrics = AggregateMetrics(j)
          /\ b = [fixtures |-> b.fixtures, judged |-> b.judged, metrics |-> b.metrics, exit |-> b.exit]
      BY <1>4
    <2>2. QED
      BY <1>5, <2>1 DEF ArtifactOK
  <1>7. artifacts' = [d \in Columns |-> artifacts'[d]]
        /\ \A d \in Columns : artifacts'[d] = IF d = c THEN b ELSE artifacts[d]
    BY <1>1, <1>2
  <1>8. \A d \in Columns : artifacts'[d] = NotRun \/ ArtifactOK(artifacts'[d])
    BY <1>2, <1>6, <1>7
  <1>9. QED
    BY <1>7, <1>8 DEF ArtifactsInv, Columns, ArtifactOK, NotRun

LEMMA ArtifactsStep == DriverInv /\ ArtifactsInv /\ [Next]_vars => ArtifactsInv'
  <1> SUFFICES ASSUME DriverInv, ArtifactsInv, [Next]_vars PROVE ArtifactsInv'
    OBVIOUS
  <1>1. CASE UNCHANGED artifacts
    BY <1>1 DEF ArtifactsInv, Columns, ArtifactOK, NotRun
  <1>2. CASE WriteRun
    BY <1>2, WriteRunArtifacts
  <1>3. ASSUME NEW c \in Live, NEW verdicts \in [Judged -> Verdicts], Rejudge(c, verdicts)
        PROVE  ArtifactsInv'
    BY <1>3, RejudgeArtifacts
  <1>4. QED
    BY <1>1, <1>2, <1>3
       DEF Next, vars, StartRun, ModelPlays, ModelSlips, EndpointFails, HandleCall, NextRound,
           RoundsExhausted, Receive

LEMMA Artifacts == Spec => [](DriverInv /\ ArtifactsInv)
  <1>1. Init => ArtifactsInv
    BY DEF Init, ArtifactsInv
  <1>2. QED
    BY <1>1, DriverInit, DriverStep, ArtifactsStep, PTL DEF Spec

\* The scores in the artifacts are exact, for any fixtures and any model: a recorded
\* sequence match is one in the sense of DEC-P3-5, and the metrics of an artifact, and the
\* column that the verdict reads off it, are those of the fixtures stored in it, whether
\* run_generation_eval.py or rejudge_run.py wrote it last.
THEOREM ScoresAreExact == Spec => []RecordedScoresExact
  <1>1. DriverInv /\ ArtifactsInv => RecordedScoresExact
    <2> SUFFICES ASSUME DriverInv, ArtifactsInv PROVE RecordedScoresExact
      OBVIOUS
    <2>1. ASSUME NEW k \in DOMAIN results, Fixtures[k].calls # <<>>
          PROVE  results[k].tool_calls.sequence_match
                     = Appear(Fixtures[k].calls, results[k].transcript.calls)
      <3> DEFINE r == results[k]
                 expected == Fixtures[k].calls
                 emitted == r.transcript.calls
      <3>1. k \in DOMAIN Fixtures /\ ResultOK(k, r)
        BY DEF DriverInv, ResultsOK
      <3>2. IsSeq(expected) /\ IsSeq(emitted)
        BY <3>1, FixtureFacts DEF FixtureOK, ResultOK
      <3>3. r.tool_calls = ScoreToolCalls(expected, emitted)
        BY <2>1, <3>1 DEF ResultOK, ScoreFixture
      <3> HIDE DEF r, expected, emitted
      <3>4. r.tool_calls.sequence_match = Appear(expected, emitted)
        BY <3>2, <3>3, GreedyIsExact
      <3>5. QED
        BY <3>4 DEF r, expected, emitted
    <2>2. ASSUME NEW c \in Columns, artifacts[c] # NotRun
          PROVE  LET a == artifacts[c]
                     read == ExtractColumn(a)
                 IN  /\ a.metrics = AggregateMetrics(a.fixtures)
                     /\ Same(read.gs08_coherence, a.metrics.backtracking_coherence)
                     /\ Same(read.gs07_intent_accuracy, a.metrics.code_mixed_intent_accuracy)
      <3> DEFINE a == artifacts[c]
      <3>1. a.metrics = AggregateMetrics(a.fixtures)
        BY <2>2 DEF ArtifactsInv, ArtifactOK
      <3>2. a.metrics.backtracking_coherence = Coherence(a.fixtures)
            /\ a.metrics.code_mixed_intent_accuracy
                 = IntentAccuracy(InSlice(a.fixtures, "code_mixed"))
        BY <3>1 DEF AggregateMetrics
      <3>3. ExtractColumn(a).gs08_coherence = Coherence(a.fixtures)
            /\ ExtractColumn(a).gs07_intent_accuracy
                 = IntentAccuracy(InSlice(a.fixtures, "code_mixed"))
        BY DEF ExtractColumn
      <3>4. \A x : Same(x, x)
        BY DEF Same
      <3>5. QED
        BY <3>1, <3>2, <3>3, <3>4
    <2>3. QED
      BY <2>1, <2>2 DEF RecordedScoresExact
  <1>2. QED
    BY <1>1, Artifacts, PTL

\* Whatever the judge gives: an adapter whose intents and slots on the code-mixed slice are
\* those of the base model is cut by the rule of verdict.py, applied to the columns that
\* extract_column reads off the two artifacts.
THEOREM JudgeNoiseNeverKeeps == Spec => []NoiseNeverKeeps
  <1>1. ArtifactsInv => NoiseNeverKeeps
    <2> SUFFICES ASSUME ArtifactsInv, NEW base \in Live, NEW qlora \in Live,
                        artifacts[base] # NotRun, artifacts[qlora] # NotRun,
                        SameCodeMixed(artifacts[base], artifacts[qlora]),
                        Keep(ExtractColumn(artifacts[base]), ExtractColumn(artifacts[qlora]))
                 PROVE  FALSE
      BY DEF NoiseNeverKeeps
    <2> DEFINE s == InSlice(artifacts[base].fixtures, "code_mixed")
               t == InSlice(artifacts[qlora].fixtures, "code_mixed")
               b == ExtractColumn(artifacts[base])
               q == ExtractColumn(artifacts[qlora])
    <2>1. RecordsOK(artifacts[base].fixtures) /\ RecordsOK(artifacts[qlora].fixtures)
      BY DEF ArtifactsInv, ArtifactOK, Live
    <2>2. RecordsOK(s) /\ RecordsOK(t)
      BY <2>1, SlicesStored
    <2>3. [k \in DOMAIN s |-> <<s[k].intent_matches, s[k].slot_counts>>]
            = [k \in DOMAIN t |-> <<t[k].intent_matches, t[k].slot_counts>>]
      BY DEF SameCodeMixed
    <2>4. /\ b.gs07_intent_accuracy = IntentAccuracy(s) /\ b.gs07_slot_f1 = SlotF1(s)
          /\ q.gs07_intent_accuracy = IntentAccuracy(t) /\ q.gs07_slot_f1 = SlotF1(t)
      BY DEF ExtractColumn
    <2>5. Keep(b, q)
      OBVIOUS
    <2> HIDE DEF s, t, b, q
    <2>6. DOMAIN s = DOMAIN t
      BY <2>3
    <2>7. ASSUME NEW k \in DOMAIN s
          PROVE  s[k].intent_matches = t[k].intent_matches /\ s[k].slot_counts = t[k].slot_counts
      <3>1. <<s[k].intent_matches, s[k].slot_counts>> = <<t[k].intent_matches, t[k].slot_counts>>
        BY <2>3, <2>6
      <3>2. QED
        BY <3>1
    <2>8. IntentAccuracy(s) = IntentAccuracy(t)
      <3>1. [i \in DOMAIN s |-> s[i].intent_matches] = [i \in DOMAIN t |-> t[i].intent_matches]
        BY <2>6, <2>7
      <3>2. QED
        BY <3>1 DEF IntentAccuracy
    <2>9. SlotF1(s) = SlotF1(t)
      <3>1. [i \in DOMAIN s |-> s[i].slot_counts] = [i \in DOMAIN t |-> t[i].slot_counts]
        BY <2>6, <2>7
      <3>2. s = <<>> <=> t = <<>>
        BY <2>2, <2>6 DEF RecordsOK, IsSeq
      <3>3. QED
        BY <3>1, <3>2 DEF SlotF1
    <2>10. b.gs07_intent_accuracy \in Score /\ b.gs07_slot_f1 \in Score
           /\ q.gs07_intent_accuracy = b.gs07_intent_accuracy /\ q.gs07_slot_f1 = b.gs07_slot_f1
      BY <2>2, <2>4, <2>8, <2>9, AccuracyType, SlotF1Type
    <2>11. ASSUME NEW x \in Score, x # NoValue
           PROVE  ~Less(x, x)
      <3>1. x.n * x.d \in Int
        BY <2>11 DEF Score, Fraction
      <3>2. QED
        BY <3>1 DEF Less
    <2>12. Improved(b, q) \subseteq {"gs08_coherence"}
      <3> SUFFICES ASSUME NEW m \in Improved(b, q), m # "gs08_coherence" PROVE FALSE
        OBVIOUS
      <3>1. /\ m \in {"gs07_intent_accuracy", "gs07_slot_f1"}
            /\ b[m] # NoValue /\ Less(b[m], q[m])
        BY DEF Improved, Missing, PrimaryMetrics
      <3>2. b[m] \in Score /\ q[m] = b[m]
        BY <2>10, <3>1
      <3>3. QED
        BY <2>11, <3>1, <3>2
    <2>13. QED
      BY <2>5, <2>12, FewerThanTwo DEF Keep
  <1>2. QED
    BY <1>1, Artifacts, PTL
=============================================================================
