---------------------------- MODULE MCSystemView ----------------------------
EXTENDS SystemView, SequencesExt, TLC

CONSTANTS a, b

\* appendData as the code's loop over the new records.
AppendLoop(prev, new, maxLen) ==
    LET Push(s, p) == IF Created(s) # 0 /\ p.at > Created(s) + 1
                      THEN s \o <<Gap, p>> ELSE Append(s, p)
    IN  IF new = <<>> THEN prev ELSE FoldLeft(Push, Trimmed(prev, Len(new), maxLen), new)

Sample == {<<>>} \cup {[i \in 1 .. n |-> [sys |-> a, type |-> "1h", at |-> f[i]]] :
                          n \in 1 .. 3, f \in [1 .. 3 -> {1, 2, 4, 5}]}

\* Both say the same, of lists in any order and with repetitions.
ASSUME LoopAssumption ==
    \A prev, new \in Sample, m \in 1 .. 3 :
        appendData(prev, new, m) = AppendLoop(prev, new, m)

\* "Pass maxLen to cap the result length": how many records, without the gaps,
\* there are.  The length is capped only when a full list gets fewer new records
\* than maxLen: a shorter list is not cut, and slice(-0), or slice of a positive
\* number, keeps the list or its end.
Records(s) == Len(SelectSeq(s, LAMBDA p : p # Gap))
ASSUME CapAssumption ==
    \A prev, new \in Sample \ {<<>>}, m \in 1 .. 3 :
        Records(appendData(prev, new, m)) =
            IF Len(prev) < m THEN Len(prev) + Len(new)
            ELSE IF Len(new) < m THEN m
            ELSE Max({Len(new), Len(prev) + m})
=============================================================================
