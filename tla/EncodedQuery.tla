---------------------------- MODULE EncodedQuery ----------------------------
(***************************************************************************)
(* What the instance makes of an encoded query (external).  A text is the   *)
(* sequence of its tokens: "priority=1^ORpriority=2" is                     *)
(* <<"priority", "=", "1", "^OR", "priority", "=", "2">>.                   *)
(***************************************************************************)
EXTENDS Naturals, Sequences, SequencesExt, FiniteSets

CONSTANTS
    FieldsOf,  \* the fields of each table
    Rank,      \* the place of each value that has one: days, priorities, minutes
    TextOf,    \* the words of each short description
    Matches    \* for LIKE, STARTSWITH and ENDSWITH: the pairs of a text and a value it is part of

Has(text, token) == \E i \in DOMAIN text : text[i] = token

\* The n-th of some positions, and what a sequence has at some positions, in its order.
Nth(positions, n) == CHOOSE i \in positions : Cardinality({j \in positions : j <= i}) = n
Picked(seq, positions) == [n \in 1..Cardinality(positions) |-> seq[Nth(positions, n)]]

\* The parts of a text between the occurrences of a separator.
Cuts(text, separator) == {0, Len(text) + 1} \cup {i \in DOMAIN text : text[i] = separator}
Split(text, separator) ==
    LET cuts == Cuts(text, separator)
    IN [k \in 1..(Cardinality(cuts) - 1) |-> SubSeq(text, Nth(cuts, k) + 1, Nth(cuts, k + 1) - 1)]

Join(parts, separator) ==
    IF parts = <<>> THEN <<>>
    ELSE FoldLeft(LAMBDA joined, part : joined \o <<separator>> \o part, parts[1], Tail(parts))

-----------------------------------------------------------------------------

QueryOperators == {">=", "<=", ">", "<", "=", "!=", "IN", "NOT IN", "LIKE", "NOT LIKE", "STARTSWITH",
                   "ENDSWITH", "BETWEEN", "ON", "ISEMPTY", "ISNOTEMPTY"}

\* One condition: what stands before the first operator is the field.
ConditionOf(text) ==
    LET first == SelectInSeq(text, LAMBDA token : token \in QueryOperators)
    IN IF first = 0 THEN [field |-> text, op |-> "none", value |-> <<>>]
       ELSE [field |-> SubSeq(text, 1, first - 1), op |-> text[first],
             value |-> SubSeq(text, first + 1, Len(text))]

\* The parts of a text between two separators that follow each other, its ends being two as well.
PartsOf(text, separator) ==
    LET cuts == Cuts(text, separator)
        neighbours == {c \in cuts \X cuts : c[1] < c[2] /\ \A k \in cuts : k <= c[1] \/ k >= c[2]}
    IN {SubSeq(text, c[1] + 1, c[2] - 1) : c \in neighbours}

\* Alternatives bind first: a^ORb^c is (a or b) and c.
Conditions(query) == {{ConditionOf(part) : part \in PartsOf(group, "^OR")} : group \in PartsOf(query, "^")}

\* A condition on a field the table lacks is ignored.
Understood(table, c) == Len(c.field) = 1 /\ Head(c.field) \in FieldsOf[table]

Holds(c, row) ==
    LET stored == row[Head(c.field)]
        From(v) == Rank[stored] >= Rank[v]
        To(v) == Rank[stored] <= Rank[v]
        \* NULL stands for an empty field
        Equal == c.value = <<stored>> \/ (c.value = <<"NULL">> /\ stored = "")
    IN \/ c.op = "=" /\ Equal
       \/ c.op = "!=" /\ ~Equal
       \/ c.op = ">=" /\ From(c.value[1])
       \/ c.op = "<=" /\ To(c.value[1])
       \/ c.op = ">" /\ ~To(c.value[1])
       \/ c.op = "<" /\ ~From(c.value[1])
       \/ c.op = "IN" /\ <<stored>> \in PartsOf(c.value, ",")
       \/ c.op = "NOT IN" /\ <<stored>> \notin PartsOf(c.value, ",")
       \/ c.op = "BETWEEN" /\ From(c.value[1]) /\ To(c.value[3])
       \/ c.op = "ON" /\ From(c.value[3]) /\ To(c.value[5])   \* ONlabel@from@to
       \/ c.op \in {"LIKE", "STARTSWITH", "ENDSWITH"} /\ <<c.value[1], stored>> \in Matches[c.op]
       \/ c.op = "NOT LIKE" /\ <<c.value[1], stored>> \notin Matches["LIKE"]
       \/ c.op = "ISEMPTY" /\ stored = ""
       \/ c.op = "ISNOTEMPTY" /\ stored # ""

Selects(table, query, rows) ==
    LET read == {{c \in group : Understood(table, c)} : group \in Conditions(query)}
    IN {row \in rows : \A group \in read \ {{}} : \E c \in group : Holds(c, row)}

\* ^NQ begins another query, whose rows are added to those of the one before.
Returned(table, query, rows) == UNION {Selects(table, branch, rows) : branch \in PartsOf(query, "^NQ")}
=============================================================================
