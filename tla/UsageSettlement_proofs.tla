---------------------- MODULE UsageSettlement_proofs ----------------------
(***************************************************************************)
(* The safety of UsageSettlement for every set of users, tokens, passes    *)
(* and sessions, any tree of tokens and any usages to settle: the          *)
(* inductive invariant SettlementInv, which says of every transaction what *)
(* it has written so far at each of its statements, and the theorems that  *)
(* follow from it.                                                         *)
(*                                                                         *)
(* In order: the program of a transaction and what stands on its lines;    *)
(* the allocation of a cost to passes; the invariant; every statement;     *)
(* the ends of a transaction; the theorems.                                *)
(***************************************************************************)
EXTENDS UsageSettlement, Sums, SequenceTheorems

Verbs == {"find", "insert", "count", "tally", "claim", "plan", "lock", "cover", "debit",
          "findPayee", "insertPayee", "pay", "spend"}
Statements == [do : Verbs, row : Row \cup {NoProvider}]

\* SMT cannot reason about \o: the facts it needs about a concatenation.
Joins(j, s, t, S) ==
    /\ j \in Seq(S) /\ Len(j) = Len(s) + Len(t)
    /\ \A i \in 1 .. Len(s) + Len(t) : j[i] = IF i <= Len(s) THEN s[i] ELSE t[i - Len(s)]

LEMMA Joined ==
    ASSUME NEW S, NEW s \in Seq(S), NEW t \in Seq(S)
    PROVE  Joins(s \o t, s, t, S)
BY ConcatProperties, Zenon DEF Joins

LEMMA BillFacts ==
    ASSUME NEW b \in Bill
    PROVE  /\ b.op \in {"charge", "record"} /\ b.user \in User /\ b.id \in RequestId
           /\ b.path \in Seq(Token) /\ Len(b.path) \in Nat \ {0}
           /\ b.cost \in Nat /\ b.tokens \in Nat /\ b.provider \in User \cup {NoProvider}
           /\ Root(b) = b.path[1] /\ Root(b) \in Token
           /\ Leaf(b) = b.path[Len(b.path)] /\ Leaf(b) \in Token
           /\ \A i, j \in 1 .. Len(b.path) : b.path[i] = b.path[j] => i = j
<1>1. /\ b.op \in {"charge", "record"} /\ b.user \in User /\ b.id \in RequestId
      /\ b.path \in Seq(Token) /\ b.path # <<>> /\ IsInjective(b.path)
      /\ b.cost \in Nat /\ b.tokens \in Nat /\ b.provider \in User \cup {NoProvider}
    BY SettlementAssumption
<1> DEFINE path == b.path
<1>2. path \in Seq(Token) /\ path # <<>> /\ IsInjective(path)
    BY <1>1
<1> HIDE DEF path
<1>3. Len(path) \in Nat \ {0} /\ path[1] \in Token /\ path[Len(path)] \in Token
    BY <1>2
<1>4. Head(path) = path[1] /\ Last(path) = path[Len(path)]
    BY <1>2 DEF Last
<1>5. \A i, j \in 1 .. Len(path) : path[i] = path[j] => i = j
    BY <1>2 DEF IsInjective
<1> QED BY <1>1, <1>3, <1>4, <1>5 DEF path, Root, Leaf

LEMMA StatementType ==
    \A d \in Verbs, r \in Row \cup {NoProvider} : [do |-> d, row |-> r] \in Statements
BY DEF Statements

LEMMA EnsureLines ==
    ASSUME NEW t \in Token, NEW id \in RequestId
    PROVE  /\ Ensure(t, id) \in Seq(Statements) /\ Len(Ensure(t, id)) = 4
           /\ Ensure(t, id)[1] = [do |-> "find", row |-> <<t, id>>]
           /\ Ensure(t, id)[2] = [do |-> "insert", row |-> <<t, id>>]
           /\ Ensure(t, id)[3] = [do |-> "count", row |-> <<t, id>>]
           /\ Ensure(t, id)[4] = [do |-> "tally", row |-> t]
<1>1. t \in Row /\ <<t, id>> \in Row
    BY SettlementAssumption DEF Logical
<1>2. /\ [do |-> "find", row |-> <<t, id>>] \in Statements
      /\ [do |-> "insert", row |-> <<t, id>>] \in Statements
      /\ [do |-> "count", row |-> <<t, id>>] \in Statements
      /\ [do |-> "tally", row |-> t] \in Statements
    BY <1>1, StatementType DEF Verbs
<1> HIDE DEF Statements
<1> QED BY <1>2 DEF Ensure

\* The statements for the ancestors: the one after 5 * j others is the first of the
\* ancestor path[1 + j].
LEMMA AncestorLine ==
    ASSUME NEW b \in Bill
    PROVE  /\ Attribute(b) \in Seq(Statements)
           /\ Len(Attribute(b)) = 5 * (Len(b.path) - 1)
           /\ \A k \in 1 .. 5 * (Len(b.path) - 1) :
                LET t == b.path[1 + ((k - 1) \div 5)]
                    m == (k - 1) % 5
                IN  /\ 1 + ((k - 1) \div 5) \in 1 .. Len(b.path) - 1 /\ t \in Token
                    /\ m = 0 => Attribute(b)[k] = [do |-> "find", row |-> <<t, b.id>>]
                    /\ m = 1 => Attribute(b)[k] = [do |-> "insert", row |-> <<t, b.id>>]
                    /\ m = 2 => Attribute(b)[k] = [do |-> "count", row |-> <<t, b.id>>]
                    /\ m = 3 => Attribute(b)[k] = [do |-> "tally", row |-> t]
                    /\ m = 4 => Attribute(b)[k] = [do |-> "spend", row |-> t]
<1> DEFINE path == b.path  n == Len(path)  N == 5 * (n - 1)
           t(k) == path[1 + ((k - 1) \div 5)]
           block(u) == Ensure(u, b.id) \o <<[do |-> "spend", row |-> u]>>
<1>1. n \in Nat \ {0} /\ path \in Seq(Token) /\ b.id \in RequestId
    BY BillFacts
<1>2. ASSUME NEW u \in Token
      PROVE  /\ block(u)[1] = [do |-> "find", row |-> <<u, b.id>>]
             /\ block(u)[2] = [do |-> "insert", row |-> <<u, b.id>>]
             /\ block(u)[3] = [do |-> "count", row |-> <<u, b.id>>]
             /\ block(u)[4] = [do |-> "tally", row |-> u]
             /\ block(u)[5] = [do |-> "spend", row |-> u]
    <2> DEFINE E == Ensure(u, b.id)  last == <<[do |-> "spend", row |-> u]>>  j == E \o last
    <2>1. E \in Seq(Statements) /\ Len(E) = 4
        BY <1>1, EnsureLines
    <2>2. last \in Seq(Statements) /\ Len(last) = 1 /\ last[1] = [do |-> "spend", row |-> u]
        <3>1. [do |-> "spend", row |-> u] \in Statements
            BY StatementType, SettlementAssumption DEF Verbs
        <3> HIDE DEF Statements
        <3> QED BY <3>1
    <2> HIDE DEF E, last, j
    <2>4. (\A i \in 1 .. 4 : j[i] = E[i]) /\ (\A i \in 1 .. 1 : j[4 + i] = last[i])
        <3>1. Joins(j, E, last, Statements)
            BY <2>1, <2>2, Joined, Zenon DEF j
        <3> HIDE DEF Statements
        <3> QED BY <2>1, <2>2, <3>1 DEF Joins
    <2>5. j[1] = E[1] /\ j[2] = E[2] /\ j[3] = E[3] /\ j[4] = E[4] /\ j[5] = last[1]
        BY <2>4
    <2>6. block(u) = j
        BY DEF j, E, last
    <2>7. /\ E[1] = [do |-> "find", row |-> <<u, b.id>>]
          /\ E[2] = [do |-> "insert", row |-> <<u, b.id>>]
          /\ E[3] = [do |-> "count", row |-> <<u, b.id>>]
          /\ E[4] = [do |-> "tally", row |-> u]
        BY <1>1, EnsureLines DEF E
    <2> HIDE DEF block
    <2> QED BY <2>2, <2>5, <2>6, <2>7
<1>3. N \in Nat /\ Attribute(b) = [k \in 1 .. N |-> block(t(k))[1 + ((k - 1) % 5)]]
    BY <1>1 DEF Attribute
<1>4. ASSUME NEW k \in 1 .. N
      PROVE  /\ 1 + ((k - 1) \div 5) \in 1 .. n - 1 /\ (k - 1) % 5 \in 0 .. 4
             /\ t(k) \in Token
    <2>1. (k - 1) \div 5 \in 0 .. n - 2 /\ (k - 1) % 5 \in 0 .. 4
        BY <1>1
    <2>2. 1 + ((k - 1) \div 5) \in 1 .. n
        BY <2>1, <1>1
    <2> HIDE DEF n, path
    <2>3. t(k) \in Token
        BY <2>2, <1>1 DEF n
    <2> QED BY <2>1, <2>3, <1>1
<1> HIDE DEF path, N, n
<1>5. ASSUME NEW k \in 1 .. N, NEW m, m = (k - 1) % 5, NEW u, u = t(k)
      PROVE  /\ m = 0 => Attribute(b)[k] = [do |-> "find", row |-> <<u, b.id>>]
             /\ m = 1 => Attribute(b)[k] = [do |-> "insert", row |-> <<u, b.id>>]
             /\ m = 2 => Attribute(b)[k] = [do |-> "count", row |-> <<u, b.id>>]
             /\ m = 3 => Attribute(b)[k] = [do |-> "tally", row |-> u]
             /\ m = 4 => Attribute(b)[k] = [do |-> "spend", row |-> u]
    <2>1. u \in Token /\ m \in 0 .. 4
        BY <1>4, <1>5
    <2>2. Attribute(b)[k] = block(u)[1 + m]
        BY <1>3, <1>5
    <2> HIDE DEF block
    <2> QED BY <2>1, <2>2, <1>2
<1>6. \A k \in 1 .. N : Attribute(b)[k] \in Statements
    <2> TAKE k \in 1 .. N
    <2> DEFINE u == t(k)
    <2>1. u \in Token /\ <<u, b.id>> \in Row /\ u \in Row
        BY <1>4, <1>1, SettlementAssumption DEF Logical
    <2> HIDE DEF u
    <2> DEFINE m == (k - 1) % 5
    <2>2. m \in {0, 1, 2, 3, 4}
        BY <1>4
    <2>3.    /\ m = 0 => Attribute(b)[k] = [do |-> "find", row |-> <<u, b.id>>]
             /\ m = 1 => Attribute(b)[k] = [do |-> "insert", row |-> <<u, b.id>>]
             /\ m = 2 => Attribute(b)[k] = [do |-> "count", row |-> <<u, b.id>>]
             /\ m = 3 => Attribute(b)[k] = [do |-> "tally", row |-> u]
             /\ m = 4 => Attribute(b)[k] = [do |-> "spend", row |-> u]
        BY <1>5 DEF u
    <2> HIDE DEF m
    <2> QED BY <2>1, <2>2, <2>3, StatementType DEF Verbs
<1>7. Attribute(b) \in Seq(Statements) /\ Len(Attribute(b)) = N
    <2>1. Attribute(b) = [k \in 1 .. N |-> Attribute(b)[k]]
        BY <1>3
    <2> HIDE DEF Statements
    <2>2. Attribute(b) \in [1 .. N -> Statements]
        BY <2>1, <1>6
    <2> DEFINE f == Attribute(b)
    <2>3. f \in [1 .. N -> Statements] /\ N \in Nat
        BY <1>3, <2>2
    <2> HIDE DEF f
    <2>4. f \in Seq(Statements) /\ Len(f) = N
        BY <2>3
    <2> QED BY <2>4 DEF f
<1> QED BY <1>4, <1>5, <1>7 DEF N, n, path

LEMMA ChargeLines ==
    ASSUME NEW b \in Bill, b.op = "charge"
    PROVE  LET P == Program[b] IN
           /\ P \in Seq(Statements) /\ Len(P) = 17 + 5 * (Len(b.path) - 1)
           /\ P[1] = [do |-> "find", row |-> <<Root(b), b.id>>]
           /\ P[2] = [do |-> "insert", row |-> <<Root(b), b.id>>]
           /\ P[3] = [do |-> "count", row |-> <<Root(b), b.id>>]
           /\ P[4] = [do |-> "tally", row |-> Root(b)]
           /\ P[5] = [do |-> "claim", row |-> <<Root(b), b.id>>]
           /\ P[6] = [do |-> "find", row |-> <<Leaf(b), b.id>>]
           /\ P[7] = [do |-> "insert", row |-> <<Leaf(b), b.id>>]
           /\ P[8] = [do |-> "count", row |-> <<Leaf(b), b.id>>]
           /\ P[9] = [do |-> "tally", row |-> Leaf(b)]
           /\ P[10] = [do |-> "plan", row |-> b.user]
           /\ P[11] = [do |-> "lock", row |-> b.user]
           /\ P[12] = [do |-> "cover", row |-> b.user]
           /\ P[13] = [do |-> "debit", row |-> b.user]
           /\ P[14] = [do |-> "findPayee", row |-> b.provider]
           /\ P[15] = [do |-> "insertPayee", row |-> b.provider]
           /\ P[16] = [do |-> "pay", row |-> b.provider]
           /\ P[17] = [do |-> "spend", row |-> Leaf(b)]
           /\ \A k \in 1 .. 5 * (Len(b.path) - 1) : P[17 + k] = Attribute(b)[k]
<1> DEFINE claim == <<[do |-> "claim", row |-> <<Root(b), b.id>>]>>
           money == << [do |-> "plan", row |-> b.user], [do |-> "lock", row |-> b.user],
               [do |-> "cover", row |-> b.user], [do |-> "debit", row |-> b.user],
               [do |-> "findPayee", row |-> b.provider],
               [do |-> "insertPayee", row |-> b.provider],
               [do |-> "pay", row |-> b.provider], [do |-> "spend", row |-> Leaf(b)] >>
           A == Ensure(Root(b), b.id)
           E == Ensure(Leaf(b), b.id)
           N == 5 * (Len(b.path) - 1)
<1>1. Program[b] = A \o claim \o E \o money \o Attribute(b)
    BY DEF Program
<1>2. /\ Root(b) \in Token /\ Leaf(b) \in Token /\ b.id \in RequestId
      /\ <<Root(b), b.id>> \in Row /\ Leaf(b) \in Row /\ b.user \in Row
      /\ b.provider \in Row \cup {NoProvider} /\ N \in Nat
    BY BillFacts, SettlementAssumption DEF Logical
<1>3. claim \in Seq(Statements) /\ Len(claim) = 1
    <2>1. [do |-> "claim", row |-> <<Root(b), b.id>>] \in Statements
        BY <1>2, StatementType DEF Verbs
    <2> HIDE DEF Statements
    <2> QED BY <2>1
<1>4. money \in Seq(Statements) /\ Len(money) = 8
    <2>1. /\ [do |-> "plan", row |-> b.user] \in Statements
          /\ [do |-> "lock", row |-> b.user] \in Statements
          /\ [do |-> "cover", row |-> b.user] \in Statements
          /\ [do |-> "debit", row |-> b.user] \in Statements
          /\ [do |-> "findPayee", row |-> b.provider] \in Statements
          /\ [do |-> "insertPayee", row |-> b.provider] \in Statements
          /\ [do |-> "pay", row |-> b.provider] \in Statements
          /\ [do |-> "spend", row |-> Leaf(b)] \in Statements
        BY <1>2, StatementType DEF Verbs
    <2> HIDE DEF Statements
    <2> QED BY <2>1
<1>5. claim[1] = [do |-> "claim", row |-> <<Root(b), b.id>>]
    OBVIOUS
<1>6. /\ money[1] = [do |-> "plan", row |-> b.user] /\ money[2] = [do |-> "lock", row |-> b.user]
      /\ money[3] = [do |-> "cover", row |-> b.user] /\ money[4] = [do |-> "debit", row |-> b.user]
      /\ money[5] = [do |-> "findPayee", row |-> b.provider]
      /\ money[6] = [do |-> "insertPayee", row |-> b.provider]
      /\ money[7] = [do |-> "pay", row |-> b.provider] /\ money[8] = [do |-> "spend", row |-> Leaf(b)]
    OBVIOUS
<1>7. /\ A \in Seq(Statements) /\ Len(A) = 4
      /\ A[1] = [do |-> "find", row |-> <<Root(b), b.id>>]
      /\ A[2] = [do |-> "insert", row |-> <<Root(b), b.id>>]
      /\ A[3] = [do |-> "count", row |-> <<Root(b), b.id>>]
      /\ A[4] = [do |-> "tally", row |-> Root(b)]
    BY <1>2, EnsureLines
<1>8. /\ E \in Seq(Statements) /\ Len(E) = 4
      /\ E[1] = [do |-> "find", row |-> <<Leaf(b), b.id>>]
      /\ E[2] = [do |-> "insert", row |-> <<Leaf(b), b.id>>]
      /\ E[3] = [do |-> "count", row |-> <<Leaf(b), b.id>>]
      /\ E[4] = [do |-> "tally", row |-> Leaf(b)]
    BY <1>2, EnsureLines
<1>9. Attribute(b) \in Seq(Statements) /\ Len(Attribute(b)) = N
    BY AncestorLine
<1> DEFINE B == A \o claim   C == B \o E   D == C \o money
<1> HIDE DEF claim, money, A, E, N
<1>10. B \in Seq(Statements) /\ Len(B) = 4 + 1 /\ (\A i \in 1 .. 4 : B[i] = A[i])
       /\ (\A i \in 1 .. 1 : B[4 + i] = claim[i])
    <2>1. Joins(B, A, claim, Statements)
        BY <1>3, <1>7, Joined, Zenon
    <2> HIDE DEF B, Statements
    <2> QED BY <2>1, <1>3, <1>7 DEF Joins
<1> HIDE DEF B
<1>11. C \in Seq(Statements) /\ Len(C) = 5 + 4 /\ (\A i \in 1 .. 5 : C[i] = B[i])
       /\ (\A i \in 1 .. 4 : C[5 + i] = E[i])
    <2>1. Joins(C, B, E, Statements)
        BY <1>8, <1>10, Joined, Zenon
    <2> HIDE DEF C, Statements
    <2> QED BY <2>1, <1>8, <1>10 DEF Joins
<1> HIDE DEF C
<1>12. D \in Seq(Statements) /\ Len(D) = 9 + 8 /\ (\A i \in 1 .. 9 : D[i] = C[i])
       /\ (\A i \in 1 .. 8 : D[9 + i] = money[i])
    <2>1. Joins(D, C, money, Statements)
        BY <1>4, <1>11, Joined, Zenon
    <2> HIDE DEF D, Statements
    <2> QED BY <2>1, <1>4, <1>11 DEF Joins
<1> HIDE DEF D
<1> DEFINE P == Program[b]  R == Attribute(b)
<1>13. Joins(P, D, R, Statements)
    <2>1. Program[b] = D \o Attribute(b)
        BY <1>1 DEF B, C, D
    <2> QED BY <2>1, <1>9, <1>12, Joined, Zenon
<1>14. Len(D) = 17 /\ Len(R) = N
    BY <1>9, <1>12
<1> HIDE DEF P, R
<1>17. P \in Seq(Statements) /\ Len(P) = 17 + N
    BY <1>2, <1>13, <1>14 DEF Joins
<1>20. \A i \in 1 .. 17 : P[i] = D[i]
    BY <1>2, <1>13, <1>14 DEF Joins
<1>21. ASSUME NEW k \in 1 .. N PROVE P[17 + k] = R[k]
    <2>1. 17 + k \in 1 .. 17 + N /\ ~ (17 + k <= 17) /\ 17 + k - 17 = k
        BY <1>2
    <2> QED BY <1>2, <1>13, <1>14, <2>1 DEF Joins
<1>22. \A i \in 1 .. 9 : P[i] = C[i]
    <2>1. \A i \in 1 .. 9 : D[i] = C[i] /\ i \in 1 .. 17
        BY <1>12
    <2> QED BY <2>1, <1>20, Zenon
<1>23. \A i \in 1 .. 8 : P[9 + i] = money[i]
    BY <1>12, <1>20
<1>15. /\ P[1] = A[1] /\ P[2] = A[2] /\ P[3] = A[3] /\ P[4] = A[4]
       /\ P[5] = claim[1]
       /\ P[6] = E[1] /\ P[7] = E[2] /\ P[8] = E[3] /\ P[9] = E[4]
    <2>1. \A i \in 1 .. 9 : P[i] = C[i]
        BY <1>22
    <2>2. \A i \in 1 .. 5 : P[i] = B[i]
        BY <2>1, <1>11
    <2>3. \A i \in 1 .. 4 : P[i] = A[i]
        BY <2>2, <1>10
    <2>4. P[5] = claim[1]
        BY <2>2, <1>10
    <2>5. \A i \in 1 .. 4 : P[5 + i] = E[i]
        BY <2>1, <1>11
    <2> QED BY <2>3, <2>4, <2>5
<1>16. /\ P[10] = money[1] /\ P[11] = money[2] /\ P[12] = money[3] /\ P[13] = money[4]
       /\ P[14] = money[5] /\ P[15] = money[6] /\ P[16] = money[7] /\ P[17] = money[8]
    BY <1>23
<1>18. /\ Program[b] \in Seq(Statements) /\ Len(Program[b]) = 17 + 5 * (Len(b.path) - 1)
       /\ \A k \in 1 .. 5 * (Len(b.path) - 1) : Program[b][17 + k] = Attribute(b)[k]
    BY <1>17, <1>21 DEF N, P, R
<1>19. /\ Program[b][1] = [do |-> "find", row |-> <<Root(b), b.id>>]
       /\ Program[b][2] = [do |-> "insert", row |-> <<Root(b), b.id>>]
       /\ Program[b][3] = [do |-> "count", row |-> <<Root(b), b.id>>]
       /\ Program[b][4] = [do |-> "tally", row |-> Root(b)]
       /\ Program[b][5] = [do |-> "claim", row |-> <<Root(b), b.id>>]
       /\ Program[b][6] = [do |-> "find", row |-> <<Leaf(b), b.id>>]
       /\ Program[b][7] = [do |-> "insert", row |-> <<Leaf(b), b.id>>]
       /\ Program[b][8] = [do |-> "count", row |-> <<Leaf(b), b.id>>]
       /\ Program[b][9] = [do |-> "tally", row |-> Leaf(b)]
    BY <1>15, <1>5, <1>7, <1>8 DEF P
<1> QED BY <1>16, <1>6, <1>18, <1>19 DEF P

LEMMA RecordLines ==
    ASSUME NEW b \in Bill, b.op = "record"
    PROVE  LET P == Program[b] IN
           /\ P \in Seq(Statements) /\ Len(P) = 4 + 5 * (Len(b.path) - 1)
           /\ P[1] = [do |-> "find", row |-> <<Leaf(b), b.id>>]
           /\ P[2] = [do |-> "insert", row |-> <<Leaf(b), b.id>>]
           /\ P[3] = [do |-> "count", row |-> <<Leaf(b), b.id>>]
           /\ P[4] = [do |-> "tally", row |-> Leaf(b)]
           /\ \A k \in 1 .. 5 * (Len(b.path) - 1) : P[4 + k] = Attribute(b)[k]
<1> DEFINE E == Ensure(Leaf(b), b.id)
           N == 5 * (Len(b.path) - 1)
<1>1. Program[b] = E \o Attribute(b)
    BY DEF Program
<1>2. Leaf(b) \in Token /\ b.id \in RequestId /\ N \in Nat
    BY BillFacts
<1>3. /\ E \in Seq(Statements) /\ Len(E) = 4
      /\ E[1] = [do |-> "find", row |-> <<Leaf(b), b.id>>]
      /\ E[2] = [do |-> "insert", row |-> <<Leaf(b), b.id>>]
      /\ E[3] = [do |-> "count", row |-> <<Leaf(b), b.id>>]
      /\ E[4] = [do |-> "tally", row |-> Leaf(b)]
    BY <1>2, EnsureLines
<1>4. Attribute(b) \in Seq(Statements) /\ Len(Attribute(b)) = N
    BY AncestorLine
<1> HIDE DEF E, N
<1>5. /\ Program[b] \in Seq(Statements) /\ Len(Program[b]) = 4 + N
      /\ \A i \in 1 .. 4 : Program[b][i] = E[i]
      /\ \A k \in 1 .. N : Program[b][4 + k] = Attribute(b)[k]
    <2>1. Joins(Program[b], E, Attribute(b), Statements)
        BY <1>1, <1>3, <1>4, Joined, Zenon
    <2> HIDE DEF Statements
    <2> QED BY <2>1, <1>2, <1>3, <1>4 DEF Joins
<1>6. /\ Program[b][1] = E[1] /\ Program[b][2] = E[2] /\ Program[b][3] = E[3] /\ Program[b][4] = E[4]
    BY <1>2, <1>5
<1> QED BY <1>3, <1>5, <1>6 DEF N

\* The statements before those of the ancestors, and those of the ancestors.
Fixed(b) == IF b.op = "charge" THEN 17 ELSE 4
Ancestors(b) == 5 * (Len(b.path) - 1)

IsLine(b, n, d, r) == Program[b][n].do = d /\ Program[b][n].row = r

LEMMA Lengths ==
    ASSUME NEW b \in Bill
    PROVE  /\ Fixed(b) \in {4, 17} /\ Ancestors(b) \in Nat
           /\ Len(Program[b]) = Fixed(b) + Ancestors(b)
<1>1. Len(b.path) \in Nat \ {0}
    BY BillFacts, Zenon
<1>2. Ancestors(b) \in Nat /\ Fixed(b) \in {4, 17}
    BY <1>1 DEF Ancestors, Fixed
<1>3. b.op = "charge" \/ b.op = "record"
    BY BillFacts
<1>4. CASE b.op = "charge"
    <2>1. Len(Program[b]) = 17 + 5 * (Len(b.path) - 1)
        BY <1>4, ChargeLines, Zenon
    <2> QED BY <2>1, <1>2, <1>4 DEF Ancestors, Fixed
<1>5. CASE b.op = "record"
    <2>1. Len(Program[b]) = 4 + 5 * (Len(b.path) - 1)
        BY <1>5, RecordLines, Zenon
    <2> QED BY <2>1, <1>2, <1>5 DEF Ancestors, Fixed
<1> QED BY <1>3, <1>4, <1>5

LEMMA TailLine ==
    ASSUME NEW b \in Bill, NEW k \in 1 .. Ancestors(b),
           NEW t, t = b.path[1 + ((k - 1) \div 5)], NEW m, m = (k - 1) % 5
    PROVE  /\ t \in Token /\ m \in 0 .. 4 /\ 1 + ((k - 1) \div 5) \in 1 .. Len(b.path) - 1
           /\ m = 0 => IsLine(b, Fixed(b) + k, "find", <<t, b.id>>)
           /\ m = 1 => IsLine(b, Fixed(b) + k, "insert", <<t, b.id>>)
           /\ m = 2 => IsLine(b, Fixed(b) + k, "count", <<t, b.id>>)
           /\ m = 3 => IsLine(b, Fixed(b) + k, "tally", t)
           /\ m = 4 => IsLine(b, Fixed(b) + k, "spend", t)
<1>1. k \in 1 .. 5 * (Len(b.path) - 1)
    BY DEF Ancestors
<1>2. k \in Int
    OBVIOUS
<1>3. m \in 0 .. 4
    BY <1>2
<1>4. /\ t \in Token /\ 1 + ((k - 1) \div 5) \in 1 .. Len(b.path) - 1
      /\ m = 0 => Attribute(b)[k] = [do |-> "find", row |-> <<t, b.id>>]
      /\ m = 1 => Attribute(b)[k] = [do |-> "insert", row |-> <<t, b.id>>]
      /\ m = 2 => Attribute(b)[k] = [do |-> "count", row |-> <<t, b.id>>]
      /\ m = 3 => Attribute(b)[k] = [do |-> "tally", row |-> t]
      /\ m = 4 => Attribute(b)[k] = [do |-> "spend", row |-> t]
    BY <1>1, AncestorLine, Zenon
<1>5. Program[b][Fixed(b) + k] = Attribute(b)[k]
    <2>1. CASE b.op = "charge"
        <3>1. Program[b][17 + k] = Attribute(b)[k]
            BY <1>1, <2>1, ChargeLines, Zenon
        <3> QED BY <2>1, <3>1 DEF Fixed
    <2>2. CASE b.op = "record"
        <3>1. Program[b][4 + k] = Attribute(b)[k]
            BY <1>1, <2>2, RecordLines, Zenon
        <3> QED BY <2>2, <3>1 DEF Fixed
    <2> QED BY <2>1, <2>2, BillFacts
<1> HIDE DEF IsLine
<1> DEFINE line == Program[b][Fixed(b) + k]
<1>6. /\ m = 0 => line.do = "find" /\ line.row = <<t, b.id>>
      /\ m = 1 => line.do = "insert" /\ line.row = <<t, b.id>>
      /\ m = 2 => line.do = "count" /\ line.row = <<t, b.id>>
      /\ m = 3 => line.do = "tally" /\ line.row = t
      /\ m = 4 => line.do = "spend" /\ line.row = t
    <2> HIDE DEF line
    <2>1. line = Attribute(b)[k]
        BY <1>5 DEF line
    <2> QED BY <1>4, <2>1
<1> QED BY <1>3, <1>4, <1>6, Zenon DEF IsLine

LEMMA ChargeLine ==
    ASSUME NEW b \in Bill, b.op = "charge"
    PROVE  /\ IsLine(b, 1, "find", <<Root(b), b.id>>) /\ IsLine(b, 2, "insert", <<Root(b), b.id>>)
           /\ IsLine(b, 3, "count", <<Root(b), b.id>>) /\ IsLine(b, 4, "tally", Root(b))
           /\ IsLine(b, 5, "claim", <<Root(b), b.id>>)
           /\ IsLine(b, 6, "find", <<Leaf(b), b.id>>) /\ IsLine(b, 7, "insert", <<Leaf(b), b.id>>)
           /\ IsLine(b, 8, "count", <<Leaf(b), b.id>>) /\ IsLine(b, 9, "tally", Leaf(b))
           /\ IsLine(b, 10, "plan", b.user) /\ IsLine(b, 11, "lock", b.user)
           /\ IsLine(b, 12, "cover", b.user) /\ IsLine(b, 13, "debit", b.user)
           /\ IsLine(b, 14, "findPayee", b.provider) /\ IsLine(b, 15, "insertPayee", b.provider)
           /\ IsLine(b, 16, "pay", b.provider) /\ IsLine(b, 17, "spend", Leaf(b))
<1> DEFINE P == Program[b]
<1>1. /\ P[1] = [do |-> "find", row |-> <<Root(b), b.id>>]
      /\ P[2] = [do |-> "insert", row |-> <<Root(b), b.id>>]
      /\ P[3] = [do |-> "count", row |-> <<Root(b), b.id>>]
      /\ P[4] = [do |-> "tally", row |-> Root(b)]
      /\ P[5] = [do |-> "claim", row |-> <<Root(b), b.id>>]
      /\ P[6] = [do |-> "find", row |-> <<Leaf(b), b.id>>]
      /\ P[7] = [do |-> "insert", row |-> <<Leaf(b), b.id>>]
      /\ P[8] = [do |-> "count", row |-> <<Leaf(b), b.id>>]
      /\ P[9] = [do |-> "tally", row |-> Leaf(b)]
      /\ P[10] = [do |-> "plan", row |-> b.user]
      /\ P[11] = [do |-> "lock", row |-> b.user]
      /\ P[12] = [do |-> "cover", row |-> b.user]
      /\ P[13] = [do |-> "debit", row |-> b.user]
      /\ P[14] = [do |-> "findPayee", row |-> b.provider]
      /\ P[15] = [do |-> "insertPayee", row |-> b.provider]
      /\ P[16] = [do |-> "pay", row |-> b.provider]
      /\ P[17] = [do |-> "spend", row |-> Leaf(b)]
    BY ChargeLines, Zenon
<1> HIDE DEF P
<1>2. /\ P[1].do = "find" /\ P[1].row = <<Root(b), b.id>>
      /\ P[2].do = "insert" /\ P[2].row = <<Root(b), b.id>>
      /\ P[3].do = "count" /\ P[3].row = <<Root(b), b.id>>
      /\ P[4].do = "tally" /\ P[4].row = Root(b)
      /\ P[5].do = "claim" /\ P[5].row = <<Root(b), b.id>>
      /\ P[6].do = "find" /\ P[6].row = <<Leaf(b), b.id>>
      /\ P[7].do = "insert" /\ P[7].row = <<Leaf(b), b.id>>
      /\ P[8].do = "count" /\ P[8].row = <<Leaf(b), b.id>>
      /\ P[9].do = "tally" /\ P[9].row = Leaf(b)
    BY <1>1
<1>3. /\ P[10].do = "plan" /\ P[10].row = b.user /\ P[11].do = "lock" /\ P[11].row = b.user
      /\ P[12].do = "cover" /\ P[12].row = b.user /\ P[13].do = "debit" /\ P[13].row = b.user
      /\ P[14].do = "findPayee" /\ P[14].row = b.provider
      /\ P[15].do = "insertPayee" /\ P[15].row = b.provider
      /\ P[16].do = "pay" /\ P[16].row = b.provider
      /\ P[17].do = "spend" /\ P[17].row = Leaf(b)
    BY <1>1
<1> QED BY <1>2, <1>3, Zenon DEF IsLine, P

LEMMA RecordLine ==
    ASSUME NEW b \in Bill, b.op = "record"
    PROVE  /\ IsLine(b, 1, "find", <<Leaf(b), b.id>>) /\ IsLine(b, 2, "insert", <<Leaf(b), b.id>>)
           /\ IsLine(b, 3, "count", <<Leaf(b), b.id>>) /\ IsLine(b, 4, "tally", Leaf(b))
<1> DEFINE P == Program[b]
<1>1. /\ P[1] = [do |-> "find", row |-> <<Leaf(b), b.id>>]
      /\ P[2] = [do |-> "insert", row |-> <<Leaf(b), b.id>>]
      /\ P[3] = [do |-> "count", row |-> <<Leaf(b), b.id>>]
      /\ P[4] = [do |-> "tally", row |-> Leaf(b)]
    BY RecordLines, Zenon
<1> HIDE DEF P
<1>2. /\ P[1].do = "find" /\ P[1].row = <<Leaf(b), b.id>>
      /\ P[2].do = "insert" /\ P[2].row = <<Leaf(b), b.id>>
      /\ P[3].do = "count" /\ P[3].row = <<Leaf(b), b.id>>
      /\ P[4].do = "tally" /\ P[4].row = Leaf(b)
    BY <1>1
<1> QED BY <1>2, Zenon DEF IsLine, P

LEMMA NextTail ==
    ASSUME NEW b \in Bill, NEW k \in 1 .. Ancestors(b), NEW i \in 1 .. 4, ((k - 1) % 5) + i <= 4
    PROVE  /\ k + i \in 1 .. Ancestors(b)
           /\ ((k + i) - 1) % 5 = ((k - 1) % 5) + i
           /\ ((k + i) - 1) \div 5 = (k - 1) \div 5
<1>1. PICK n \in Nat : Ancestors(b) = 5 * n
    <2>1. Len(b.path) \in Nat \ {0}
        BY BillFacts, Zenon
    <2>2. Len(b.path) - 1 \in Nat
        BY <2>1
    <2> QED BY <2>2 DEF Ancestors
<1>2. k \in Int /\ 1 <= k /\ k <= 5 * n
    BY <1>1
<1> QED BY <1>1, <1>2

\* How the statements of a program follow each other.
Follows(b, n) ==
    LET P == Program[b]  d == P[n].do  r == P[n].row
    IN  /\ d = "find" => /\ n + 2 <= Len(P)
                         /\ P[n + 1].do = "insert" /\ P[n + 1].row = r
                         /\ P[n + 2].do = "count" /\ P[n + 2].row = r
        /\ d = "insert" => n + 1 <= Len(P) /\ P[n + 1].do = "count" /\ P[n + 1].row = r
        /\ d = "count" => /\ n + 1 <= Len(P)
                          /\ P[n + 1].do = "tally" /\ r = <<P[n + 1].row, b.id>>
                          /\ n + 2 <= Len(P) => P[n + 2].do \notin {"count", "tally"}
        /\ d \notin {"insert", "count"} /\ n < Len(P) => P[n + 1].do \notin {"count", "tally"}

\* What a statement works on.
Works(b, n) ==
    LET d == Program[b][n].do  r == Program[b][n].row
    IN  /\ d \in Verbs
        /\ d \in {"find", "insert", "count"} => \E t \in Token : r = <<t, b.id>>
        /\ d \in {"tally", "spend"} => r \in Token
        /\ d = "claim" => b.op = "charge" /\ n = 5
        /\ d = "plan" => b.op = "charge" /\ n = 10
        /\ d = "lock" => b.op = "charge" /\ n = 11
        /\ d = "cover" => b.op = "charge" /\ n = 12
        /\ d = "debit" => b.op = "charge" /\ n = 13
        /\ d = "findPayee" => b.op = "charge" /\ n = 14
        /\ d = "insertPayee" => b.op = "charge" /\ n = 15
        /\ d = "pay" => b.op = "charge" /\ n = 16
        /\ d = "spend" => n = 17 \/ n > Fixed(b)

LEMMA TailShape ==
    ASSUME NEW b \in Bill, NEW k \in 1 .. Ancestors(b), NEW n, n = Fixed(b) + k
    PROVE  Follows(b, n) /\ Works(b, n)
<1> DEFINE t == b.path[1 + ((k - 1) \div 5)]
           m == (k - 1) % 5
           L == Len(Program[b])
<1>1. n \in Nat /\ L = Fixed(b) + Ancestors(b) /\ n <= L /\ Fixed(b) \in {4, 17} /\ n > Fixed(b)
    BY Lengths
<1>2. /\ t \in Token /\ m \in 0 .. 4
      /\ m = 0 => IsLine(b, n, "find", <<t, b.id>>)
      /\ m = 1 => IsLine(b, n, "insert", <<t, b.id>>)
      /\ m = 2 => IsLine(b, n, "count", <<t, b.id>>)
      /\ m = 3 => IsLine(b, n, "tally", t)
      /\ m = 4 => IsLine(b, n, "spend", t)
    BY TailLine, Zenon
<1>3. ASSUME m < 4
      PROVE  /\ n + 1 <= L
             /\ m = 0 => IsLine(b, n + 1, "insert", <<t, b.id>>)
             /\ m = 1 => IsLine(b, n + 1, "count", <<t, b.id>>)
             /\ m = 2 => IsLine(b, n + 1, "tally", t)
             /\ m = 3 => IsLine(b, n + 1, "spend", t)
    <2>1. m + 1 <= 4
        BY <1>2, <1>3
    <2>2. /\ k + 1 \in 1 .. Ancestors(b) /\ ((k + 1) - 1) % 5 = m + 1
          /\ ((k + 1) - 1) \div 5 = (k - 1) \div 5
        BY <2>1, NextTail
    <2> DEFINE j == k + 1   v == (j - 1) % 5
    <2>3. /\ j \in 1 .. Ancestors(b) /\ v = m + 1 /\ t = b.path[1 + ((j - 1) \div 5)]
          /\ Fixed(b) + j = n + 1 /\ n + 1 <= L
        BY <1>1, <2>2, Lengths
    <2> HIDE DEF j, t, m, L
    <2>4. /\ v = 1 => IsLine(b, Fixed(b) + j, "insert", <<t, b.id>>)
          /\ v = 2 => IsLine(b, Fixed(b) + j, "count", <<t, b.id>>)
          /\ v = 3 => IsLine(b, Fixed(b) + j, "tally", t)
          /\ v = 4 => IsLine(b, Fixed(b) + j, "spend", t)
        BY <2>3, TailLine, Zenon
    <2> HIDE DEF v
    <2> QED BY <1>2, <2>3, <2>4
<1>4. ASSUME m < 3
      PROVE  /\ n + 2 <= L
             /\ m = 0 => IsLine(b, n + 2, "count", <<t, b.id>>)
             /\ m = 1 => IsLine(b, n + 2, "tally", t)
             /\ m = 2 => IsLine(b, n + 2, "spend", t)
    <2>1. m + 2 <= 4
        BY <1>2, <1>4
    <2>2. /\ k + 2 \in 1 .. Ancestors(b) /\ ((k + 2) - 1) % 5 = m + 2
          /\ ((k + 2) - 1) \div 5 = (k - 1) \div 5
        BY <2>1, NextTail
    <2> DEFINE j == k + 2   v == (j - 1) % 5
    <2>3. /\ j \in 1 .. Ancestors(b) /\ v = m + 2 /\ t = b.path[1 + ((j - 1) \div 5)]
          /\ Fixed(b) + j = n + 2 /\ n + 2 <= L
        BY <1>1, <2>2, Lengths
    <2> HIDE DEF j, t, m, L
    <2>4. /\ v = 2 => IsLine(b, Fixed(b) + j, "count", <<t, b.id>>)
          /\ v = 3 => IsLine(b, Fixed(b) + j, "tally", t)
          /\ v = 4 => IsLine(b, Fixed(b) + j, "spend", t)
        BY <2>3, TailLine, Zenon
    <2> HIDE DEF v
    <2> QED BY <1>2, <2>3, <2>4
<1>5. ASSUME m = 4, n < L
      PROVE  \E u : IsLine(b, n + 1, "find", <<u, b.id>>)
    <2> DEFINE j == k + 1   v == (j - 1) % 5   u == b.path[1 + ((j - 1) \div 5)]
    <2>1. j \in 1 .. Ancestors(b) /\ Fixed(b) + j = n + 1 /\ v = 0
        <3>1. k \in Int /\ Fixed(b) \in Int /\ Ancestors(b) \in Int /\ 1 <= k
            BY <1>1, Lengths
        <3>2. v = 0
            BY <1>5, <3>1
        <3> HIDE DEF L, m, t
        <3>3. j \in 1 .. Ancestors(b) /\ Fixed(b) + j = n + 1
            BY <1>1, <1>5, <3>1
        <3> QED BY <3>2, <3>3
    <2> HIDE DEF j, L
    <2>2. v = 0 => IsLine(b, Fixed(b) + j, "find", <<u, b.id>>)
        BY <2>1, TailLine, Zenon
    <2> QED BY <2>1, <2>2
<1> HIDE DEF t, m
<1>6. Works(b, n)
    BY <1>1, <1>2, SMT DEF Works, Verbs, IsLine
<1>7. m = 0 \/ m = 1 \/ m = 2 \/ m = 3 \/ m = 4
    BY <1>2
<1>8. Follows(b, n)
    <2>0. n + 1 <= L => n < L
        BY <1>1
    <2>1. CASE m = 0
        BY <1>2, <1>3, <1>4, <2>1 DEF Follows, IsLine
    <2>2. CASE m = 1
        BY <1>2, <1>3, <1>4, <2>2 DEF Follows, IsLine
    <2>3. CASE m = 2
        BY <1>2, <1>3, <1>4, <2>3 DEF Follows, IsLine
    <2>4. CASE m = 3
        BY <1>2, <1>3, <2>4 DEF Follows, IsLine
    <2>5. CASE m = 4
        BY <1>2, <1>5, <2>5 DEF Follows, IsLine
    <2> QED BY <1>7, <2>1, <2>2, <2>3, <2>4, <2>5
<1> QED BY <1>6, <1>8

LEMMA Shape ==
    ASSUME NEW b \in Bill, NEW n \in 1 .. Len(Program[b])
    PROVE  Follows(b, n) /\ Works(b, n)
<1> DEFINE L == Len(Program[b])
<1>1. L = Fixed(b) + Ancestors(b) /\ Fixed(b) \in {4, 17} /\ Ancestors(b) \in Nat /\ n \in 1 .. L
    BY Lengths
<1>2. CASE n > Fixed(b)
    <2> DEFINE k == n - Fixed(b)
    <2>1. k \in 1 .. Ancestors(b) /\ n = Fixed(b) + k
        BY <1>1, <1>2
    <2> HIDE DEF k
    <2> QED BY <2>1, TailShape, Zenon
<1>3. ASSUME L > Fixed(b) PROVE \E u : IsLine(b, Fixed(b) + 1, "find", <<u, b.id>>)
    <2> DEFINE v == (1 - 1) % 5   u == b.path[1 + ((1 - 1) \div 5)]
    <2>1. 1 \in 1 .. Ancestors(b) /\ v = 0
        BY <1>1, <1>3
    <2>2. v = 0 => IsLine(b, Fixed(b) + 1, "find", <<u, b.id>>)
        BY <2>1, TailLine, Zenon
    <2> QED BY <2>1, <2>2
<1> HIDE DEF L
<1>4. CASE b.op = "charge" /\ n <= 17
    <2>1. /\ Root(b) \in Token /\ Leaf(b) \in Token
        BY BillFacts, Zenon
    <2>2. Fixed(b) = 17 /\ Fixed(b) + 1 = 18
        BY <1>4 DEF Fixed
    <2>3. L \in Nat /\ L >= 17 /\ n \in 1 .. 17
        BY <1>1, <1>4, <2>2
    <2>4. L > 17 => \E u : IsLine(b, 18, "find", <<u, b.id>>)
        BY <1>3, <2>2
    <2>5. CASE n = 1
        <3>1. n + 1 = 2 /\ n + 2 = 3
            BY <2>5
        <3>4. /\ IsLine(b, n, "find", <<Root(b), b.id>>)
              /\ IsLine(b, n + 1, "insert", <<Root(b), b.id>>)
              /\ IsLine(b, n + 2, "count", <<Root(b), b.id>>)
            BY <1>4, <2>5, <3>1, ChargeLine, Zenon
        <3> QED BY <1>4, <2>1, <2>3, <2>5, <3>4 DEF Follows, Works, Verbs, IsLine, L
    <2>6. CASE n = 2
        <3>1. n + 1 = 3 /\ n + 2 = 4
            BY <2>6
        <3>4. /\ IsLine(b, n, "insert", <<Root(b), b.id>>)
              /\ IsLine(b, n + 1, "count", <<Root(b), b.id>>)
              /\ IsLine(b, n + 2, "tally", Root(b))
            BY <1>4, <2>6, <3>1, ChargeLine, Zenon
        <3> QED BY <1>4, <2>1, <2>3, <2>6, <3>4 DEF Follows, Works, Verbs, IsLine, L
    <2>7. CASE n = 3
        <3>1. n + 1 = 4 /\ n + 2 = 5
            BY <2>7
        <3>4. /\ IsLine(b, n, "count", <<Root(b), b.id>>)
              /\ IsLine(b, n + 1, "tally", Root(b))
              /\ IsLine(b, n + 2, "claim", <<Root(b), b.id>>)
            BY <1>4, <2>7, <3>1, ChargeLine, Zenon
        <3> QED BY <1>4, <2>1, <2>3, <2>7, <3>4 DEF Follows, Works, Verbs, IsLine, L
    <2>8. CASE n = 4
        <3>1. n + 1 = 5 /\ n + 2 = 6
            BY <2>8
        <3>4. /\ IsLine(b, n, "tally", Root(b))
              /\ IsLine(b, n + 1, "claim", <<Root(b), b.id>>)
              /\ IsLine(b, n + 2, "find", <<Leaf(b), b.id>>)
            BY <1>4, <2>8, <3>1, ChargeLine, Zenon
        <3> QED BY <1>4, <2>1, <2>3, <2>8, <3>4 DEF Follows, Works, Verbs, IsLine, L
    <2>9. CASE n = 5
        <3>1. n + 1 = 6 /\ n + 2 = 7
            BY <2>9
        <3>4. /\ IsLine(b, n, "claim", <<Root(b), b.id>>)
              /\ IsLine(b, n + 1, "find", <<Leaf(b), b.id>>)
              /\ IsLine(b, n + 2, "insert", <<Leaf(b), b.id>>)
            BY <1>4, <2>9, <3>1, ChargeLine, Zenon
        <3> QED BY <1>4, <2>1, <2>3, <2>9, <3>4 DEF Follows, Works, Verbs, IsLine, L
    <2>10. CASE n = 6
        <3>1. n + 1 = 7 /\ n + 2 = 8
            BY <2>10
        <3>4. /\ IsLine(b, n, "find", <<Leaf(b), b.id>>)
              /\ IsLine(b, n + 1, "insert", <<Leaf(b), b.id>>)
              /\ IsLine(b, n + 2, "count", <<Leaf(b), b.id>>)
            BY <1>4, <2>10, <3>1, ChargeLine, Zenon
        <3> QED BY <1>4, <2>1, <2>3, <2>10, <3>4 DEF Follows, Works, Verbs, IsLine, L
    <2>11. CASE n = 7
        <3>1. n + 1 = 8 /\ n + 2 = 9
            BY <2>11
        <3>4. /\ IsLine(b, n, "insert", <<Leaf(b), b.id>>)
              /\ IsLine(b, n + 1, "count", <<Leaf(b), b.id>>)
              /\ IsLine(b, n + 2, "tally", Leaf(b))
            BY <1>4, <2>11, <3>1, ChargeLine, Zenon
        <3> QED BY <1>4, <2>1, <2>3, <2>11, <3>4 DEF Follows, Works, Verbs, IsLine, L
    <2>12. CASE n = 8
        <3>1. n + 1 = 9 /\ n + 2 = 10
            BY <2>12
        <3>4. /\ IsLine(b, n, "count", <<Leaf(b), b.id>>)
              /\ IsLine(b, n + 1, "tally", Leaf(b))
              /\ IsLine(b, n + 2, "plan", b.user)
            BY <1>4, <2>12, <3>1, ChargeLine, Zenon
        <3> QED BY <1>4, <2>1, <2>3, <2>12, <3>4 DEF Follows, Works, Verbs, IsLine, L
    <2>13. CASE n = 9
        <3>1. n + 1 = 10 /\ n + 2 = 11
            BY <2>13
        <3>4. /\ IsLine(b, n, "tally", Leaf(b))
              /\ IsLine(b, n + 1, "plan", b.user)
              /\ IsLine(b, n + 2, "lock", b.user)
            BY <1>4, <2>13, <3>1, ChargeLine, Zenon
        <3> QED BY <1>4, <2>1, <2>3, <2>13, <3>4 DEF Follows, Works, Verbs, IsLine, L
    <2>14. CASE n = 10
        <3>1. n + 1 = 11 /\ n + 2 = 12
            BY <2>14
        <3>4. /\ IsLine(b, n, "plan", b.user)
              /\ IsLine(b, n + 1, "lock", b.user)
              /\ IsLine(b, n + 2, "cover", b.user)
            BY <1>4, <2>14, <3>1, ChargeLine, Zenon
        <3> QED BY <1>4, <2>1, <2>3, <2>14, <3>4 DEF Follows, Works, Verbs, IsLine, L
    <2>15. CASE n = 11
        <3>1. n + 1 = 12 /\ n + 2 = 13
            BY <2>15
        <3>4. /\ IsLine(b, n, "lock", b.user)
              /\ IsLine(b, n + 1, "cover", b.user)
              /\ IsLine(b, n + 2, "debit", b.user)
            BY <1>4, <2>15, <3>1, ChargeLine, Zenon
        <3> QED BY <1>4, <2>1, <2>3, <2>15, <3>4 DEF Follows, Works, Verbs, IsLine, L
    <2>16. CASE n = 12
        <3>1. n + 1 = 13 /\ n + 2 = 14
            BY <2>16
        <3>4. /\ IsLine(b, n, "cover", b.user)
              /\ IsLine(b, n + 1, "debit", b.user)
              /\ IsLine(b, n + 2, "findPayee", b.provider)
            BY <1>4, <2>16, <3>1, ChargeLine, Zenon
        <3> QED BY <1>4, <2>1, <2>3, <2>16, <3>4 DEF Follows, Works, Verbs, IsLine, L
    <2>17. CASE n = 13
        <3>1. n + 1 = 14 /\ n + 2 = 15
            BY <2>17
        <3>4. /\ IsLine(b, n, "debit", b.user)
              /\ IsLine(b, n + 1, "findPayee", b.provider)
              /\ IsLine(b, n + 2, "insertPayee", b.provider)
            BY <1>4, <2>17, <3>1, ChargeLine, Zenon
        <3> QED BY <1>4, <2>1, <2>3, <2>17, <3>4 DEF Follows, Works, Verbs, IsLine, L
    <2>18. CASE n = 14
        <3>1. n + 1 = 15 /\ n + 2 = 16
            BY <2>18
        <3>4. /\ IsLine(b, n, "findPayee", b.provider)
              /\ IsLine(b, n + 1, "insertPayee", b.provider)
              /\ IsLine(b, n + 2, "pay", b.provider)
            BY <1>4, <2>18, <3>1, ChargeLine, Zenon
        <3> QED BY <1>4, <2>1, <2>3, <2>18, <3>4 DEF Follows, Works, Verbs, IsLine, L
    <2>19. CASE n = 15
        <3>1. n + 1 = 16 /\ n + 2 = 17
            BY <2>19
        <3>4. /\ IsLine(b, n, "insertPayee", b.provider)
              /\ IsLine(b, n + 1, "pay", b.provider)
              /\ IsLine(b, n + 2, "spend", Leaf(b))
            BY <1>4, <2>19, <3>1, ChargeLine, Zenon
        <3> QED BY <1>4, <2>1, <2>3, <2>19, <3>4 DEF Follows, Works, Verbs, IsLine, L
    <2>20. CASE n = 16
        <3>1. n + 1 = 17 /\ n + 2 = 18
            BY <2>20
        <3>4. /\ IsLine(b, n, "pay", b.provider)
              /\ IsLine(b, n + 1, "spend", Leaf(b))
            BY <1>4, <2>20, <3>1, ChargeLine, Zenon
        <3> QED BY <1>4, <2>1, <2>3, <2>20, <3>4 DEF Follows, Works, Verbs, IsLine, L
    <2>21. CASE n = 17
        <3>1. n + 1 = 18 /\ n + 2 = 19
            BY <2>21
        <3>4. IsLine(b, n, "spend", Leaf(b))
            BY <1>4, <2>21, <3>1, ChargeLine, Zenon
        <3>2. n < L => \E u : IsLine(b, n + 1, "find", <<u, b.id>>)
            <4>1. n < L => L > 17
                BY <2>21
            <4> QED BY <4>1, <3>1, <2>4, Zenon
        <3> QED BY <1>4, <2>1, <2>21, <3>4, <3>2 DEF Follows, Works, Verbs, IsLine, L
    <2> QED BY <2>3, <2>5, <2>6, <2>7, <2>8, <2>9, <2>10, <2>11, <2>12, <2>13, <2>14, <2>15, <2>16, <2>17, <2>18, <2>19, <2>20, <2>21
<1>5. CASE b.op = "record" /\ n <= 4
    <2>1. Leaf(b) \in Token
        BY BillFacts, Zenon
    <2>2. Fixed(b) = 4 /\ Fixed(b) + 1 = 5
        BY <1>5 DEF Fixed
    <2>3. L \in Nat /\ L >= 4 /\ n \in 1 .. 4
        BY <1>1, <1>5, <2>2
    <2>4. L > 4 => \E u : IsLine(b, 5, "find", <<u, b.id>>)
        BY <1>3, <2>2
    <2>5. CASE n = 1
        <3>1. n + 1 = 2 /\ n + 2 = 3
            BY <2>5
        <3>4. /\ IsLine(b, n, "find", <<Leaf(b), b.id>>)
              /\ IsLine(b, n + 1, "insert", <<Leaf(b), b.id>>)
              /\ IsLine(b, n + 2, "count", <<Leaf(b), b.id>>)
            BY <1>5, <2>5, <3>1, RecordLine, Zenon
        <3> QED BY <1>5, <2>1, <2>3, <2>5, <3>4 DEF Follows, Works, Verbs, IsLine, L
    <2>6. CASE n = 2
        <3>1. n + 1 = 3 /\ n + 2 = 4
            BY <2>6
        <3>4. /\ IsLine(b, n, "insert", <<Leaf(b), b.id>>)
              /\ IsLine(b, n + 1, "count", <<Leaf(b), b.id>>)
              /\ IsLine(b, n + 2, "tally", Leaf(b))
            BY <1>5, <2>6, <3>1, RecordLine, Zenon
        <3> QED BY <1>5, <2>1, <2>3, <2>6, <3>4 DEF Follows, Works, Verbs, IsLine, L
    <2>7. CASE n = 3
        <3>1. n + 1 = 4 /\ n + 2 = 5
            BY <2>7
        <3>4. /\ IsLine(b, n, "count", <<Leaf(b), b.id>>)
              /\ IsLine(b, n + 1, "tally", Leaf(b))
            BY <1>5, <2>7, <3>1, RecordLine, Zenon
        <3>2. n + 2 <= L => \E u : IsLine(b, n + 2, "find", <<u, b.id>>)
            <4>1. n + 2 <= L => L > 4
                BY <2>7, <2>3
            <4> QED BY <4>1, <3>1, <2>4, Zenon
        <3>3. n < L => n + 1 <= L
            BY <2>3, <2>7
        <3> QED BY <1>5, <2>1, <2>3, <2>7, <3>4, <3>2, <3>3 DEF Follows, Works, Verbs, IsLine, L
    <2>8. CASE n = 4
        <3>1. n + 1 = 5 /\ n + 2 = 6
            BY <2>8
        <3>4. IsLine(b, n, "tally", Leaf(b))
            BY <1>5, <2>8, <3>1, RecordLine, Zenon
        <3>2. n + 1 <= L => \E u : IsLine(b, n + 1, "find", <<u, b.id>>)
            <4>1. n + 1 <= L => L > 4
                BY <2>8, <2>3
            <4> QED BY <4>1, <3>1, <2>4, Zenon
        <3>3. n < L => n + 1 <= L
            BY <2>3, <2>8
        <3> QED BY <1>5, <2>1, <2>3, <2>8, <3>4, <3>2, <3>3 DEF Follows, Works, Verbs, IsLine, L
    <2> QED BY <2>3, <2>5, <2>6, <2>7, <2>8
<1>6. b.op = "charge" \/ b.op = "record"
    BY BillFacts
<1> QED BY <1>1, <1>2, <1>4, <1>5, <1>6 DEF Fixed

\* The quota of the token path[i] is raised by one statement.
SpendsFor(b, n, i) ==
    /\ i \in 1 .. Len(b.path) /\ Program[b][n].row = b.path[i]
    /\ i < Len(b.path) => n = Fixed(b) + 5 * i
    /\ i = Len(b.path) => b.op = "charge" /\ n = 17

LEMMA SpendLine ==
    ASSUME NEW b \in Bill, NEW n \in 1 .. Len(Program[b]), Program[b][n].do = "spend"
    PROVE  \E i : SpendsFor(b, n, i)
<1>1. Len(Program[b]) = Fixed(b) + Ancestors(b) /\ Fixed(b) \in {4, 17} /\ Ancestors(b) \in Nat
    BY Lengths
<1>2. Len(b.path) \in Nat \ {0}
    BY BillFacts, Zenon
<1>3. CASE n > Fixed(b)
    <2> DEFINE k == n - Fixed(b)  m == (k - 1) % 5  i == 1 + ((k - 1) \div 5)  t == b.path[i]
    <2>1. k \in 1 .. Ancestors(b) /\ n = Fixed(b) + k
        BY <1>1, <1>3
    <2> HIDE DEF k
    <2>2. /\ t \in Token /\ m \in 0 .. 4 /\ i \in 1 .. Len(b.path) - 1
          /\ m = 0 => IsLine(b, n, "find", <<t, b.id>>)
          /\ m = 1 => IsLine(b, n, "insert", <<t, b.id>>)
          /\ m = 2 => IsLine(b, n, "count", <<t, b.id>>)
          /\ m = 3 => IsLine(b, n, "tally", t)
          /\ m = 4 => IsLine(b, n, "spend", t)
        BY <2>1, TailLine, Zenon
    <2>3. m = 4 /\ Program[b][n].row = t
        <3> HIDE DEF m, t, i
        <3>1. m = 0 \/ m = 1 \/ m = 2 \/ m = 3 \/ m = 4
            BY <2>2
        <3> QED BY <2>2, <3>1 DEF IsLine
    <2>4. k = 5 * i
        <3>1. k \in Int /\ 1 <= k
            BY <1>1, <2>1
        <3> QED BY <3>1, <2>3
    <2> HIDE DEF m, i
    <2>5. SpendsFor(b, n, i)
        BY <1>2, <2>1, <2>2, <2>3, <2>4 DEF SpendsFor
    <2> QED BY <2>5
<1>4. CASE ~ (n > Fixed(b))
    <2>1. n = 17 /\ Fixed(b) = 17
        <3>1. n = 17 \/ n > Fixed(b)
            BY Shape DEF Works
        <3> QED BY <1>1, <1>4, <3>1
    <2>2. b.op = "charge"
        BY <2>1 DEF Fixed
    <2>3. IsLine(b, 17, "spend", Leaf(b))
        BY <2>2, ChargeLine, Zenon
    <2>4. Leaf(b) = b.path[Len(b.path)]
        BY BillFacts, Zenon
    <2>5. SpendsFor(b, n, Len(b.path))
        BY <1>2, <2>1, <2>2, <2>3, <2>4 DEF SpendsFor, IsLine
    <2> QED BY <2>5
<1> QED BY <1>3, <1>4

LEMMA SpendOnce ==
    ASSUME NEW b \in Bill, NEW m \in 1 .. Len(Program[b]), NEW n \in 1 .. Len(Program[b]),
           Program[b][m].do = "spend", Program[b][n].do = "spend",
           Program[b][m].row = Program[b][n].row
    PROVE  m = n
<1>1. PICK i : SpendsFor(b, m, i)
    BY SpendLine
<1>2. PICK j : SpendsFor(b, n, j)
    BY SpendLine
<1>3. \A x, y \in 1 .. Len(b.path) : b.path[x] = b.path[y] => x = y
    BY BillFacts, Zenon
<1>4. i = j
    BY <1>1, <1>2, <1>3 DEF SpendsFor
<1>5. Len(b.path) \in Nat
    BY BillFacts, Zenon
<1>6. i < Len(b.path) \/ i = Len(b.path)
    BY <1>1, <1>5 DEF SpendsFor
<1> QED BY <1>1, <1>2, <1>4, <1>6 DEF SpendsFor

\* A charge raises the quota of every token of its path, and of no other.
LEMMA AllSpent ==
    ASSUME NEW b \in Bill, b.op = "charge", NEW t
    PROVE  (\E n \in 1 .. Len(Program[b]) : Program[b][n].do = "spend" /\ Program[b][n].row = t)
             <=> Contains(b.path, t)
<1>1. Len(Program[b]) = 17 + Ancestors(b) /\ Ancestors(b) \in Nat /\ Fixed(b) = 17
    BY Lengths DEF Fixed
<1>2. Len(b.path) \in Nat \ {0} /\ Leaf(b) = b.path[Len(b.path)]
    BY BillFacts, Zenon
<1>3. ASSUME NEW n \in 1 .. Len(Program[b]), Program[b][n].do = "spend", Program[b][n].row = t
      PROVE  Contains(b.path, t)
    <2>1. PICK i : SpendsFor(b, n, i)
        BY <1>3, SpendLine
    <2> QED BY <1>3, <2>1 DEF SpendsFor, Contains
<1>4. ASSUME NEW i \in 1 .. Len(b.path), b.path[i] = t
      PROVE  \E n \in 1 .. Len(Program[b]) : IsLine(b, n, "spend", t)
    <2>1. CASE i = Len(b.path)
        <3>1. IsLine(b, 17, "spend", t)
            BY <1>2, <1>4, <2>1, ChargeLine, Zenon
        <3>2. 17 \in 1 .. Len(Program[b])
            BY <1>1
        <3> QED BY <3>1, <3>2
    <2>2. CASE i # Len(b.path)
        <3> DEFINE k == 5 * i   m == (k - 1) % 5   j == 1 + ((k - 1) \div 5)
        <3>1. i \in Int /\ 1 <= i /\ i <= Len(b.path) - 1
            BY <1>2, <2>2
        <3>2. k \in 1 .. Ancestors(b) /\ m = 4 /\ j = i
            BY <1>2, <3>1 DEF Ancestors
        <3> HIDE DEF k
        <3>3. t = b.path[j]
            BY <1>4, <3>2
        <3>4. m = 4 => IsLine(b, Fixed(b) + k, "spend", t)
            BY <3>2, <3>3, TailLine, Zenon
        <3>5. Fixed(b) + k \in 1 .. Len(Program[b])
            BY <1>1, <3>2
        <3> QED BY <3>2, <3>4, <3>5
    <2> QED BY <2>1, <2>2
<1> QED BY <1>3, <1>4 DEF Contains, IsLine

Parts == Seq([pass : Pass, quota : Int])
PlanType == [left : Nat, covered : Int, parts : Parts, next : Nat \ {0}]
FreshPlan == {q \in PlanType : q.next = 1}

LEMMA NoPlanFresh == NoPlan \in FreshPlan
<1>1. <<>> \in Parts
    BY DEF Parts
<1> QED BY <1>1 DEF NoPlan, FreshPlan, PlanType

LEMMA RoundedShare ==
    ASSUME NEW l \in Nat, NEW c \in Nat, NEW u \in Nat \ {0}, c <= u
    PROVE  RoundedQuotient(l * c, u) \in Nat /\ RoundedQuotient(l * c, u) <= l
<1> DEFINE a == l * c  d == 2 * u  e == 2 * a + u  q == e \div d
<1>1. a \in Nat /\ a <= l * u
    OBVIOUS
<1>2. l * u \in Nat
    OBVIOUS
<1> HIDE DEF a
<1>3. d \in Nat \ {0} /\ e \in Nat
    BY <1>1
<1>4. e <= l * d + u
    <2>1. l * d = 2 * (l * u)
        OBVIOUS
    <2> QED BY <1>1, <1>2, <2>1
<1>5. q \in Nat /\ d * q <= e
    <2> HIDE DEF d, e
    <2> QED BY <1>3
<1>6. q <= l
    <2> SUFFICES ASSUME q >= l + 1 PROVE FALSE
        BY <1>5
    <2> HIDE DEF q
    <2>1. d * q >= d * (l + 1)
        BY <1>3, <1>5
    <2>2. d * (l + 1) = l * d + d
        OBVIOUS
    <2>3. l * d \in Nat /\ d * q \in Nat /\ d * (l + 1) \in Nat
        BY <1>3, <1>5
    <2>4. d > u
        OBVIOUS
    <2> HIDE DEF d, e
    <2> QED BY <1>3, <1>4, <1>5, <2>1, <2>2, <2>3, <2>4
<1> QED BY <1>5, <1>6 DEF RoundedQuotient, a

LEMMA ContributionFits ==
    ASSUME NEW unit, NEW available \in Int, NEW left \in Nat, NEW tokens \in Nat
    PROVE  LET c == Contribution(unit, available, left, tokens)
           IN  c.quota \in Int /\ c.covered \in Nat /\ c.covered <= left
<1> DEFINE units == IF tokens > 1 THEN tokens ELSE 1
           covers == Least(units, available)
           paid == Least(left, available)
           share == RoundedQuotient(left * covers, units)
<1>1. CASE available <= 0
    BY <1>1 DEF Contribution
<1>2. CASE ~ (available <= 0)
    <2>1. units \in Nat \ {0} /\ covers \in Nat /\ covers <= units /\ paid \in Nat /\ paid <= left
        BY <1>2 DEF Least
    <2> HIDE DEF units, covers, paid
    <2>2. share \in Nat /\ share <= left
        BY <2>1, RoundedShare
    <2> HIDE DEF share
    <2>3. Contribution(unit, available, left, tokens) =
             CASE unit = "request" -> [quota |-> 1, covered |-> left]
               [] unit = "token" -> [quota |-> covers, covered |-> share]
               [] OTHER -> [quota |-> paid, covered |-> paid]
        BY <1>2 DEF Contribution, units, covers, paid, share
    <2>4. CASE unit = "request"
        <3>1. Contribution(unit, available, left, tokens) = [quota |-> 1, covered |-> left]
            BY <2>3, <2>4
        <3> QED BY <3>1
    <2>5. CASE unit = "token"
        <3>1. Contribution(unit, available, left, tokens) = [quota |-> covers, covered |-> share]
            BY <2>3, <2>5
        <3> QED BY <2>1, <2>2, <3>1
    <2>6. CASE unit # "token" /\ unit # "request"
        <3>1. Contribution(unit, available, left, tokens) = [quota |-> paid, covered |-> paid]
            BY <2>3, <2>6
        <3> QED BY <2>1, <3>1
    <2> QED BY <2>4, <2>5, <2>6
<1> QED BY <1>1, <1>2

LEMMA AllocateFromFits ==
    ASSUME NEW b \in Bill, NEW seen, NEW p \in Pass, seen[p] \in PassVersion, NEW acc \in FreshPlan
    PROVE  AllocateFrom(p, b, seen, acc) \in FreshPlan
<1> DEFINE available == Available(p, seen[p])
           c == Contribution(PassUnit[p], available, acc.left, b.tokens)
           more == Append(acc.parts, [pass |-> p, quota |-> c.quota])
           next == [acc EXCEPT !.left = @ - c.covered, !.covered = @ + c.covered,
                         !.parts = Append(@, [pass |-> p, quota |-> c.quota])]
<1>1. available \in Int
    BY SettlementAssumption DEF Available, PassVersion
<1>2. /\ acc \in [left : Nat, covered : Int, parts : Parts, next : Nat \ {0}]
      /\ acc.left \in Nat /\ acc.covered \in Int /\ acc.parts \in Parts /\ acc.next = 1
    BY DEF FreshPlan, PlanType
<1>3. b.tokens \in Nat
    BY BillFacts, Zenon
<1> HIDE DEF available
<1>4. c.quota \in Int /\ c.covered \in Nat /\ c.covered <= acc.left
    BY <1>1, <1>2, <1>3, ContributionFits
<1> HIDE DEF c
<1>5. more \in Parts
    BY <1>2, <1>4 DEF Parts
<1> HIDE DEF more
<1>6. next = [left |-> acc.left - c.covered, covered |-> acc.covered + c.covered,
              parts |-> more, next |-> acc.next]
    <2>1. more = Append(acc.parts, [pass |-> p, quota |-> c.quota])
        BY DEF more
    <2>2. acc = [left |-> acc.left, covered |-> acc.covered, parts |-> acc.parts, next |-> acc.next]
        BY <1>2
    <2>3. next = [acc EXCEPT !.left = acc.left - c.covered, !.covered = acc.covered + c.covered,
                             !.parts = more]
        BY <2>1
    <2> HIDE DEF next
    <2> QED BY <2>2, <2>3
<1> HIDE DEF next
<1>7. next \in FreshPlan
    BY <1>2, <1>4, <1>5, <1>6 DEF FreshPlan, PlanType
<1>8. AllocateFrom(p, b, seen, acc) = IF acc.left = 0 \/ c.covered = 0 THEN acc ELSE next
    BY DEF AllocateFrom, c, available, next
<1> QED BY <1>7, <1>8

-----------------------------------------------------------------------------
\* The fold over the passes

\* g is the recursive function by which Allocate is defined, for the passes at S; w is the bill and
\* the passes seen.
Allocates(g, w, S) ==
    g = [s \in SUBSET S |->
           IF s = {} THEN [NoPlan EXCEPT !.left = w[1].cost]
           ELSE AllocateFrom(Passes[w[1].user][Max(s)], w[1], w[2], g[s \ {Max(s)}])]

Numbers(S) == S \subseteq Int /\ IsFiniteSet(S)

LEMMA MaxInSet ==
    ASSUME NEW S \in SUBSET Int, IsFiniteSet(S), S # {}
    PROVE  Max(S) \in S
<1> DEFINE Good == {s \in SUBSET S : s # {} => \E x \in s : \A y \in s : x >= y}
<1>1. ASSUME NEW s \in SUBSET S, \A t \in SUBSET s : t # s => t \in Good
      PROVE  s \in Good
    <2> SUFFICES ASSUME s # {} PROVE \E x \in s : \A y \in s : x >= y
        OBVIOUS
    <2>1. PICK c \in s : TRUE
        OBVIOUS
    <2>2. s \ {c} \in Good
        BY <1>1, <2>1
    <2>3. CASE s \ {c} = {}
        BY <2>1, <2>3
    <2>4. CASE s \ {c} # {}
        <3>1. PICK d \in s \ {c} : \A y \in s \ {c} : d >= y
            BY <2>2, <2>4
        <3>2. c \in Int /\ d \in Int /\ \A y \in s : y \in Int
            BY <2>1, <3>1
        <3>3. CASE d >= c
            BY <3>1, <3>3
        <3>4. CASE ~ (d >= c)
            <4>1. \A y \in s : c >= y
                BY <3>1, <3>2, <3>4
            <4> QED BY <2>1, <4>1
        <3> QED BY <3>3, <3>4
    <2> QED BY <2>3, <2>4
<1>2. SUBSET S \subseteq Good
    <2> HIDE DEF Good
    <2> QED BY <1>1, SubsetInduction
<1>3. \E x \in S : \A y \in S : x >= y
    BY <1>2
<1> QED BY <1>3 DEF Max

LEMMA AllocationsAgree ==
    ASSUME NEW w, NEW S, Numbers(S), NEW T \in SUBSET S,
           NEW g, Allocates(g, w, S), NEW h, Allocates(h, w, T)
    PROVE  \A s \in SUBSET T : g[s] = h[s]
<1> DEFINE Good == {s \in SUBSET T : g[s] = h[s]}
<1>1. IsFiniteSet(T) /\ T \in SUBSET Int
    BY FS_Subset DEF Numbers
<1>2. ASSUME NEW s \in SUBSET T, \A t \in SUBSET s : t # s => t \in Good
      PROVE  s \in Good
    <2>1. CASE s = {}
        BY <2>1 DEF Allocates
    <2>2. CASE s # {}
        <3>1. Max(s) \in s
            BY <1>1, <2>2, FS_Subset, MaxInSet
        <3>2. s \ {Max(s)} \in Good
            BY <1>2, <3>1
        <3>3. g[s] = AllocateFrom(Passes[w[1].user][Max(s)], w[1], w[2], g[s \ {Max(s)}])
            BY <2>2 DEF Allocates
        <3>4. h[s] = AllocateFrom(Passes[w[1].user][Max(s)], w[1], w[2], h[s \ {Max(s)}])
            BY <2>2 DEF Allocates
        <3> QED BY <3>2, <3>3, <3>4
    <2> QED BY <2>1, <2>2
<1>3. SUBSET T \subseteq Good
    <2> HIDE DEF Good
    <2> QED BY <1>1, <1>2, SubsetInduction
<1> QED BY <1>3

LEMMA AllocationsExist ==
    ASSUME NEW w, NEW S, Numbers(S)
    PROVE  \E g : Allocates(g, w, S)
<1> DEFINE Good == {s \in SUBSET S : \E g : Allocates(g, w, s)}
           G(s) == CHOOSE g : Allocates(g, w, s)
           Turn(s, acc) == AllocateFrom(Passes[w[1].user][Max(s)], w[1], w[2], acc)
           start == [NoPlan EXCEPT !.left = w[1].cost]
<1>1. ASSUME NEW s \in SUBSET S, \A t \in SUBSET s : t # s => t \in Good
      PROVE  s \in Good
    <2>1. \A t \in SUBSET s : t # s => Allocates(G(t), w, t)
        BY <1>1
    <2>2. \A t \in SUBSET s : t # s => \A u \in SUBSET t : G(t)[u] = G(u)[u]
        <3> TAKE t \in SUBSET s
        <3> HAVE t # s
        <3> TAKE u \in SUBSET t
        <3> HIDE DEF G
        <3>1. u \in SUBSET s /\ u # s
            OBVIOUS
        <3>2. Allocates(G(t), w, t) /\ Allocates(G(u), w, u)
            BY <2>1, <3>1
        <3>3. Numbers(t)
            BY FS_Subset DEF Numbers
        <3> QED BY <3>2, <3>3, AllocationsAgree
    <2> DEFINE value(t) == IF t = {} THEN start ELSE Turn(t, G(t \ {Max(t)})[t \ {Max(t)}])
               g == [t \in SUBSET s |-> value(t)]
    <2>3. \A t \in SUBSET s : t # s => g[t] = G(t)[t]
        <3> TAKE t \in SUBSET s
        <3> HAVE t # s
        <3>1. CASE t = {}
            <4> HIDE DEF G
            <4> QED BY <2>1, <3>1 DEF Allocates
        <3>2. CASE t # {}
            <4> HIDE DEF G
            <4>1. Max(t) \in t
                BY <3>2, FS_Subset, MaxInSet DEF Numbers
            <4>2. G(t)[t] = Turn(t, G(t)[t \ {Max(t)}])
                BY <2>1, <3>2 DEF Allocates
            <4>3. G(t)[t \ {Max(t)}] = G(t \ {Max(t)})[t \ {Max(t)}]
                BY <2>2
            <4>4. g[t] = Turn(t, G(t \ {Max(t)})[t \ {Max(t)}])
                BY <3>2
            <4> QED BY <4>2, <4>3, <4>4
        <3> QED BY <3>1, <3>2
    <2>4. \A t \in SUBSET s : g[t] = IF t = {} THEN start ELSE Turn(t, g[t \ {Max(t)}])
        <3> TAKE t \in SUBSET s
        <3>1. CASE t = {}
            BY <3>1
        <3>2. CASE t # {}
            <4>1. Max(t) \in t
                BY <3>2, FS_Subset, MaxInSet DEF Numbers
            <4>2. t \ {Max(t)} \in SUBSET s /\ t \ {Max(t)} # s
                BY <4>1
            <4>3. g[t \ {Max(t)}] = G(t \ {Max(t)})[t \ {Max(t)}]
                <5> HIDE DEF g, G
                <5> QED BY <2>3, <4>2
            <4>4. g[t] = Turn(t, G(t \ {Max(t)})[t \ {Max(t)}])
                BY <3>2
            <4> QED BY <3>2, <4>3, <4>4
        <3> QED BY <3>1, <3>2
    <2>5. Allocates(g, w, s)
        <3>1. g = [t \in SUBSET s |-> g[t]]
            OBVIOUS
        <3> HIDE DEF g
        <3> QED BY <2>4, <3>1 DEF Allocates
    <2> QED BY <2>5
<1>2. SUBSET S \subseteq Good
    <2> HIDE DEF Good
    <2> QED BY <1>1, SubsetInduction DEF Numbers
<1> QED BY <1>2

LEMMA AllocateUnfolded ==
    ASSUME NEW b, NEW seen
    PROVE  Allocate(b, seen) =
             (CHOOSE g : Allocates(g, <<b, seen>>, DOMAIN Passes[b.user]))[DOMAIN Passes[b.user]]
BY DEF Allocate, FoldLeft, MapThenFoldSet, Allocates

\* What the allocation returns, whatever the passes look like: what is left to pay is
\* never negative, and its parts are passes with the quota to take.
LEMMA AllocateFits ==
    ASSUME NEW b \in Bill, NEW seen, \A p \in Pass : seen[p] \in PassVersion
    PROVE  Allocate(b, seen) \in FreshPlan
<1> DEFINE w == <<b, seen>>
           S == DOMAIN Passes[b.user]
           g == CHOOSE h : Allocates(h, w, S)
           start == [NoPlan EXCEPT !.left = b.cost]
           Good == {s \in SUBSET S : g[s] \in FreshPlan}
<1>1. b.cost \in Nat /\ b.user \in User
    BY BillFacts, Zenon
<1>2. Passes[b.user] \in Seq(Pass)
    BY <1>1, SettlementAssumption
<1>3. S = 1 .. Len(Passes[b.user]) /\ Len(Passes[b.user]) \in Nat
    BY <1>2
<1>4. S \in SUBSET Int /\ IsFiniteSet(S) /\ \A i \in S : Passes[b.user][i] \in Pass
    <2>1. IsFiniteSet(S)
        BY <1>3, FS_Interval
    <2> QED BY <1>2, <1>3, <2>1
<1>5. start \in FreshPlan
    <2>1. start = [left |-> b.cost, covered |-> 0, parts |-> <<>>, next |-> 1]
        BY DEF NoPlan
    <2>2. <<>> \in Parts
        BY DEF Parts
    <2> HIDE DEF start
    <2> QED BY <1>1, <2>1, <2>2 DEF FreshPlan, PlanType
<1> HIDE DEF S
<1>6. Allocates(g, w, S)
    BY <1>4, AllocationsExist DEF Numbers
<1> HIDE DEF g
<1>7. ASSUME NEW s \in SUBSET S, \A t \in SUBSET s : t # s => t \in Good
      PROVE  s \in Good
    <2>1. CASE s = {}
        BY <1>5, <1>6, <2>1 DEF Allocates
    <2>2. CASE s # {}
        <3>1. Max(s) \in s
            BY <1>4, <2>2, FS_Subset, MaxInSet
        <3>2. s \ {Max(s)} \in Good
            BY <1>7, <3>1
        <3>3. g[s] = AllocateFrom(Passes[b.user][Max(s)], b, seen, g[s \ {Max(s)}])
            BY <1>6, <2>2 DEF Allocates
        <3>4. Passes[b.user][Max(s)] \in Pass
            BY <1>4, <3>1
        <3> QED BY <3>2, <3>3, <3>4, AllocateFromFits
    <2> QED BY <2>1, <2>2
<1>8. SUBSET S \subseteq Good
    <2> HIDE DEF Good
    <2> QED BY <1>4, <1>7, SubsetInduction
<1> QED BY <1>8, AllocateUnfolded DEF g, S

\* The inductive invariant

\* A version of a row that is there.
Fits(r, v) ==
    /\ r \in Logical => v \in RequestVersion
    /\ r \in Token => v \in TokenVersion
    /\ r \in User => v \in Int
    /\ r \in Pass => v \in PassVersion

\* Requests and accounts are inserted, tokens and passes are always there.
CommittedFits ==
    /\ DOMAIN committed = Row
    /\ \A q \in Logical : committed[q] # NoRow => committed[q] \in RequestVersion /\ committed[q].counted
    /\ \A t \in Token : committed[t] \in TokenVersion
    /\ \A u \in User : committed[u] \in Int \cup {NoRow}
    /\ \A p \in Pass : committed[p] \in PassVersion

Tabular ==
    /\ DOMAIN view = Session /\ DOMAIN draft = Session /\ DOMAIN locks = Row
    /\ \A s \in Session : DOMAIN draft[s] = Row
    /\ bill \in [Session -> Bill] /\ DOMAIN stage = Session
    /\ at \in [Session -> Nat \ {0}] /\ plan \in [Session -> PlanType]

Optional == Logical \cup User

\* A view is not newer than the tables, and no row is ever deleted.
ViewOlder(s) ==
    view[s] # NoView =>
        /\ \A p \in Pass : view[s][p] \in PassVersion
        /\ \A r \in Optional : view[s][r] # NoRow => committed[r] # NoRow

\* What a session has written is locked by it.
DraftsLocked(s) ==
    \A r \in Row : draft[s][r] # Clean => locks[r] = s /\ Fits(r, draft[s][r])

\* A session that is in no transaction.
Idle(s) ==
    /\ view[s] = NoView
    /\ \A r \in Row : draft[s][r] = Clean /\ locks[r] # s

Charging(s) == bill[s].op = "charge"
Own(s, t) == <<t, bill[s].id>>
Claimed(s) == Own(s, Root(bill[s]))

\* A request a session has written is its own, and counted unless that is what it
\* is about to do; none is taken back to unsettled.
RequestsWritten(s) ==
    \A q \in Logical : draft[s][q] # Clean =>
        /\ q[2] = bill[s].id
        /\ ~draft[s][q].counted => Doing(s) = "count" /\ Target(s) = q /\ committed[q] = NoRow
        /\ committed[q] # NoRow /\ committed[q].settled => draft[s][q].settled

Inserted(s, t) == draft[s][Own(s, t)] # Clean /\ committed[Own(s, t)] = NoRow

\* The request of a token is inserted and not yet in its counter.
Untallied(s, t) ==
    \/ Doing(s) = "tally" /\ Target(s) = t
    \/ /\ Doing(s) = "count" /\ Target(s) = Own(s, t)
       /\ draft[s][Own(s, t)] # Clean /\ ~draft[s][Own(s, t)].counted

One(b) == IF b THEN 1 ELSE 0

CountersWritten(s) ==
    \A t \in Token :
        IF draft[s][t] = Clean THEN Inserted(s, t) <=> Untallied(s, t)
        ELSE draft[s][t].requests =
               committed[t].requests + One(Inserted(s, t)) - One(Untallied(s, t))

\* The request to be counted is there; from its count on a charge has its own request
\* locked, and settled once it has passed the claim.
RequestClaimed(s) ==
    /\ Doing(s) = "count" => Stored(s, Target(s)) # NoRow
    /\ Charging(s) /\ at[s] \in {4, 5} => locks[Claimed(s)] = s /\ Stored(s, Claimed(s)) # NoRow
    /\ Charging(s) /\ at[s] > 5 =>
         /\ draft[s][Claimed(s)] # Clean /\ draft[s][Claimed(s)].settled
         /\ committed[Claimed(s)] # NoRow => ~committed[Claimed(s)].settled

PlanFollowed(s) ==
    /\ ~Charging(s) \/ at[s] <= 10 => plan[s] = NoPlan
    /\ plan[s].next <= Len(plan[s].parts) + 1
    /\ at[s] < 12 => plan[s].next = 1
    /\ at[s] > 12 => plan[s].next = Len(plan[s].parts) + 1

\* What a session has added to an account.
Moved(s, u) ==
    (IF Charging(s) /\ at[s] > 13 /\ u = bill[s].user THEN 0 - plan[s].left ELSE 0)
    + (IF Charging(s) /\ at[s] > 16 /\ u = bill[s].provider THEN Commission(s) ELSE 0)

AccountsWritten(s) ==
    /\ \A u \in User :
         IF draft[s][u] = Clean THEN Moved(s, u) = 0
         ELSE draft[s][u] = Worth(committed[u]) + Moved(s, u)
    /\ Charging(s) /\ at[s] \in {12, 13} /\ plan[s].left > 0 =>
         locks[bill[s].user] = s /\ Stored(s, bill[s].user) # NoRow
    /\ Charging(s) /\ at[s] \in {15, 16} => bill[s].provider \in User
    /\ Charging(s) /\ at[s] = 16 => Stored(s, bill[s].provider) # NoRow

Cost(s) == plan[s].covered + plan[s].left
Spent(s, t) == \E n \in 1 .. at[s] - 1 : /\ Program[bill[s]][n].do = "spend"
                                         /\ Program[bill[s]][n].row = t

QuotasWritten(s) ==
    \A t \in Token :
        IF draft[s][t] = Clean THEN Spent(s, t) => Cost(s) = 0
        ELSE draft[s][t].quota = committed[t].quota + (IF Spent(s, t) THEN Cost(s) ELSE 0)

TakenFrom(parts, p) == [i \in DOMAIN parts |-> IF parts[i].pass = p THEN parts[i].quota ELSE 0]
Taken(s, p) == SumFunctionOnSet(TakenFrom(plan[s].parts, p), 1 .. plan[s].next - 1)

PassesWritten(s) ==
    \A p \in Pass :
        IF draft[s][p] = Clean THEN Taken(s, p) = 0
        ELSE /\ draft[s][p].remaining >= 0
             /\ draft[s][p].remaining = committed[p].remaining - Taken(s, p)
             /\ draft[s][p].used = committed[p].used + Taken(s, p)

Working(s) ==
    /\ at[s] <= Len(Program[bill[s]]) + 1
    /\ RequestsWritten(s) /\ CountersWritten(s) /\ RequestClaimed(s)
    /\ PlanFollowed(s) /\ AccountsWritten(s) /\ QuotasWritten(s) /\ PassesWritten(s)

SessionInv(s) ==
    /\ DraftsLocked(s) /\ ViewOlder(s)
    /\ stage[s] # "work" => Idle(s)
    /\ stage[s] = "acquire" => at[s] = 1 /\ plan[s] = NoPlan
    /\ stage[s] = "work" => Working(s)

\* A usage row belongs to a request that is settled.
UsageSound ==
    /\ IsFiniteSet(usage)
    /\ \A w \in usage :
         /\ w.path \in Seq(Token) /\ w.path # <<>> /\ w.id \in RequestId
         /\ w.charged \in Int /\ w.covered \in Int /\ w.parts \in Parts
         /\ committed[<<Root(w), w.id>>] # NoRow /\ committed[<<Root(w), w.id>>].settled

SettlementInv ==
    /\ Tabular /\ CommittedFits
    /\ \A s \in Session : SessionInv(s)
    /\ UsageSound /\ posted \in [User -> Int]
    /\ ChargedOnce /\ TokensMatchUsage /\ BalancesMatchLedger /\ PassesMatchUsage

-----------------------------------------------------------------------------

LEMMA RowFacts ==
    /\ \A q \in Logical : q \in Row /\ q \notin Token /\ q \notin User /\ q \notin Pass
    /\ \A t \in Token : t \in Row /\ t \notin Logical /\ t \notin User /\ t \notin Pass
    /\ \A u \in User : u \in Row /\ u \notin Logical /\ u \notin Token /\ u \notin Pass
    /\ \A p \in Pass : p \in Row /\ p \notin Logical /\ p \notin Token /\ p \notin User
    /\ \A t \in Token, i \in RequestId : <<t, i>> \in Logical
    /\ \A q \in Logical : q[1] \in Token /\ q[2] \in RequestId /\ q = <<q[1], q[2]>>
    /\ Row = Logical \cup Token \cup User \cup Pass
BY SettlementAssumption DEF Logical

LEMMA VersionFacts ==
    /\ Clean \notin RequestVersion /\ Clean \notin TokenVersion /\ Clean \notin PassVersion
    /\ Clean \notin Int /\ Clean # NoRow /\ NoRow \notin Int /\ NoRow \notin RequestVersion
BY SettlementAssumption DEF Version

LEMMA OwnRows ==
    ASSUME Tabular, NEW s \in Session
    PROVE  /\ bill[s] \in Bill /\ \A t \in Token : Own(s, t) \in Logical
           /\ Claimed(s) \in Logical /\ bill[s].user \in User
           /\ bill[s].provider \in User \cup {NoProvider}
<1>1. bill[s] \in Bill
    BY DEF Tabular
<1>2. /\ bill[s].id \in RequestId /\ Root(bill[s]) \in Token /\ bill[s].user \in User
      /\ bill[s].provider \in User \cup {NoProvider}
    BY <1>1, BillFacts, Zenon
<1> QED BY <1>1, <1>2, RowFacts DEF Own, Claimed

\* What the steps of the other sessions leave of what the invariant says of x.
Untouched(x) ==
    /\ bill'[x] = bill[x] /\ stage'[x] = stage[x] /\ at'[x] = at[x] /\ plan'[x] = plan[x]
    /\ view'[x] = view[x] /\ draft'[x] = draft[x]
    /\ \A r \in Row : locks'[r] = x <=> locks[r] = x
    /\ \A r \in Row : locks[r] = x => committed'[r] = committed[r]
    /\ \A r \in Optional : committed[r] # NoRow => committed'[r] # NoRow

LEMMA UntouchedKeeps ==
    ASSUME Tabular, NEW x \in Session, Untouched(x), SessionInv(x)
    PROVE  SessionInv(x)'
<1>1. /\ bill'[x] = bill[x] /\ stage'[x] = stage[x] /\ at'[x] = at[x] /\ plan'[x] = plan[x]
      /\ view'[x] = view[x] /\ draft'[x] = draft[x]
    BY DEF Untouched
<1>2. /\ \A r \in Row : locks'[r] = x <=> locks[r] = x
      /\ \A r \in Row : locks[r] = x => committed'[r] = committed[r]
      /\ \A r \in Optional : committed[r] # NoRow => committed'[r] # NoRow
    BY DEF Untouched
<1>3. DraftsLocked(x) /\ ViewOlder(x)
    BY DEF SessionInv
<1>4. \A r \in Row : draft[x][r] # Clean => committed'[r] = committed[r]
    BY <1>2, <1>3 DEF DraftsLocked
<1>5. DraftsLocked(x)' /\ ViewOlder(x)'
    BY <1>1, <1>2, <1>3 DEF DraftsLocked, ViewOlder, Fits
<1>6. Idle(x) => Idle(x)'
    BY <1>1, <1>2 DEF Idle
<1>7. Doing(x)' = Doing(x) /\ Target(x)' = Target(x) /\ (Charging(x)' <=> Charging(x))
    BY <1>1 DEF Doing, Target, Finished, Charging
<1>8. Claimed(x)' = Claimed(x) /\ \A t : Own(x, t)' = Own(x, t)
    BY <1>1 DEF Claimed, Own
<1>9. Commission(x)' = Commission(x) /\ Cost(x)' = Cost(x)
    BY <1>1 DEF Commission, Cost
<1>10. \A t : Spent(x, t)' <=> Spent(x, t)
    BY <1>1 DEF Spent
<1>11. \A p : Taken(x, p)' = Taken(x, p)
    BY <1>1 DEF Taken
<1>12. \A u : Moved(x, u)' = Moved(x, u)
    BY <1>1, <1>7, <1>9 DEF Moved
<1>13. \A r \in Optional : Stored(x, r) # NoRow => Stored(x, r)' # NoRow
    BY <1>1, <1>2 DEF Stored
<1>14. /\ \A t \in Token : Own(x, t) \in Logical
       /\ Claimed(x) \in Logical /\ bill[x].user \in User
       /\ bill[x].provider \in User \cup {NoProvider}
    BY OwnRows
<1>15. ASSUME Working(x), stage[x] = "work" PROVE Working(x)'
    <2>1. (at[x] <= Len(Program[bill[x]]) + 1)'
        BY <1>1, <1>15 DEF Working
    <2>2. RequestsWritten(x)'
        BY <1>1, <1>4, <1>7, <1>15, RowFacts DEF Working, RequestsWritten
    <2>3. \A t \in Token : Inserted(x, t)' <=> Inserted(x, t)
        BY <1>1, <1>4, <1>8, <1>14, RowFacts DEF Inserted
    <2>4. \A t \in Token : Untallied(x, t)' <=> Untallied(x, t)
        BY <1>1, <1>7, <1>8 DEF Untallied
    <2>5. CountersWritten(x)'
        BY <1>1, <1>4, <1>15, <2>3, <2>4, RowFacts DEF Working, CountersWritten, One
    <2>6. Doing(x) = "count" => Target(x) \in Logical
        <3>1. Doing(x) = "count" => /\ at[x] \in 1 .. Len(Program[bill[x]])
                                    /\ Program[bill[x]][at[x]].do = "count"
            BY <1>15, Lengths, OwnRows DEF Doing, Finished, Tabular
        <3>2. Doing(x) = "count" => \E t \in Token : Target(x) = Own(x, t)
            BY <3>1, OwnRows, Shape DEF Works, Target, Own
        <3> QED BY <1>14, <3>2
    <2>7. RequestClaimed(x)'
        BY <1>1, <1>2, <1>4, <1>7, <1>8, <1>13, <1>14, <1>15, <2>6, RowFacts
           DEF Working, RequestClaimed, Optional
    <2>8. PlanFollowed(x)'
        BY <1>1, <1>7, <1>15 DEF Working, PlanFollowed
    <2>9. AccountsWritten(x)'
        BY <1>1, <1>2, <1>4, <1>7, <1>12, <1>13, <1>14, <1>15, RowFacts
           DEF Working, AccountsWritten, Optional
    <2>10. QuotasWritten(x)'
        BY <1>1, <1>4, <1>9, <1>10, <1>15, RowFacts DEF Working, QuotasWritten
    <2>11. PassesWritten(x)'
        BY <1>1, <1>4, <1>11, <1>15, RowFacts DEF Working, PassesWritten
    <2> QED BY <2>1, <2>2, <2>5, <2>7, <2>8, <2>9, <2>10, <2>11 DEF Working
<1> QED BY <1>1, <1>5, <1>6, <1>15 DEF SessionInv

-----------------------------------------------------------------------------
\* Statements after which the transaction goes on

\* s goes n statements on with the uncommitted versions D and the plan pl.
Continues(s, n, D, pl) ==
    /\ committed' = committed /\ bill' = bill /\ stage' = stage
    /\ usage' = usage /\ posted' = posted
    /\ at' \in [Session -> Nat \ {0}] /\ plan' \in [Session -> PlanType]
    /\ DOMAIN view' = Session /\ DOMAIN draft' = Session /\ DOMAIN locks' = Row /\ DOMAIN D = Row
    /\ at'[s] = at[s] + n /\ plan'[s] = pl /\ draft'[s] = D
    /\ view'[s] \in {view[s], ViewOf(s)}
    /\ \A r \in Row : locks'[r] = locks[r] \/ (LockIsFree(s, r) /\ locks'[r] = s)
    /\ \A x \in Session : x # s => /\ at'[x] = at[x] /\ plan'[x] = plan[x]
                                   /\ draft'[x] = draft[x] /\ view'[x] = view[x]

LEMMA ViewStep ==
    ASSUME NEW s \in Session, DOMAIN view = Session, UNCHANGED view \/ FixView(s)
    PROVE  /\ DOMAIN view' = Session /\ view'[s] \in {view[s], ViewOf(s)}
           /\ \A x \in Session : x # s => view'[x] = view[x]
<1>1. CASE view' = view
    BY <1>1
<1>2. CASE FixView(s)
    <2>1. view' = [view EXCEPT ![s] = ViewOf(s)]
        BY <1>2 DEF FixView
    <2> QED BY <2>1
<1> QED BY <1>1, <1>2

LEMMA LockStep ==
    ASSUME NEW s \in Session, DOMAIN locks = Row,
           UNCHANGED locks \/ \E r \in Row : LockIsFree(s, r) /\ TakeLock(s, r)
    PROVE  /\ DOMAIN locks' = Row
           /\ \A r \in Row : locks'[r] = locks[r] \/ (LockIsFree(s, r) /\ locks'[r] = s)
<1>1. CASE locks' = locks
    <2>1. DOMAIN locks' = Row
        BY <1>1
    <2>2. ASSUME NEW r \in Row PROVE locks'[r] = locks[r]
        BY <1>1
    <2> QED BY <2>1, <2>2, Zenon
<1>2. ASSUME NEW r \in Row, LockIsFree(s, r), TakeLock(s, r)
      PROVE  /\ DOMAIN locks' = Row
             /\ \A x \in Row : locks'[x] = locks[x] \/ (LockIsFree(s, x) /\ locks'[x] = s)
    <2>1. locks' = [locks EXCEPT ![r] = s]
        BY <1>2 DEF TakeLock
    <2>2. DOMAIN locks' = Row
        BY <2>1
    <2>3. locks'[r] = s
        BY <2>1
    <2>4. ASSUME NEW x \in Row, x # r PROVE locks'[x] = locks[x]
        BY <2>1, <2>4
    <2> QED BY <1>2, <2>2, <2>3, <2>4, Zenon
<1> QED BY <1>1, <1>2, Zenon

\* The uncommitted versions of s become D.
Drafted(s, D) ==
    /\ DOMAIN draft' = Session /\ DOMAIN D = Row /\ draft'[s] = D
    /\ \A x \in Session : x # s => draft'[x] = draft[x]

Planned(s, pl) ==
    /\ plan' \in [Session -> PlanType] /\ plan'[s] = pl
    /\ \A x \in Session : x # s => plan'[x] = plan[x]

LEMMA AdvanceContinues ==
    ASSUME Tabular, NEW s \in Session, NEW n \in Nat, Advance(s, n), NEW D, NEW pl,
           UNCHANGED <<committed, usage, posted>>,
           UNCHANGED view \/ FixView(s),
           UNCHANGED locks \/ \E r \in Row : LockIsFree(s, r) /\ TakeLock(s, r),
           Drafted(s, D), Planned(s, pl)
    PROVE  Continues(s, n, D, pl)
<1>1. DOMAIN view = Session /\ DOMAIN locks = Row /\ at \in [Session -> Nat \ {0}]
    BY DEF Tabular
<1>2. at' = [at EXCEPT ![s] = at[s] + n]
    BY DEF Advance
<1>3. /\ at' \in [Session -> Nat \ {0}] /\ at'[s] = at[s] + n
      /\ \A x \in Session : x # s => at'[x] = at[x]
    <2>1. at[s] + n \in Nat \ {0}
        BY <1>1
    <2> HIDE DEF Drafted, Planned
    <2> QED BY <1>1, <1>2, <2>1
<1>4. /\ DOMAIN view' = Session /\ view'[s] \in {view[s], ViewOf(s)}
      /\ \A x \in Session : x # s => view'[x] = view[x]
    BY <1>1, ViewStep
<1>5. /\ DOMAIN locks' = Row
      /\ \A r \in Row : locks'[r] = locks[r] \/ (LockIsFree(s, r) /\ locks'[r] = s)
    BY <1>1, LockStep
<1>6. UNCHANGED <<committed, bill, stage, usage, posted>>
    BY DEF Advance
<1> QED BY <1>3, <1>4, <1>5, <1>6 DEF Continues, Drafted, Planned

LEMMA Drafts ==
    ASSUME Tabular, NEW s \in Session
    PROVE  /\ UNCHANGED draft => Drafted(s, draft[s])
           /\ \A r, v : Write(s, r, v) => Drafted(s, [draft[s] EXCEPT ![r] = v])
           /\ UNCHANGED plan => Planned(s, plan[s])
           /\ \A pl \in PlanType : plan' = [plan EXCEPT ![s] = pl] => Planned(s, pl)
<1>1. DOMAIN draft = Session /\ DOMAIN draft[s] = Row /\ plan \in [Session -> PlanType]
    BY DEF Tabular
<1>2. UNCHANGED draft => Drafted(s, draft[s])
    BY <1>1 DEF Drafted
<1>3. ASSUME NEW r, NEW v, Write(s, r, v) PROVE Drafted(s, [draft[s] EXCEPT ![r] = v])
    <2>1. draft' = [draft EXCEPT ![s] = [draft[s] EXCEPT ![r] = v]]
        BY <1>3 DEF Write
    <2> DEFINE D == [draft[s] EXCEPT ![r] = v]
    <2>2. DOMAIN D = Row
        BY <1>1
    <2> HIDE DEF D
    <2>3. DOMAIN draft' = Session /\ draft'[s] = D /\ \A x \in Session : x # s => draft'[x] = draft[x]
        BY <1>1, <2>1 DEF D
    <2>4. Drafted(s, D)
        BY <2>2, <2>3 DEF Drafted
    <2> QED BY <2>4 DEF D
<1>4. UNCHANGED plan => Planned(s, plan[s])
    BY <1>1 DEF Planned
<1>5. ASSUME NEW pl \in PlanType, plan' = [plan EXCEPT ![s] = pl] PROVE Planned(s, pl)
    BY <1>1, <1>5 DEF Planned
<1> QED BY <1>2, <1>3, <1>4, <1>5

\* A statement that goes on keeps the invariant if it keeps what it says of its session.
LEMMA ContinueKeeps ==
    ASSUME SettlementInv, NEW s \in Session, stage[s] = "work", NEW n, NEW D, NEW pl,
           Continues(s, n, D, pl), DraftsLocked(s)', Working(s)'
    PROVE  SettlementInv'
<1>1. Tabular /\ CommittedFits /\ \A x \in Session : SessionInv(x)
    BY DEF SettlementInv
<1>2. Tabular'
    <2>1. \A x \in Session : DOMAIN draft'[x] = Row
        BY <1>1 DEF Continues, Tabular
    <2> QED BY <1>1, <2>1 DEF Continues, Tabular
<1>3. CommittedFits'
    BY <1>1 DEF Continues, CommittedFits
<1>4. ViewOlder(s)'
    <2>1. ViewOlder(s) /\ view'[s] \in {view[s], ViewOf(s)} /\ committed' = committed
        BY <1>1 DEF SessionInv, Continues
    <2>2. CASE view'[s] = view[s]
        BY <2>1, <2>2 DEF ViewOlder
    <2>3. CASE view'[s] = ViewOf(s) /\ view[s] = NoView
        BY <1>1, <2>1, <2>3 DEF ViewOlder, ViewOf, CommittedFits
    <2>4. CASE view'[s] = ViewOf(s) /\ view[s] # NoView
        BY <2>1, <2>4 DEF ViewOlder, ViewOf
    <2> QED BY <2>1, <2>2, <2>3, <2>4
<1>5. SessionInv(s)'
    BY <1>4 DEF SessionInv, Continues
<1>6. ASSUME NEW x \in Session, x # s PROVE SessionInv(x)'
    <2>1. Untouched(x)
        <3>1. \A r \in Row : locks'[r] = x <=> locks[r] = x
            BY <1>6, TxAssumption DEF Continues, LockIsFree
        <3> QED BY <1>6, <3>1 DEF Continues, Untouched
    <2> QED BY <1>1, <2>1, UntouchedKeeps
<1>7. /\ UsageSound' /\ (posted \in [User -> Int])'
      /\ ChargedOnce' /\ TokensMatchUsage' /\ BalancesMatchLedger' /\ PassesMatchUsage'
    <2>1. /\ UsageSound /\ posted \in [User -> Int]
          /\ ChargedOnce /\ TokensMatchUsage /\ BalancesMatchLedger /\ PassesMatchUsage
        BY DEF SettlementInv
    <2>2. committed' = committed /\ usage' = usage /\ posted' = posted
        BY DEF Continues
    <2>3. UsageSound' /\ (posted \in [User -> Int])' /\ ChargedOnce'
        BY <2>1, <2>2 DEF UsageSound, ChargedOnce
    <2>4. BalancesMatchLedger'
        BY <2>1, <2>2 DEF BalancesMatchLedger
    <2>5. TokensMatchUsage'
        BY <2>1, <2>2, Zenon DEF TokensMatchUsage
    <2>6. PassesMatchUsage'
        BY <2>1, <2>2, Zenon DEF PassesMatchUsage
    <2> QED BY <2>1, <2>3, <2>4, <2>5, <2>6
<1> QED BY <1>2, <1>3, <1>5, <1>6, <1>7 DEF SettlementInv

-----------------------------------------------------------------------------
\* What a statement that goes on leaves as it was

\* The statement a session is at.
LEMMA Now ==
    ASSUME Tabular, NEW s \in Session, Doing(s) # "none"
    PROVE  /\ stage[s] = "work" /\ bill[s] \in Bill
           /\ at[s] \in 1 .. Len(Program[bill[s]]) /\ Len(Program[bill[s]]) \in Nat
           /\ Doing(s) = Program[bill[s]][at[s]].do /\ Target(s) = Program[bill[s]][at[s]].row
           /\ Follows(bill[s], at[s]) /\ Works(bill[s], at[s])
<1>1. stage[s] = "work" /\ ~Finished(s) /\ Doing(s) = Program[bill[s]][at[s]].do
    BY DEF Doing
<1>2. bill[s] \in Bill /\ at[s] \in Nat \ {0}
    BY DEF Tabular
<1>3. Len(Program[bill[s]]) \in Nat
    BY <1>2, Lengths
<1>4. at[s] \in 1 .. Len(Program[bill[s]])
    BY <1>1, <1>2, <1>3 DEF Finished
<1> QED BY <1>1, <1>2, <1>3, <1>4, Shape DEF Target

\* The statement it goes on to.
LEMMA Then ==
    ASSUME Tabular, NEW s \in Session, Doing(s) # "none", NEW n \in {0, 1, 2, 3}, NEW D, NEW pl,
           Continues(s, n, D, pl)
    PROVE  /\ bill'[s] = bill[s] /\ stage'[s] = "work" /\ at'[s] = at[s] + n /\ at[s] \in Nat \ {0}
           /\ Doing(s)' = IF at[s] + n > Len(Program[bill[s]]) THEN "none"
                          ELSE Program[bill[s]][at[s] + n].do
           /\ Target(s)' = Program[bill[s]][at[s] + n].row
           /\ (Charging(s)' <=> Charging(s)) /\ Claimed(s)' = Claimed(s)
           /\ \A t : Own(s, t)' = Own(s, t)
<1>1. stage[s] = "work" /\ bill' = bill /\ stage' = stage /\ at'[s] = at[s] + n
    BY Now DEF Continues
<1>2. at[s] \in Nat \ {0}
    BY DEF Tabular
<1> QED BY <1>1, <1>2 DEF Doing, Target, Finished, Charging, Claimed, Own

\* Where the statements of a charge are.
LEMMA Places ==
    ASSUME NEW b \in Bill, b.op = "charge", NEW n \in 1 .. Len(Program[b])
    PROVE  LET d == Program[b][n].do
           IN  /\ d = "find" => n \in {1, 6} \/ n >= 18
               /\ d = "insert" => n \in {2, 7} \/ n >= 18
               /\ d = "count" => n \in {3, 8} \/ n >= 18
               /\ d = "tally" => n \in {4, 9} \/ n >= 18
               /\ d = "spend" => n >= 17
<1>1. n \in Nat
    BY Lengths
<1>2. CASE n >= 18
    BY <1>2
<1> DEFINE d == Program[b][n].do
<1>3. CASE n \in 1 .. 9
    <2>1. n = 1 => d = "find"
        <3>1. n = 1 => IsLine(b, n, "find", <<Root(b), b.id>>)
            BY ChargeLine, Zenon
        <3> QED BY <3>1 DEF IsLine
    <2>2. n = 2 => d = "insert"
        <3>1. n = 2 => IsLine(b, n, "insert", <<Root(b), b.id>>)
            BY ChargeLine, Zenon
        <3> QED BY <3>1 DEF IsLine
    <2>3. n = 3 => d = "count"
        <3>1. n = 3 => IsLine(b, n, "count", <<Root(b), b.id>>)
            BY ChargeLine, Zenon
        <3> QED BY <3>1 DEF IsLine
    <2>4. n = 4 => d = "tally"
        <3>1. n = 4 => IsLine(b, n, "tally", Root(b))
            BY ChargeLine, Zenon
        <3> QED BY <3>1 DEF IsLine
    <2>5. n = 5 => d = "claim"
        <3>1. n = 5 => IsLine(b, n, "claim", <<Root(b), b.id>>)
            BY ChargeLine, Zenon
        <3> QED BY <3>1 DEF IsLine
    <2>6. n = 6 => d = "find"
        <3>1. n = 6 => IsLine(b, n, "find", <<Leaf(b), b.id>>)
            BY ChargeLine, Zenon
        <3> QED BY <3>1 DEF IsLine
    <2>7. n = 7 => d = "insert"
        <3>1. n = 7 => IsLine(b, n, "insert", <<Leaf(b), b.id>>)
            BY ChargeLine, Zenon
        <3> QED BY <3>1 DEF IsLine
    <2>8. n = 8 => d = "count"
        <3>1. n = 8 => IsLine(b, n, "count", <<Leaf(b), b.id>>)
            BY ChargeLine, Zenon
        <3> QED BY <3>1 DEF IsLine
    <2>9. n = 9 => d = "tally"
        <3>1. n = 9 => IsLine(b, n, "tally", Leaf(b))
            BY ChargeLine, Zenon
        <3> QED BY <3>1 DEF IsLine
    <2> HIDE DEF d
    <2>10. /\ d = "find" => n \in {1, 6}
           /\ d = "insert" => n \in {2, 7}
           /\ d = "count" => n \in {3, 8}
           /\ d = "tally" => n \in {4, 9}
           /\ d # "spend"
        BY <1>3, <2>1, <2>2, <2>3, <2>4, <2>5, <2>6, <2>7, <2>8, <2>9
    <2> QED BY <2>10 DEF d
<1>4. CASE n \in 10 .. 17
    <2>10. n = 10 => d = "plan"
        <3>1. n = 10 => IsLine(b, n, "plan", b.user)
            BY ChargeLine, Zenon
        <3> QED BY <3>1 DEF IsLine
    <2>11. n = 11 => d = "lock"
        <3>1. n = 11 => IsLine(b, n, "lock", b.user)
            BY ChargeLine, Zenon
        <3> QED BY <3>1 DEF IsLine
    <2>12. n = 12 => d = "cover"
        <3>1. n = 12 => IsLine(b, n, "cover", b.user)
            BY ChargeLine, Zenon
        <3> QED BY <3>1 DEF IsLine
    <2>13. n = 13 => d = "debit"
        <3>1. n = 13 => IsLine(b, n, "debit", b.user)
            BY ChargeLine, Zenon
        <3> QED BY <3>1 DEF IsLine
    <2>14. n = 14 => d = "findPayee"
        <3>1. n = 14 => IsLine(b, n, "findPayee", b.provider)
            BY ChargeLine, Zenon
        <3> QED BY <3>1 DEF IsLine
    <2>15. n = 15 => d = "insertPayee"
        <3>1. n = 15 => IsLine(b, n, "insertPayee", b.provider)
            BY ChargeLine, Zenon
        <3> QED BY <3>1 DEF IsLine
    <2>16. n = 16 => d = "pay"
        <3>1. n = 16 => IsLine(b, n, "pay", b.provider)
            BY ChargeLine, Zenon
        <3> QED BY <3>1 DEF IsLine
    <2>17. n = 17 => d = "spend"
        <3>1. n = 17 => IsLine(b, n, "spend", Leaf(b))
            BY ChargeLine, Zenon
        <3> QED BY <3>1 DEF IsLine
    <2> HIDE DEF d
    <2>18. d \notin {"find", "insert", "count", "tally"} /\ (d = "spend" => n >= 17)
        BY <1>4, <2>10, <2>11, <2>12, <2>13, <2>14, <2>15, <2>16, <2>17
    <2> QED BY <2>18 DEF d
<1>5. n \in 1 .. 9 \/ n \in 10 .. 17 \/ n >= 18
    BY <1>1
<1> QED BY <1>2, <1>3, <1>4, <1>5

\* A session at a statement.
At(s) == SettlementInv /\ s \in Session /\ Doing(s) # "none"

LEMMA Here ==
    ASSUME NEW s, At(s)
    PROVE  /\ s \in Session /\ Tabular /\ CommittedFits /\ DraftsLocked(s) /\ ViewOlder(s)
           /\ stage[s] = "work" /\ Doing(s) # "none"
           /\ RequestsWritten(s) /\ CountersWritten(s) /\ RequestClaimed(s)
           /\ PlanFollowed(s) /\ AccountsWritten(s) /\ QuotasWritten(s) /\ PassesWritten(s)
           /\ plan[s] \in PlanType
<1>1. s \in Session /\ Tabular /\ CommittedFits /\ SessionInv(s) /\ Doing(s) # "none"
    BY DEF At, SettlementInv
<1>2. stage[s] = "work"
    BY <1>1 DEF Doing
<1>3. plan[s] \in PlanType
    BY <1>1 DEF Tabular
<1> QED BY <1>1, <1>2, <1>3 DEF SessionInv, Working

\* The versions a statement writes are its own.
Locked(s, D) == \A r \in Row : D[r] = draft[s][r] \/ (locks'[r] = s /\ Fits(r, D[r]))

LEMMA DraftsKept ==
    ASSUME NEW s, At(s), NEW n, NEW D, NEW pl, Continues(s, n, D, pl), Locked(s, D)
    PROVE  DraftsLocked(s)'
<1>1. DraftsLocked(s)
    BY Here
<1>2. \A r \in Row : locks[r] = s => locks'[r] = s
    BY DEF Continues
<1>3. draft'[s] = D
    BY DEF Continues
<1> QED BY <1>1, <1>2, <1>3 DEF DraftsLocked, Locked, Fits

LEMMA RequestsKept ==
    ASSUME NEW s, At(s), NEW n \in {0, 1, 2, 3}, NEW D, NEW pl, Continues(s, n, D, pl),
           Doing(s) # "count", \A q \in Logical : D[q] = draft[s][q]
    PROVE  RequestsWritten(s)'
<1>1. RequestsWritten(s) /\ Tabular /\ s \in Session /\ Doing(s) # "none"
    BY Here
<1>2. draft'[s] = D /\ committed' = committed /\ bill'[s] = bill[s]
    BY <1>1, Then DEF Continues
<1> QED BY <1>1, <1>2 DEF RequestsWritten

\* A statement that leaves the counters of the tokens alone.
SameCounters(s, D) ==
    \A t \in Token : D[t] = draft[s][t] \/ (D[t] # Clean /\ D[t].requests = Stored(s, t).requests)

LEMMA CountersKept ==
    ASSUME NEW s, At(s), NEW n \in {0, 1, 2, 3}, NEW D, NEW pl, Continues(s, n, D, pl),
           Doing(s) \notin {"count", "tally"}, Doing(s)' # "tally",
           \A q \in Logical : D[q] = draft[s][q], SameCounters(s, D)
    PROVE  CountersWritten(s)'
<1>1. RequestsWritten(s) /\ CountersWritten(s) /\ CommittedFits
      /\ Tabular /\ s \in Session /\ Doing(s) # "none"
    BY Here
<1>2. draft'[s] = D /\ committed' = committed /\ (\A t : Own(s, t)' = Own(s, t))
    BY <1>1, Then DEF Continues
<1>3. \A t \in Token : Own(s, t) \in Logical
    BY <1>1, OwnRows
<1>4. ASSUME NEW t \in Token PROVE ~Untallied(s, t) /\ ~Untallied(s, t)'
    <2>1. ~Untallied(s, t)
        BY DEF Untallied
    <2>2. draft'[s][Own(s, t)'] = draft[s][Own(s, t)]
        BY <1>2, <1>3
    <2>3. draft[s][Own(s, t)] # Clean => draft[s][Own(s, t)].counted
        BY <1>1, <1>3 DEF RequestsWritten
    <2>4. ~Untallied(s, t)'
        BY <2>2, <2>3 DEF Untallied
    <2> QED BY <2>1, <2>4
<1>5. ASSUME NEW t \in Token PROVE Inserted(s, t)' <=> Inserted(s, t)
    BY <1>2, <1>3 DEF Inserted
<1>6. ASSUME NEW t \in Token
      PROVE  IF D[t] = Clean THEN ~Inserted(s, t)
             ELSE D[t].requests = committed[t].requests + One(Inserted(s, t)) - 0
    <2>1. IF draft[s][t] = Clean THEN ~Inserted(s, t)
          ELSE draft[s][t].requests = committed[t].requests + One(Inserted(s, t)) - 0
        BY <1>1, <1>4 DEF CountersWritten, One
    <2>2. D[t] = draft[s][t] \/ (D[t] # Clean /\ D[t].requests = Stored(s, t).requests)
        BY DEF SameCounters
    <2>3. CASE D[t] = draft[s][t]
        BY <2>1, <2>3
    <2>4. CASE D[t] # Clean /\ D[t].requests = Stored(s, t).requests /\ draft[s][t] = Clean
        <3>1. Stored(s, t) = committed[t]
            BY <2>4 DEF Stored
        <3>2. committed[t] \in TokenVersion
            BY <1>1 DEF CommittedFits
        <3>3. committed[t].requests \in Int
            BY <3>2 DEF TokenVersion
        <3> QED BY <2>1, <2>4, <3>1, <3>3 DEF One
    <2>5. CASE D[t] # Clean /\ D[t].requests = Stored(s, t).requests /\ draft[s][t] # Clean
        <3>1. Stored(s, t) = draft[s][t]
            BY <2>5 DEF Stored
        <3> QED BY <2>1, <2>5, <3>1
    <2> QED BY <2>2, <2>3, <2>4, <2>5
<1>7. ASSUME NEW t \in Token
      PROVE  (IF draft[s][t] = Clean THEN Inserted(s, t) <=> Untallied(s, t)
              ELSE draft[s][t].requests =
                     committed[t].requests + One(Inserted(s, t)) - One(Untallied(s, t)))'
    BY <1>2, <1>4, <1>5, <1>6 DEF One
<1> QED BY <1>7 DEF CountersWritten

\* A statement that is none of those that move money.
Aside(s, n) == ~Charging(s) \/ at[s] + n <= 10 \/ at[s] >= 17

LEMMA PlanKept ==
    ASSUME NEW s, At(s), NEW n \in {0, 1, 2, 3}, NEW D, Continues(s, n, D, plan[s]), Aside(s, n)
    PROVE  PlanFollowed(s)'
<1>1. PlanFollowed(s) /\ Tabular /\ s \in Session /\ Doing(s) # "none" /\ plan[s] \in PlanType
    BY Here
<1>2. /\ plan'[s] = plan[s] /\ at'[s] = at[s] + n /\ at[s] \in Nat \ {0}
      /\ (Charging(s)' <=> Charging(s))
    BY <1>1, Then DEF Continues
<1> QED
    <2>1. CASE ~Charging(s)
        <3>1. plan[s] = NoPlan
            BY <1>1, <2>1 DEF PlanFollowed
        <3>2. plan[s].next = 1 /\ plan[s].parts = <<>>
            BY <3>1 DEF NoPlan
        <3> QED BY <1>1, <1>2, <2>1, <3>1, <3>2 DEF PlanFollowed
    <2>2. CASE at[s] + n <= 10
        <3>1. at[s] <= 10 /\ at'[s] <= 10
            BY <1>2, <2>2
        <3>2. ~(at'[s] > 12) /\ at[s] < 12
            BY <1>2, <3>1
        <3> QED BY <1>1, <1>2, <3>1, <3>2 DEF PlanFollowed
    <2>3. CASE at[s] >= 17
        <3>1. ~(at'[s] <= 10) /\ ~(at'[s] < 12) /\ at[s] > 12 /\ ~(at[s] <= 10)
            BY <1>2, <2>3
        <3> QED BY <1>1, <1>2, <3>1 DEF PlanFollowed
    <2> QED BY <2>1, <2>2, <2>3 DEF Aside

LEMMA AccountsKept ==
    ASSUME NEW s, At(s), NEW n \in {0, 1, 2, 3}, NEW D, Continues(s, n, D, plan[s]), Aside(s, n),
           \A u \in User : D[u] = draft[s][u]
    PROVE  AccountsWritten(s)'
<1>1. AccountsWritten(s) /\ Tabular /\ s \in Session /\ Doing(s) # "none"
    BY Here
<1>2. /\ plan'[s] = plan[s] /\ at'[s] = at[s] + n /\ at[s] \in Nat \ {0} /\ bill'[s] = bill[s]
      /\ (Charging(s)' <=> Charging(s)) /\ draft'[s] = D /\ committed' = committed
    BY <1>1, Then DEF Continues
<1>3. Commission(s)' = Commission(s)
    BY <1>2 DEF Commission
<1>4. /\ (Charging(s) => (at'[s] > 13 <=> at[s] > 13) /\ (at'[s] > 16 <=> at[s] > 16)
                          /\ at'[s] \notin {12, 13, 15, 16})
    BY <1>2 DEF Aside
<1>5. \A u \in User : Moved(s, u)' = Moved(s, u)
    BY <1>2, <1>3, <1>4 DEF Moved
<1> QED BY <1>1, <1>2, <1>4, <1>5 DEF AccountsWritten

\* A statement that leaves the quota of the tokens alone.
SameQuotas(s, D) ==
    \A t \in Token : D[t] = draft[s][t] \/ (D[t] # Clean /\ D[t].quota = Stored(s, t).quota)

LEMMA QuotasKept ==
    ASSUME NEW s, At(s), NEW n \in {0, 1, 2, 3}, NEW D, NEW pl, Continues(s, n, D, pl),
           pl.covered = plan[s].covered, pl.left = plan[s].left,
           \A m \in at[s] .. at[s] + n - 1 : Program[bill[s]][m].do # "spend",
           SameQuotas(s, D)
    PROVE  QuotasWritten(s)'
<1>1. QuotasWritten(s) /\ Tabular /\ CommittedFits /\ s \in Session /\ Doing(s) # "none"
      /\ plan[s] \in PlanType
    BY Here
<1>2. /\ plan'[s] = pl /\ at'[s] = at[s] + n /\ at[s] \in Nat \ {0} /\ bill'[s] = bill[s]
      /\ draft'[s] = D /\ committed' = committed
    BY <1>1, Then DEF Continues
<1>3. Cost(s)' = Cost(s) /\ Cost(s) \in Int
    BY <1>1, <1>2 DEF Cost, PlanType
<1>4. \A t : Spent(s, t)' <=> Spent(s, t)
    <2> TAKE t
    <2>1. \A m \in 1 .. at[s] + n - 1 : m \in 1 .. at[s] - 1 \/ Program[bill[s]][m].do # "spend"
        BY <1>2
    <2>2. \A m \in 1 .. at[s] - 1 : m \in 1 .. at[s] + n - 1
        BY <1>2
    <2>3. Spent(s, t)' <=> \E m \in 1 .. at[s] + n - 1 : /\ Program[bill[s]][m].do = "spend"
                                                         /\ Program[bill[s]][m].row = t
        BY <1>2 DEF Spent
    <2> QED BY <2>1, <2>2, <2>3, Zenon DEF Spent
<1>5. ASSUME NEW t \in Token
      PROVE  IF D[t] = Clean THEN Spent(s, t) => Cost(s) = 0
             ELSE D[t].quota = committed[t].quota + (IF Spent(s, t) THEN Cost(s) ELSE 0)
    <2>1. IF draft[s][t] = Clean THEN Spent(s, t) => Cost(s) = 0
          ELSE draft[s][t].quota = committed[t].quota + (IF Spent(s, t) THEN Cost(s) ELSE 0)
        BY <1>1 DEF QuotasWritten
    <2>2. D[t] = draft[s][t] \/ (D[t] # Clean /\ D[t].quota = Stored(s, t).quota)
        BY DEF SameQuotas
    <2>3. CASE D[t] = draft[s][t]
        BY <2>1, <2>3
    <2>4. CASE D[t] # Clean /\ D[t].quota = Stored(s, t).quota /\ draft[s][t] = Clean
        <3>1. Stored(s, t) = committed[t]
            BY <2>4 DEF Stored
        <3>2. committed[t] \in TokenVersion
            BY <1>1 DEF CommittedFits
        <3>3. committed[t].quota \in Int
            BY <3>2 DEF TokenVersion
        <3> QED BY <2>1, <2>4, <3>1, <3>3
    <2>5. CASE D[t] # Clean /\ D[t].quota = Stored(s, t).quota /\ draft[s][t] # Clean
        <3>1. Stored(s, t) = draft[s][t]
            BY <2>5 DEF Stored
        <3> QED BY <2>1, <2>5, <3>1
    <2> QED BY <2>2, <2>3, <2>4, <2>5
<1>6. ASSUME NEW t \in Token
      PROVE  (IF draft[s][t] = Clean THEN Spent(s, t) => Cost(s) = 0
              ELSE draft[s][t].quota = committed[t].quota + (IF Spent(s, t) THEN Cost(s) ELSE 0))'
    BY <1>2, <1>3, <1>4, <1>5
<1> QED BY <1>6 DEF QuotasWritten

LEMMA PassesKept ==
    ASSUME NEW s, At(s), NEW n \in {0, 1, 2, 3}, NEW D, NEW pl, Continues(s, n, D, pl),
           pl.parts = plan[s].parts, pl.next = plan[s].next,
           \A p \in Pass : D[p] = draft[s][p]
    PROVE  PassesWritten(s)'
<1>1. PassesWritten(s) /\ s \in Session
    BY Here
<1>2. plan'[s] = pl /\ draft'[s] = D /\ committed' = committed
    BY <1>1 DEF Continues
<1>3. \A p : Taken(s, p)' = Taken(s, p)
    BY <1>2 DEF Taken
<1>4. ASSUME NEW p \in Pass
      PROVE  (IF draft[s][p] = Clean THEN Taken(s, p) = 0
              ELSE /\ draft[s][p].remaining >= 0
                   /\ draft[s][p].remaining = committed[p].remaining - Taken(s, p)
                   /\ draft[s][p].used = committed[p].used + Taken(s, p))'
    <2> HIDE DEF Taken
    <2>1. D[p] = draft[s][p] /\ Taken(s, p)' = Taken(s, p)
        BY <1>3
    <2>2. IF draft[s][p] = Clean THEN Taken(s, p) = 0
          ELSE /\ draft[s][p].remaining >= 0
               /\ draft[s][p].remaining = committed[p].remaining - Taken(s, p)
               /\ draft[s][p].used = committed[p].used + Taken(s, p)
        BY <1>1 DEF PassesWritten
    <2> QED BY <1>2, <2>1, <2>2
<1> QED BY <1>4 DEF PassesWritten

\* A statement that keeps the session's requests, settled if they were.
KeepsClaims(s, D) ==
    \A q \in Logical : draft[s][q] # Clean => D[q] # Clean /\ (draft[s][q].settled => D[q].settled)

LEMMA ClaimKept ==
    ASSUME NEW s, At(s), NEW n \in {0, 1, 2, 3}, NEW D, NEW pl, Continues(s, n, D, pl),
           Doing(s)' = "count" => Stored(s, Target(s))' # NoRow,
           KeepsClaims(s, D),
           Charging(s) /\ at[s] + n \in {4, 5} =>
               locks'[Claimed(s)] = s /\ Stored(s, Claimed(s))' # NoRow,
           Charging(s) /\ at[s] + n > 5 => at[s] > 5
    PROVE  RequestClaimed(s)'
<1>1. RequestClaimed(s) /\ Tabular /\ s \in Session /\ Doing(s) # "none"
    BY Here
<1>2. /\ draft'[s] = D /\ committed' = committed /\ at'[s] = at[s] + n
      /\ (Charging(s)' <=> Charging(s)) /\ Claimed(s)' = Claimed(s)
    BY <1>1, Then DEF Continues
<1>3. Claimed(s) \in Logical
    BY <1>1, OwnRows
<1>4. Charging(s)' /\ at'[s] \in {4, 5} =>
        locks'[Claimed(s)'] = s /\ Stored(s, Claimed(s))' # NoRow
    BY <1>2
<1>5. Charging(s)' /\ at'[s] > 5 =>
         /\ draft'[s][Claimed(s)'] # Clean /\ draft'[s][Claimed(s)'].settled
         /\ committed'[Claimed(s)'] # NoRow => ~committed'[Claimed(s)'].settled
    <2>1. Charging(s) /\ at[s] > 5 =>
            /\ draft[s][Claimed(s)] # Clean /\ draft[s][Claimed(s)].settled
            /\ committed[Claimed(s)] # NoRow => ~committed[Claimed(s)].settled
        BY <1>1 DEF RequestClaimed
    <2>2. draft[s][Claimed(s)] # Clean =>
            D[Claimed(s)] # Clean /\ (draft[s][Claimed(s)].settled => D[Claimed(s)].settled)
        BY <1>3 DEF KeepsClaims
    <2> QED BY <1>2, <2>1, <2>2
<1>6. (Stored(s, Claimed(s)) # NoRow)' <=> Stored(s, Claimed(s))' # NoRow
    OBVIOUS
<1> QED BY <1>4, <1>5 DEF RequestClaimed

LEMMA NextTwo ==
    ASSUME NEW a \in Nat, NEW n \in {1, 2}, NEW m \in a .. a + n - 1
    PROVE  m = a \/ (n = 2 /\ m = a + 1)
    OBVIOUS

\* What is left to show of a statement about requests and their counters.
LEMMA AsideKeeps ==
    ASSUME NEW s, At(s), NEW n \in {1, 2}, NEW D, Continues(s, n, D, plan[s]),
           Doing(s) \in {"find", "insert", "count", "tally"}, Doing(s) = "tally" => n = 1,
           at[s] + n <= Len(Program[bill[s]]) + 1,
           n = 2 => Program[bill[s]][at[s] + 1].do # "spend",
           Locked(s, D), RequestsWritten(s)', CountersWritten(s)', RequestClaimed(s)',
           SameQuotas(s, D), \A r \in User \cup Pass : D[r] = draft[s][r]
    PROVE  SettlementInv'
<1>1. /\ SettlementInv /\ Tabular /\ s \in Session /\ Doing(s) # "none" /\ stage[s] = "work"
      /\ plan[s] \in PlanType
    BY Here DEF At
<1>2. /\ bill[s] \in Bill /\ at[s] \in 1 .. Len(Program[bill[s]]) /\ Len(Program[bill[s]]) \in Nat
      /\ Doing(s) = Program[bill[s]][at[s]].do
    BY <1>1, Now
<1>3. Aside(s, n)
    <2>1. CASE Charging(s)
        <3>1. \/ at[s] \in {1, 2, 3, 6, 7, 8} \/ at[s] >= 18
              \/ at[s] \in {4, 9} /\ Doing(s) = "tally"
            BY <1>2, <2>1, Places DEF Charging
        <3>2. at[s] \in {1, 2, 3, 6, 7, 8} => at[s] + n <= 10
            OBVIOUS
        <3>3. at[s] \in {4, 9} /\ n = 1 => at[s] + n <= 10
            OBVIOUS
        <3>4. at[s] + n <= 10 \/ at[s] >= 17
            <4>1. Doing(s) = "tally" => n = 1
                OBVIOUS
            <4>2. at[s] \in Int
                BY <1>2
            <4> QED BY <3>1, <3>2, <3>3, <4>1, <4>2
        <3> QED BY <3>4 DEF Aside
    <2> QED BY <2>1 DEF Aside
<1>4. n \in {0, 1, 2, 3}
    OBVIOUS
<1>5. PlanFollowed(s)' /\ AccountsWritten(s)'
    BY <1>3, <1>4, PlanKept, AccountsKept
<1>6. QuotasWritten(s)'
    <2>1. \A m \in at[s] .. at[s] + n - 1 : Program[bill[s]][m].do # "spend"
        <3> TAKE m \in at[s] .. at[s] + n - 1
        <3>1. m = at[s] \/ (n = 2 /\ m = at[s] + 1)
            <4>1. at[s] \in Nat
                BY <1>2
            <4> QED BY <4>1, NextTwo, Zenon
        <3> QED BY <1>2, <3>1
    <2> QED BY <1>4, <2>1, QuotasKept
<1>7. PassesWritten(s)'
    BY <1>4, PassesKept
<1>8. (at[s] <= Len(Program[bill[s]]) + 1)'
    <2>1. bill'[s] = bill[s] /\ at'[s] = at[s] + n
        BY <1>1, <1>4, Then
    <2> QED BY <2>1
<1>9. Working(s)'
    BY <1>5, <1>6, <1>7, <1>8 DEF Working
<1>10. DraftsLocked(s)'
    BY DraftsKept
<1> QED BY <1>1, <1>9, <1>10, ContinueKeeps

\* The row a statement about a request works on.
LEMMA RequestRow ==
    ASSUME NEW s, At(s), Doing(s) \in {"find", "insert", "count"}
    PROVE  /\ Target(s) \in Logical /\ Target(s) \in Row /\ \E t \in Token : Target(s) = Own(s, t)
           /\ Target(s)[2] = bill[s].id
           /\ draft[s][Target(s)] # Clean => draft[s][Target(s)] \in RequestVersion
           /\ committed[Target(s)] # NoRow => /\ committed[Target(s)] \in RequestVersion
                                              /\ committed[Target(s)].counted
<1>1. Tabular /\ s \in Session /\ Doing(s) # "none" /\ DraftsLocked(s) /\ CommittedFits
    BY Here
<1>2. \E t \in Token : Target(s) = Own(s, t)
    <2>1. /\ Works(bill[s], at[s]) /\ Doing(s) = Program[bill[s]][at[s]].do
          /\ Target(s) = Program[bill[s]][at[s]].row
        BY <1>1, Now
    <2>2. \E t \in Token : Program[bill[s]][at[s]].row = <<t, bill[s].id>>
        BY <2>1 DEF Works
    <2> QED BY <2>1, <2>2 DEF Own
<1>3. Target(s) \in Logical /\ Target(s)[2] = bill[s].id
    BY <1>1, <1>2, OwnRows DEF Own
<1>4. Target(s) \in Row
    BY <1>3, RowFacts
<1> QED BY <1>1, <1>2, <1>3, <1>4 DEF DraftsLocked, Fits, CommittedFits

LEMMA FindKeeps ==
    ASSUME NEW s, At(s), Doing(s) = "find", Find(s)
    PROVE  SettlementInv'
<1>1. /\ Tabular /\ s \in Session /\ Doing(s) # "none" /\ DraftsLocked(s) /\ ViewOlder(s)
      /\ CommittedFits
    BY Here
<1>2. /\ bill[s] \in Bill /\ at[s] \in 1 .. Len(Program[bill[s]]) /\ Len(Program[bill[s]]) \in Nat
      /\ Doing(s) = Program[bill[s]][at[s]].do /\ Target(s) = Program[bill[s]][at[s]].row
      /\ Follows(bill[s], at[s])
    BY <1>1, Now
<1>3. Target(s) \in Logical /\ Target(s) \in Row
    BY RequestRow
<1> DEFINE n == IF Seen(s, Target(s)) = NoRow THEN 1 ELSE 2
           D == draft[s]
<1>4. n \in {1, 2} /\ n \in Nat /\ n \in {0, 1, 2, 3}
    OBVIOUS
<1>5. Continues(s, n, D, plan[s])
    <2>1. FixView(s) /\ Advance(s, n) /\ UNCHANGED <<committed, draft, locks, plan, usage, posted>>
        BY DEF Find
    <2>2. Drafted(s, D) /\ Planned(s, plan[s])
        BY <1>1, <2>1, Drafts
    <2> HIDE DEF n, D
    <2> QED BY <1>1, <1>4, <2>1, <2>2, AdvanceContinues
<1>6. n = 2 => Stored(s, Target(s)) # NoRow
    <2>1. CASE draft[s][Target(s)] # Clean
        <3>1. draft[s][Target(s)] # NoRow
            BY <2>1, RequestRow, VersionFacts
        <3> QED BY <2>1, <3>1 DEF Stored
    <2>2. CASE draft[s][Target(s)] = Clean /\ n = 2
        <3>1. ViewOf(s)[Target(s)] # NoRow
            BY <2>2 DEF Seen
        <3>2. committed[Target(s)] # NoRow
            BY <1>1, <1>3, <3>1 DEF ViewOf, ViewOlder, Optional
        <3> QED BY <2>2, <3>2 DEF Stored
    <2> QED BY <2>1, <2>2
<1> HIDE DEF n
<1>7. /\ bill'[s] = bill[s] /\ at'[s] = at[s] + n
      /\ n = 1 => Doing(s)' = "insert"
      /\ n = 2 => Doing(s)' = "count" /\ Target(s)' = Target(s)
      /\ at[s] + n <= Len(Program[bill[s]]) + 1
      /\ Program[bill[s]][at[s] + 1].do = "insert"
    <2>1. /\ at[s] + 2 <= Len(Program[bill[s]])
          /\ Program[bill[s]][at[s] + 1].do = "insert"
          /\ Program[bill[s]][at[s] + 2].do = "count" /\ Program[bill[s]][at[s] + 2].row = Target(s)
        BY <1>2 DEF Follows
    <2> HIDE DEF D
    <2>2. /\ bill'[s] = bill[s] /\ at'[s] = at[s] + n /\ at[s] \in Nat \ {0}
          /\ Doing(s)' = IF at[s] + n > Len(Program[bill[s]]) THEN "none"
                          ELSE Program[bill[s]][at[s] + n].do
          /\ Target(s)' = Program[bill[s]][at[s] + n].row
        BY <1>1, <1>4, <1>5, Then
    <2>3. ~(at[s] + n > Len(Program[bill[s]]))
        BY <1>2, <1>4, <2>1
    <2> QED BY <1>2, <1>4, <2>1, <2>2, <2>3
<1>8. Locked(s, D) /\ SameQuotas(s, D) /\ SameCounters(s, D) /\ KeepsClaims(s, D)
    BY DEF Locked, SameQuotas, SameCounters, KeepsClaims
<1>9. RequestsWritten(s)'
    BY <1>4, <1>5, RequestsKept
<1>10. CountersWritten(s)'
    BY <1>4, <1>5, <1>7, <1>8, CountersKept
<1>11. RequestClaimed(s)'
    <2>1. Doing(s)' = "count" => Stored(s, Target(s))' # NoRow
        <3>1. Doing(s)' = "count" => Target(s)' = Target(s) /\ Stored(s, Target(s)) # NoRow
            BY <1>4, <1>6, <1>7
        <3>2. Stored(s, Target(s))' = Stored(s, Target(s)')
            BY <1>5 DEF Stored, Continues
        <3> QED BY <3>1, <3>2
    <2>2. Charging(s) => at[s] \in {1, 6} \/ at[s] >= 18
        BY <1>2, Places DEF Charging
    <2>3. Charging(s) => at[s] + n \notin {4, 5} /\ (at[s] + n > 5 => at[s] > 5)
        BY <1>2, <1>4, <2>2
    <2> HIDE DEF D
    <2> QED BY <1>4, <1>5, <1>8, <2>1, <2>3, ClaimKept
<1> QED BY <1>4, <1>5, <1>7, <1>8, <1>9, <1>10, <1>11, AsideKeeps

LEMMA GoesOn ==
    ASSUME NEW s, At(s), NEW n \in {0, 1, 2, 3}, NEW D, NEW pl, Continues(s, n, D, pl)
    PROVE  /\ bill'[s] = bill[s] /\ at'[s] = at[s] + n /\ (Charging(s)' <=> Charging(s))
           /\ draft'[s] = D /\ committed' = committed /\ plan'[s] = pl
           /\ Claimed(s)' = Claimed(s) /\ (\A t : Own(s, t)' = Own(s, t))
           /\ IF at[s] + n > Len(Program[bill[s]]) THEN Doing(s)' = "none"
              ELSE /\ Doing(s)' = Program[bill[s]][at[s] + n].do
                   /\ Target(s)' = Program[bill[s]][at[s] + n].row
<1>1. Tabular /\ s \in Session /\ Doing(s) # "none"
    BY Here
<1>2. draft'[s] = D /\ committed' = committed /\ plan'[s] = pl
    BY DEF Continues
<1>3. /\ bill'[s] = bill[s] /\ at'[s] = at[s] + n /\ (Charging(s)' <=> Charging(s))
      /\ Claimed(s)' = Claimed(s) /\ (\A t : Own(s, t)' = Own(s, t))
      /\ Doing(s)' = IF at[s] + n > Len(Program[bill[s]]) THEN "none"
                     ELSE Program[bill[s]][at[s] + n].do
      /\ Target(s)' = Program[bill[s]][at[s] + n].row
    BY <1>1, Then
<1> QED BY <1>2, <1>3

\* What a session is at, and what follows.
LEMMA Line ==
    ASSUME NEW s, At(s)
    PROVE  /\ bill[s] \in Bill /\ at[s] \in 1 .. Len(Program[bill[s]]) /\ Len(Program[bill[s]]) \in Nat
           /\ Doing(s) = Program[bill[s]][at[s]].do /\ Target(s) = Program[bill[s]][at[s]].row
           /\ Follows(bill[s], at[s]) /\ Works(bill[s], at[s])
BY Here, Now

LEMMA DistinctOwn ==
    ASSUME NEW s, NEW t, NEW u, Own(s, t) = Own(s, u)
    PROVE  t = u
BY DEF Own

\* The statement has the lock of the row it writes.
LEMMA WriteStep ==
    ASSUME NEW s, At(s), NEW n \in Nat, NEW r \in Row, NEW v, Fits(r, v),
           LockIsFree(s, r), TakeLock(s, r), Write(s, r, v), Advance(s, n),
           UNCHANGED <<committed, view, plan, usage, posted>>
    PROVE  LET D == [draft[s] EXCEPT ![r] = v]
           IN  /\ Continues(s, n, D, plan[s]) /\ Locked(s, D)
               /\ D[r] = v /\ (\A x \in Row : x # r => D[x] = draft[s][x])
               /\ locks'[r] = s
<1> DEFINE D == [draft[s] EXCEPT ![r] = v]
<1>1. Tabular /\ s \in Session
    BY Here
<1>2. Drafted(s, D) /\ Planned(s, plan[s])
    BY <1>1, Drafts
<1>3. Continues(s, n, D, plan[s])
    <2> HIDE DEF D
    <2> QED BY <1>1, <1>2, AdvanceContinues
<1>4. DOMAIN draft[s] = Row /\ DOMAIN locks = Row
    BY <1>1 DEF Tabular
<1>5. D[r] = v /\ (\A x \in Row : x # r => D[x] = draft[s][x])
    BY <1>4
<1>6. locks'[r] = s
    <2>1. locks' = [locks EXCEPT ![r] = s]
        BY DEF TakeLock
    <2> QED BY <1>4, <2>1
<1> HIDE DEF D
<1>7. Locked(s, D)
    BY <1>5, <1>6 DEF Locked
<1> QED BY <1>3, <1>5, <1>6, <1>7 DEF D

LEMMA InsertKeeps ==
    ASSUME NEW s, At(s), InsertRequest(s), Stored(s, Target(s)) = NoRow
    PROVE  SettlementInv'
<1> DEFINE q == Target(s)
           new == [counted |-> FALSE, settled |-> FALSE]
           D == [draft[s] EXCEPT ![q] = new]
<1>1. /\ s \in Session /\ Tabular /\ RequestsWritten(s) /\ CountersWritten(s)
      /\ RequestClaimed(s) /\ Doing(s) # "none"
    BY Here
<1>2. Doing(s) = "insert"
    BY DEF InsertRequest
<1>3. /\ q \in Logical /\ q \in Row /\ q[2] = bill[s].id
      /\ draft[s][q] # Clean => draft[s][q] \in RequestVersion
    BY <1>2, RequestRow
<1>4. PICK t \in Token : q = Own(s, t)
    BY <1>2, RequestRow
<1>5. draft[s][q] = Clean /\ committed[q] = NoRow
    BY <1>3, VersionFacts DEF Stored
<1>6. new \in RequestVersion /\ new # Clean /\ new # NoRow
    <2>1. new \in RequestVersion
        BY DEF RequestVersion
    <2> HIDE DEF new
    <2> QED BY <2>1, VersionFacts
<1>7. Fits(q, new)
    BY <1>3, <1>6, RowFacts DEF Fits
<1>8. /\ Continues(s, 1, D, plan[s]) /\ Locked(s, D)
      /\ D[q] = new /\ (\A x \in Row : x # q => D[x] = draft[s][x])
    <2>1. LockIsFree(s, q) /\ TakeLock(s, q) /\ Write(s, q, new) /\ Advance(s, 1)
          /\ UNCHANGED <<committed, view, plan, usage, posted>>
        BY DEF InsertRequest
    <2> HIDE DEF q, new
    <2> QED BY <1>3, <1>7, <2>1, WriteStep
<1> HIDE DEF D
<1>9. /\ bill[s] \in Bill /\ at[s] \in 1 .. Len(Program[bill[s]]) /\ Len(Program[bill[s]]) \in Nat
      /\ Doing(s) = Program[bill[s]][at[s]].do /\ q = Program[bill[s]][at[s]].row
      /\ Follows(bill[s], at[s])
    BY Line
<1>10. /\ at[s] + 1 <= Len(Program[bill[s]])
       /\ Program[bill[s]][at[s] + 1].do = "count" /\ Program[bill[s]][at[s] + 1].row = q
    BY <1>2, <1>9 DEF Follows
<1> HIDE DEF q
<1>11. /\ bill'[s] = bill[s] /\ draft'[s] = D /\ committed' = committed
       /\ Doing(s)' = "count" /\ Target(s)' = q /\ \A x : Own(s, x)' = Own(s, x)
    <2>1. ~(at[s] + 1 > Len(Program[bill[s]]))
        BY <1>9, <1>10
    <2> QED BY <1>8, <1>10, <2>1, GoesOn
<1>12. RequestsWritten(s)'
    <2>1. ASSUME NEW x \in Logical, D[x] # Clean
          PROVE  /\ x[2] = bill[s].id
                 /\ ~D[x].counted => x = q /\ committed[x] = NoRow
                 /\ committed[x] # NoRow /\ committed[x].settled => D[x].settled
        <3>1. CASE x = q
            BY <1>3, <1>5, <3>1
        <3>2. CASE x # q
            <4>1. D[x] = draft[s][x]
                BY <1>8, <3>2, RowFacts
            <4> QED BY <1>1, <1>2, <2>1, <4>1 DEF RequestsWritten
        <3> QED BY <3>1, <3>2
    <2> QED BY <1>11, <2>1 DEF RequestsWritten
<1>13. CountersWritten(s)'
    <2>1. ASSUME NEW u \in Token
          PROVE  (IF draft[s][u] = Clean THEN Inserted(s, u) <=> Untallied(s, u)
                  ELSE draft[s][u].requests =
                         committed[u].requests + One(Inserted(s, u)) - One(Untallied(s, u)))'
        <3>1. D[u] = draft[s][u]
            BY <1>3, <1>8, RowFacts
        <3>2. Own(s, u) \in Logical /\ Own(s, u) \in Row
            BY <1>1, OwnRows, RowFacts
        <3>3. CASE u = t
            <4>1. Inserted(s, u)' /\ Untallied(s, u)'
                BY <1>4, <1>5, <1>6, <1>8, <1>11, <3>3 DEF Inserted, Untallied, new
            <4>2. ~Inserted(s, u) /\ ~Untallied(s, u)
                BY <1>2, <1>4, <1>5, <3>3 DEF Inserted, Untallied
            <4>3. IF draft[s][u] = Clean THEN TRUE
                  ELSE draft[s][u].requests = committed[u].requests + 0 - 0
                BY <1>1, <4>2 DEF CountersWritten, One
            <4>4. One(Inserted(s, u)') = 1 /\ One(Untallied(s, u)') = 1
                BY <4>1 DEF One
            <4>5. draft[s][u] # Clean => draft[s][u].requests = committed[u].requests + 1 - 1
                BY <4>3
            <4> QED BY <1>11, <3>1, <4>1, <4>4, <4>5
        <3>4. CASE u # t
            <4>1. Own(s, u) # q
                BY <1>4, <3>4, DistinctOwn
            <4>2. ~Untallied(s, u) /\ ~Untallied(s, u)'
                BY <1>2, <1>11, <4>1 DEF Untallied
            <4>3. Inserted(s, u)' <=> Inserted(s, u)
                <5>1. D[Own(s, u)] = draft[s][Own(s, u)]
                    BY <1>8, <3>2, <4>1
                <5> QED BY <1>11, <5>1 DEF Inserted
            <4>4. IF draft[s][u] = Clean THEN ~Inserted(s, u)
                  ELSE draft[s][u].requests = committed[u].requests + One(Inserted(s, u)) - 0
                BY <1>1, <4>2 DEF CountersWritten, One
            <4> QED BY <1>11, <3>1, <4>2, <4>3, <4>4 DEF One
        <3> QED BY <3>3, <3>4
    <2> QED BY <2>1 DEF CountersWritten
<1>14. RequestClaimed(s)'
    <2>1. Stored(s, Target(s))' # NoRow
        BY <1>6, <1>8, <1>11 DEF Stored
    <2>2. KeepsClaims(s, D)
        BY <1>5, <1>8, RowFacts DEF KeepsClaims
    <2>3. Charging(s) => at[s] \in {2, 7} \/ at[s] >= 18
        BY <1>2, <1>9, Places DEF Charging
    <2>4. Charging(s) => at[s] + 1 \notin {4, 5} /\ (at[s] + 1 > 5 => at[s] > 5)
        BY <1>9, <2>3
    <2> QED BY <1>8, <2>1, <2>2, <2>4, ClaimKept
<1>15. SameQuotas(s, D) /\ \A r \in User \cup Pass : D[r] = draft[s][r]
    BY <1>3, <1>8, RowFacts DEF SameQuotas
<1>16. at[s] + 1 <= Len(Program[bill[s]]) + 1
    BY <1>9
<1> QED BY <1>2, <1>8, <1>12, <1>13, <1>14, <1>15, <1>16, AsideKeeps

\* updateMany that finds the request counted already writes nothing.
LEMMA CountSkips ==
    ASSUME NEW s, At(s), ClaimCount(s), AlreadyCounted(Stored(s, Target(s)))
    PROVE  SettlementInv'
<1> DEFINE q == Target(s)   D == draft[s]
<1>1. /\ s \in Session /\ Tabular /\ RequestsWritten(s) /\ CountersWritten(s)
      /\ RequestClaimed(s) /\ Doing(s) # "none"
    BY Here
<1>2. Doing(s) = "count" /\ Stored(s, q).counted
    BY DEF ClaimCount, AlreadyCounted
<1>3. q \in Logical /\ q \in Row
    BY <1>2, RequestRow
<1>4. Stored(s, q) # NoRow
    BY <1>1, <1>2 DEF RequestClaimed
<1>5. ASSUME NEW x \in Logical, draft[s][x] # Clean PROVE draft[s][x].counted
    <2>1. ~draft[s][x].counted => x = q
        BY <1>1, <1>5 DEF RequestsWritten
    <2>2. x = q => Stored(s, q) = draft[s][x]
        BY <1>5 DEF Stored
    <2> QED BY <1>2, <2>1, <2>2
<1>6. Continues(s, 2, D, plan[s]) /\ locks'[q] = s
    <2>1. LockIsFree(s, q) /\ TakeLock(s, q) /\ Advance(s, 2)
          /\ UNCHANGED <<committed, view, draft, plan, usage, posted>>
        BY <1>2 DEF ClaimCount, AlreadyCounted
    <2>2. Drafted(s, D) /\ Planned(s, plan[s])
        BY <1>1, <2>1, Drafts
    <2>3. Continues(s, 2, D, plan[s])
        <3> HIDE DEF D, q
        <3> QED BY <1>1, <1>3, <2>1, <2>2, AdvanceContinues
    <2>4. DOMAIN locks = Row /\ locks' = [locks EXCEPT ![q] = s]
        BY <1>1, <2>1 DEF Tabular, TakeLock
    <2>5. locks'[q] = s
        <3> HIDE DEF q
        <3> QED BY <1>3, <2>4
    <2> QED BY <2>3, <2>5
<1>7. /\ bill[s] \in Bill /\ at[s] \in 1 .. Len(Program[bill[s]]) /\ Len(Program[bill[s]]) \in Nat
      /\ Doing(s) = Program[bill[s]][at[s]].do /\ q = Program[bill[s]][at[s]].row
      /\ Follows(bill[s], at[s])
    BY Line
<1>8. /\ at[s] + 1 <= Len(Program[bill[s]])
      /\ Program[bill[s]][at[s] + 1].do = "tally"
      /\ at[s] + 2 <= Len(Program[bill[s]]) =>
           Program[bill[s]][at[s] + 2].do \notin {"count", "tally"}
    BY <1>2, <1>7 DEF Follows
<1>9. /\ bill'[s] = bill[s] /\ draft'[s] = D /\ committed' = committed
      /\ Doing(s)' \notin {"count", "tally"} /\ Claimed(s)' = Claimed(s)
      /\ \A x : Own(s, x)' = Own(s, x)
    <2> HIDE DEF D
    <2>1. /\ bill'[s] = bill[s] /\ draft'[s] = D /\ committed' = committed
          /\ Claimed(s)' = Claimed(s) /\ \A x : Own(s, x)' = Own(s, x)
          /\ IF at[s] + 2 > Len(Program[bill[s]]) THEN Doing(s)' = "none"
             ELSE Doing(s)' = Program[bill[s]][at[s] + 2].do
        BY <1>6, GoesOn
    <2>2. at[s] + 2 > Len(Program[bill[s]]) \/ at[s] + 2 <= Len(Program[bill[s]])
        BY <1>7
    <2> QED BY <1>8, <2>1, <2>2
<1>10. RequestsWritten(s)'
    <2>1. \A x \in Logical : draft[s][x] # Clean =>
            /\ x[2] = bill[s].id /\ draft[s][x].counted
            /\ committed[x] # NoRow /\ committed[x].settled => draft[s][x].settled
        BY <1>1, <1>5 DEF RequestsWritten
    <2> QED BY <1>9, <2>1 DEF RequestsWritten
<1>11. CountersWritten(s)'
    <2>1. ASSUME NEW u \in Token
          PROVE  (IF draft[s][u] = Clean THEN Inserted(s, u) <=> Untallied(s, u)
                  ELSE draft[s][u].requests =
                         committed[u].requests + One(Inserted(s, u)) - One(Untallied(s, u)))'
        <3>1. Own(s, u) \in Logical
            BY <1>1, OwnRows
        <3>2. ~Untallied(s, u) /\ ~Untallied(s, u)'
            BY <1>2, <1>5, <1>9, <3>1 DEF Untallied
        <3>3. Inserted(s, u)' <=> Inserted(s, u)
            BY <1>9 DEF Inserted
        <3>4. IF draft[s][u] = Clean THEN ~Inserted(s, u)
              ELSE draft[s][u].requests = committed[u].requests + One(Inserted(s, u)) - 0
            BY <1>1, <3>2 DEF CountersWritten, One
        <3> QED BY <1>9, <3>2, <3>3, <3>4 DEF One
    <2> QED BY <2>1 DEF CountersWritten
<1>12. RequestClaimed(s)'
    <2>1. KeepsClaims(s, D)
        BY DEF KeepsClaims
    <2>2. Charging(s) => at[s] \in {3, 8} \/ at[s] >= 18
        BY <1>2, <1>7, Places DEF Charging
    <2>3. Charging(s) => (at[s] + 2 \in {4, 5} => at[s] = 3) /\ (at[s] + 2 > 5 => at[s] > 5)
        BY <1>7, <2>2
    <2>4. Charging(s) /\ at[s] = 3 => Claimed(s) = q
        <3>1. Charging(s) => IsLine(bill[s], 3, "count", <<Root(bill[s]), bill[s].id>>)
            BY <1>7, ChargeLine, Zenon DEF Charging
        <3> QED BY <1>7, <3>1 DEF IsLine, Claimed, Own
    <2>6. Charging(s) /\ at[s] + 2 \in {4, 5} =>
            locks'[Claimed(s)] = s /\ Stored(s, Claimed(s))' # NoRow
        <3>1. Stored(s, Claimed(s))' = Stored(s, Claimed(s))
            BY <1>9 DEF Stored
        <3> QED BY <1>4, <1>6, <2>3, <2>4, <3>1
    <2> HIDE DEF D, q
    <2> QED BY <1>6, <1>9, <2>1, <2>3, <2>6, ClaimKept
<1>13. /\ SameQuotas(s, D) /\ Locked(s, D) /\ \A r \in User \cup Pass : D[r] = draft[s][r]
    BY DEF SameQuotas, Locked
<1>14. at[s] + 2 <= Len(Program[bill[s]]) + 1
    BY <1>7, <1>8
<1> HIDE DEF D
<1> QED BY <1>2, <1>6, <1>8, <1>10, <1>11, <1>12, <1>13, <1>14, AsideKeeps

LEMMA CountKeeps ==
    ASSUME NEW s, At(s), ClaimCount(s), ~AlreadyCounted(Stored(s, Target(s)))
    PROVE  SettlementInv'
<1> DEFINE q == Target(s)
           new == [Stored(s, q) EXCEPT !.counted = TRUE]
           D == [draft[s] EXCEPT ![q] = new]
<1>1. /\ s \in Session /\ Tabular /\ RequestsWritten(s) /\ CountersWritten(s)
      /\ RequestClaimed(s) /\ Doing(s) # "none"
    BY Here
<1>2. Doing(s) = "count" /\ ~Stored(s, q).counted
    BY DEF ClaimCount, AlreadyCounted
<1>3. /\ q \in Logical /\ q \in Row /\ q[2] = bill[s].id
      /\ draft[s][q] # Clean => draft[s][q] \in RequestVersion
      /\ committed[q] # NoRow => committed[q].counted
    BY <1>2, RequestRow
<1>4. draft[s][q] # Clean /\ Stored(s, q) = draft[s][q] /\ draft[s][q] \in RequestVersion
    <2>1. Stored(s, q) # NoRow
        BY <1>1, <1>2 DEF RequestClaimed
    <2> QED BY <1>2, <1>3, <2>1 DEF Stored
<1>5. committed[q] = NoRow
    BY <1>1, <1>2, <1>3, <1>4 DEF RequestsWritten
<1>6. new \in RequestVersion /\ new.counted /\ new.settled = draft[s][q].settled
    BY <1>4 DEF RequestVersion
<1> HIDE DEF new
<1>7. new # Clean /\ new # NoRow /\ Fits(q, new)
    BY <1>3, <1>6, VersionFacts, RowFacts DEF Fits
<1>8. /\ Continues(s, 1, D, plan[s]) /\ Locked(s, D)
      /\ D[q] = new /\ (\A x \in Row : x # q => D[x] = draft[s][x]) /\ locks'[q] = s
    <2>1. LockIsFree(s, q) /\ TakeLock(s, q) /\ Write(s, q, new) /\ Advance(s, 1)
          /\ UNCHANGED <<committed, view, plan, usage, posted>>
        BY <1>2 DEF ClaimCount, AlreadyCounted, new
    <2> HIDE DEF q
    <2> QED BY <1>3, <1>7, <2>1, WriteStep
<1> HIDE DEF D
<1>9. /\ bill[s] \in Bill /\ at[s] \in 1 .. Len(Program[bill[s]]) /\ Len(Program[bill[s]]) \in Nat
      /\ Doing(s) = Program[bill[s]][at[s]].do /\ q = Program[bill[s]][at[s]].row
      /\ Follows(bill[s], at[s])
    BY Line
<1>10. /\ at[s] + 1 <= Len(Program[bill[s]])
       /\ Program[bill[s]][at[s] + 1].do = "tally"
       /\ q = <<Program[bill[s]][at[s] + 1].row, bill[s].id>>
    BY <1>2, <1>9 DEF Follows
<1> HIDE DEF q
<1>11. /\ bill'[s] = bill[s] /\ draft'[s] = D /\ committed' = committed
       /\ Doing(s)' = "tally" /\ q = Own(s, Target(s)') /\ Claimed(s)' = Claimed(s)
       /\ \A x : Own(s, x)' = Own(s, x)
    <2>1. ~(at[s] + 1 > Len(Program[bill[s]]))
        BY <1>9, <1>10
    <2>2. /\ bill'[s] = bill[s] /\ draft'[s] = D /\ committed' = committed
          /\ Doing(s)' = "tally" /\ Target(s)' = Program[bill[s]][at[s] + 1].row
          /\ Claimed(s)' = Claimed(s)
          /\ \A x : Own(s, x)' = Own(s, x)
        BY <1>8, <1>10, <2>1, GoesOn
    <2> QED BY <1>10, <2>2 DEF Own
<1>12. RequestsWritten(s)'
    <2>1. ASSUME NEW x \in Logical, D[x] # Clean
          PROVE  /\ x[2] = bill[s].id /\ D[x].counted
                 /\ committed[x] # NoRow /\ committed[x].settled => D[x].settled
        <3>1. CASE x = q
            BY <1>3, <1>5, <1>6, <1>8, <3>1
        <3>2. CASE x # q
            <4>1. D[x] = draft[s][x]
                BY <1>8, <3>2, RowFacts
            <4> QED BY <1>1, <2>1, <3>2, <4>1 DEF RequestsWritten, q
        <3> QED BY <3>1, <3>2
    <2> QED BY <1>11, <2>1 DEF RequestsWritten
<1>13. CountersWritten(s)'
    <2>1. ASSUME NEW u \in Token
          PROVE  (IF draft[s][u] = Clean THEN Inserted(s, u) <=> Untallied(s, u)
                  ELSE draft[s][u].requests =
                         committed[u].requests + One(Inserted(s, u)) - One(Untallied(s, u)))'
        <3>1. D[u] = draft[s][u]
            BY <1>3, <1>8, RowFacts
        <3>2. Own(s, u) \in Logical /\ Own(s, u) \in Row
            BY <1>1, OwnRows, RowFacts
        <3>3. Untallied(s, u) <=> Own(s, u) = q
            BY <1>2, <1>4 DEF Untallied, q
        <3>4. Untallied(s, u)' <=> Own(s, u) = q
            BY <1>11, DistinctOwn DEF Untallied
        <3>5. Inserted(s, u)' <=> Inserted(s, u)
            BY <1>4, <1>7, <1>8, <1>11, <3>2 DEF Inserted
        <3> QED BY <1>1, <1>11, <3>1, <3>3, <3>4, <3>5 DEF CountersWritten, One
    <2> QED BY <2>1 DEF CountersWritten
<1>14. RequestClaimed(s)'
    <2>1. Doing(s)' # "count"
        BY <1>11
    <2>2. KeepsClaims(s, D)
        BY <1>4, <1>6, <1>7, <1>8, RowFacts DEF KeepsClaims
    <2>3. Charging(s) => at[s] \in {3, 8} \/ at[s] >= 18
        BY <1>2, <1>9, Places DEF Charging
    <2>4. Charging(s) => (at[s] + 1 \in {4, 5} => at[s] = 3) /\ (at[s] + 1 > 5 => at[s] > 5)
        BY <1>9, <2>3
    <2>5. Charging(s) /\ at[s] = 3 => Claimed(s) = q
        <3>1. Charging(s) => IsLine(bill[s], 3, "count", <<Root(bill[s]), bill[s].id>>)
            BY <1>9, ChargeLine, Zenon DEF Charging
        <3> QED BY <1>9, <3>1 DEF IsLine, Claimed, Own
    <2>7. Charging(s) /\ at[s] + 1 \in {4, 5} =>
            locks'[Claimed(s)] = s /\ Stored(s, Claimed(s))' # NoRow
        <3>1. Claimed(s) = q => Stored(s, Claimed(s))' = new
            BY <1>7, <1>8, <1>11 DEF Stored
        <3> QED BY <1>7, <1>8, <2>4, <2>5, <3>1
    <2> QED BY <1>8, <2>1, <2>2, <2>4, <2>7, ClaimKept
<1>15. SameQuotas(s, D) /\ \A r \in User \cup Pass : D[r] = draft[s][r]
    BY <1>3, <1>8, RowFacts DEF SameQuotas
<1>16. at[s] + 1 <= Len(Program[bill[s]]) + 1
    BY <1>9
<1> QED BY <1>2, <1>8, <1>12, <1>13, <1>14, <1>15, <1>16, AsideKeeps

\* The version of a token a session works on.
LEMMA TokenStored ==
    ASSUME NEW s, At(s), NEW t \in Token
    PROVE  Stored(s, t) \in TokenVersion /\ t \in Row
<1>1. DraftsLocked(s) /\ CommittedFits /\ t \in Row
    BY Here, RowFacts
<1>2. draft[s][t] # Clean => draft[s][t] \in TokenVersion
    BY <1>1 DEF DraftsLocked, Fits
<1>3. committed[t] \in TokenVersion
    BY <1>1 DEF CommittedFits
<1> QED BY <1>1, <1>2, <1>3 DEF Stored

LEMMA TallyKeeps ==
    ASSUME NEW s, At(s), Tally(s)
    PROVE  SettlementInv'
<1> DEFINE t == Target(s)
           new == [Stored(s, t) EXCEPT !.requests = @ + 1]
           D == [draft[s] EXCEPT ![t] = new]
<1>1. /\ s \in Session /\ Tabular /\ RequestsWritten(s) /\ CountersWritten(s)
      /\ RequestClaimed(s) /\ Doing(s) = "tally"
    BY Here DEF Tally
<1>2. /\ bill[s] \in Bill /\ at[s] \in 1 .. Len(Program[bill[s]]) /\ Len(Program[bill[s]]) \in Nat
      /\ Doing(s) = Program[bill[s]][at[s]].do /\ t = Program[bill[s]][at[s]].row
      /\ Follows(bill[s], at[s]) /\ Works(bill[s], at[s])
    BY Line
<1>3. t \in Token /\ t \in Row /\ t \notin Logical /\ t \notin User /\ t \notin Pass
    <2>1. t \in Token
        BY <1>1, <1>2 DEF Works
    <2> QED BY <2>1, RowFacts
<1>4. Stored(s, t) \in TokenVersion
    BY <1>3, TokenStored
<1>5. /\ new \in TokenVersion /\ new.requests = Stored(s, t).requests + 1
      /\ new.quota = Stored(s, t).quota /\ Stored(s, t).requests \in Int
    BY <1>4 DEF TokenVersion
<1> HIDE DEF new
<1>6. new # Clean /\ Fits(t, new)
    BY <1>3, <1>5, VersionFacts DEF Fits
<1>7. /\ Continues(s, 1, D, plan[s]) /\ Locked(s, D)
      /\ D[t] = new /\ (\A x \in Row : x # t => D[x] = draft[s][x])
    <2>1. LockIsFree(s, t) /\ TakeLock(s, t) /\ Write(s, t, new) /\ Advance(s, 1)
          /\ UNCHANGED <<committed, view, plan, usage, posted>>
        BY DEF Tally, new
    <2> HIDE DEF t
    <2> QED BY <1>3, <1>6, <2>1, WriteStep
<1> HIDE DEF D
<1>8. at[s] + 1 <= Len(Program[bill[s]]) =>
        Program[bill[s]][at[s] + 1].do \notin {"count", "tally"}
    BY <1>1, <1>2 DEF Follows
<1>9. /\ bill'[s] = bill[s] /\ draft'[s] = D /\ committed' = committed
      /\ Doing(s)' \notin {"count", "tally"} /\ Claimed(s)' = Claimed(s)
      /\ \A x : Own(s, x)' = Own(s, x)
    <2>1. /\ bill'[s] = bill[s] /\ draft'[s] = D /\ committed' = committed
          /\ Claimed(s)' = Claimed(s) /\ \A x : Own(s, x)' = Own(s, x)
          /\ IF at[s] + 1 > Len(Program[bill[s]]) THEN Doing(s)' = "none"
             ELSE Doing(s)' = Program[bill[s]][at[s] + 1].do
        BY <1>7, GoesOn
    <2>2. at[s] + 1 > Len(Program[bill[s]]) \/ at[s] + 1 <= Len(Program[bill[s]])
        BY <1>2
    <2> QED BY <1>8, <2>1, <2>2
<1> HIDE DEF t
<1>10. \A q \in Logical : D[q] = draft[s][q]
    BY <1>3, <1>7, RowFacts
<1>11. RequestsWritten(s)'
    BY <1>1, <1>7, <1>10, RequestsKept
<1>12. CountersWritten(s)'
    <2>1. ASSUME NEW u \in Token
          PROVE  (IF draft[s][u] = Clean THEN Inserted(s, u) <=> Untallied(s, u)
                  ELSE draft[s][u].requests =
                         committed[u].requests + One(Inserted(s, u)) - One(Untallied(s, u)))'
        <3>1. Own(s, u) \in Logical /\ u \in Row
            BY <1>1, OwnRows, RowFacts
        <3>2. ~Untallied(s, u)'
            <4>1. draft[s][Own(s, u)] # Clean => draft[s][Own(s, u)].counted
                BY <1>1, <3>1 DEF RequestsWritten
            <4> QED BY <1>9, <1>10, <3>1, <4>1 DEF Untallied
        <3>3. Untallied(s, u) <=> u = t
            BY <1>1 DEF Untallied, t
        <3>4. Inserted(s, u)' <=> Inserted(s, u)
            BY <1>9, <1>10, <3>1 DEF Inserted
        <3>5. CASE u = t
            <4>1. draft[s][u] = Clean => Stored(s, u) = committed[u] /\ One(Inserted(s, u)) = 1
                BY <1>1, <3>3, <3>5 DEF CountersWritten, Stored, One
            <4>2. draft[s][u] # Clean =>
                    /\ Stored(s, u) = draft[s][u]
                    /\ draft[s][u].requests = committed[u].requests + One(Inserted(s, u)) - 1
                BY <1>1, <3>3, <3>5 DEF CountersWritten, Stored, One
            <4>3. committed[u].requests \in Int
                <5>1. committed[u] \in TokenVersion
                    BY Here DEF CommittedFits
                <5> QED BY <5>1 DEF TokenVersion
            <4>4. One(Inserted(s, u)) \in Int
                BY DEF One
            <4>5. D[u].requests = committed[u].requests + One(Inserted(s, u)) - 0
                <5>1. D[u].requests = Stored(s, u).requests + 1
                    BY <1>5, <1>7, <3>5
                <5>2. CASE draft[s][u] = Clean
                    BY <4>1, <4>3, <5>1, <5>2
                <5>3. CASE draft[s][u] # Clean
                    BY <4>2, <4>3, <4>4, <5>1, <5>3
                <5> QED BY <5>2, <5>3
            <4>6. D[u] # Clean
                BY <1>6, <1>7, <3>5
            <4> QED BY <1>9, <3>2, <3>4, <4>5, <4>6 DEF One
        <3>6. CASE u # t
            <4>1. D[u] = draft[s][u]
                BY <1>7, <3>1, <3>6
            <4>2. IF draft[s][u] = Clean THEN ~Inserted(s, u)
                  ELSE draft[s][u].requests = committed[u].requests + One(Inserted(s, u)) - 0
                BY <1>1, <3>3, <3>6 DEF CountersWritten, One
            <4> QED BY <1>9, <3>2, <3>4, <4>1, <4>2 DEF One
        <3> QED BY <3>5, <3>6
    <2> QED BY <2>1 DEF CountersWritten
<1>13. RequestClaimed(s)'
    <2>1. KeepsClaims(s, D)
        BY <1>10 DEF KeepsClaims
    <2>2. Charging(s) => at[s] \in {4, 9} \/ at[s] >= 18
        BY <1>1, <1>2, Places DEF Charging
    <2>3. Charging(s) => (at[s] + 1 \in {4, 5} => at[s] = 4) /\ (at[s] + 1 > 5 => at[s] > 5)
        BY <1>2, <2>2
    <2>4. Charging(s) /\ at[s] + 1 \in {4, 5} =>
            locks'[Claimed(s)] = s /\ Stored(s, Claimed(s))' # NoRow
        <3>1. Claimed(s) \in Logical /\ Claimed(s) \in Row
            BY <1>1, OwnRows, RowFacts
        <3>2. Stored(s, Claimed(s))' = Stored(s, Claimed(s))
            BY <1>9, <1>10, <3>1 DEF Stored
        <3>3. locks[Claimed(s)] = s => locks'[Claimed(s)] = s
            BY <1>7, <3>1 DEF Continues
        <3> QED BY <1>1, <2>3, <3>2, <3>3 DEF RequestClaimed
    <2> QED BY <1>7, <1>9, <2>1, <2>3, <2>4, ClaimKept
<1>14. SameQuotas(s, D)
    BY <1>5, <1>6, <1>7, RowFacts DEF SameQuotas
<1>15. \A r \in User \cup Pass : D[r] = draft[s][r]
    BY <1>3, <1>7, RowFacts
<1>16. at[s] + 1 <= Len(Program[bill[s]]) + 1
    BY <1>2
<1> QED BY <1>1, <1>7, <1>11, <1>12, <1>13, <1>14, <1>15, <1>16, AsideKeeps

\* A statement of a charge between its fifth and its last fixed one.
Middle(s, d, k) == At(s) /\ Doing(s) = d /\ Charging(s) /\ at[s] = k

LEMMA InMiddle ==
    ASSUME NEW s, At(s)
    PROVE  /\ Doing(s) = "claim" => Middle(s, "claim", 5)
           /\ Doing(s) = "plan" => Middle(s, "plan", 10)
           /\ Doing(s) = "lock" => Middle(s, "lock", 11)
           /\ Doing(s) = "cover" => Middle(s, "cover", 12)
           /\ Doing(s) = "debit" => Middle(s, "debit", 13)
           /\ Doing(s) = "findPayee" => Middle(s, "findPayee", 14)
           /\ Doing(s) = "insertPayee" => Middle(s, "insertPayee", 15)
           /\ Doing(s) = "pay" => Middle(s, "pay", 16)
<1>1. Works(bill[s], at[s]) /\ Doing(s) = Program[bill[s]][at[s]].do
    BY Line
<1> DEFINE d == Program[bill[s]][at[s]].do
<1>2. /\ d = "claim" => bill[s].op = "charge" /\ at[s] = 5
      /\ d = "plan" => bill[s].op = "charge" /\ at[s] = 10
      /\ d = "lock" => bill[s].op = "charge" /\ at[s] = 11
      /\ d = "cover" => bill[s].op = "charge" /\ at[s] = 12
      /\ d = "debit" => bill[s].op = "charge" /\ at[s] = 13
      /\ d = "findPayee" => bill[s].op = "charge" /\ at[s] = 14
      /\ d = "insertPayee" => bill[s].op = "charge" /\ at[s] = 15
      /\ d = "pay" => bill[s].op = "charge" /\ at[s] = 16
    BY <1>1 DEF Works
<1>3. Doing(s) = d
    BY <1>1
<1> HIDE DEF d
<1> QED BY <1>2, <1>3 DEF Middle, Charging

\* The fixed statements of a charge that a session is at.
LEMMA MiddleLines ==
    ASSUME NEW s, At(s), Charging(s)
    PROVE  LET b == bill[s] IN
           /\ Len(Program[b]) \in Nat /\ Len(Program[b]) >= 17
           /\ IsLine(b, 5, "claim", Claimed(s))
           /\ Program[b][6].do = "find" /\ IsLine(b, 10, "plan", b.user)
           /\ IsLine(b, 11, "lock", b.user) /\ IsLine(b, 12, "cover", b.user)
           /\ IsLine(b, 13, "debit", b.user) /\ IsLine(b, 14, "findPayee", b.provider)
           /\ IsLine(b, 15, "insertPayee", b.provider) /\ IsLine(b, 16, "pay", b.provider)
           /\ Program[b][17].do = "spend"
<1>1. bill[s] \in Bill /\ bill[s].op = "charge"
    BY Line DEF Charging
<1> DEFINE b == bill[s]
<1>2. b \in Bill /\ b.op = "charge"
    BY <1>1
<1>3. Claimed(s) = <<Root(b), b.id>>
    BY DEF Claimed, Own
<1> HIDE DEF b
<1>4. Len(Program[b]) \in Nat /\ Len(Program[b]) >= 17
    BY <1>2, Lengths DEF Fixed
<1>5. /\ IsLine(b, 5, "claim", <<Root(b), b.id>>)
      /\ IsLine(b, 6, "find", <<Leaf(b), b.id>>)
      /\ IsLine(b, 10, "plan", b.user) /\ IsLine(b, 11, "lock", b.user)
      /\ IsLine(b, 12, "cover", b.user) /\ IsLine(b, 13, "debit", b.user)
      /\ IsLine(b, 14, "findPayee", b.provider) /\ IsLine(b, 15, "insertPayee", b.provider)
      /\ IsLine(b, 16, "pay", b.provider) /\ IsLine(b, 17, "spend", Leaf(b))
    BY <1>2, ChargeLine, Zenon
<1>6. Program[b][6].do = "find" /\ Program[b][17].do = "spend"
    BY <1>5 DEF IsLine
<1> QED BY <1>3, <1>4, <1>5, <1>6 DEF b

LEMMA NextNoRequest ==
    ASSUME NEW s, At(s), Doing(s) \notin {"insert", "count"}, NEW D, NEW pl,
           Continues(s, 1, D, pl)
    PROVE  Doing(s)' \notin {"count", "tally"}
<1>1. /\ Follows(bill[s], at[s]) /\ Doing(s) = Program[bill[s]][at[s]].do
      /\ at[s] \in 1 .. Len(Program[bill[s]]) /\ Len(Program[bill[s]]) \in Nat
    BY Line
<1>2. IF at[s] + 1 > Len(Program[bill[s]]) THEN Doing(s)' = "none"
      ELSE Doing(s)' = Program[bill[s]][at[s] + 1].do
    BY GoesOn
<1>3. at[s] < Len(Program[bill[s]]) => Program[bill[s]][at[s] + 1].do \notin {"count", "tally"}
    BY <1>1 DEF Follows
<1> QED BY <1>1, <1>2, <1>3

\* A statement that does not touch the requests, once the session's is claimed.
LEMMA BeyondRequests ==
    ASSUME NEW s, At(s), NEW n \in {0, 1, 2, 3}, NEW D, NEW pl, Continues(s, n, D, pl),
           Doing(s) \notin {"count", "tally"}, Doing(s)' \notin {"count", "tally"},
           \A q \in Logical : D[q] = draft[s][q], SameCounters(s, D),
           Charging(s) => at[s] > 5
    PROVE  RequestsWritten(s)' /\ CountersWritten(s)' /\ RequestClaimed(s)'
<1>1. RequestsWritten(s)'
    BY RequestsKept
<1>2. CountersWritten(s)'
    BY CountersKept
<1>3. RequestClaimed(s)'
    <2>1. KeepsClaims(s, D)
        BY DEF KeepsClaims
    <2>2. at[s] \in Nat
        BY Here DEF Tabular
    <2>3. Charging(s) => at[s] + n \notin {4, 5}
        BY <2>2
    <2> QED BY <2>1, <2>3, ClaimKept
<1> QED BY <1>1, <1>2, <1>3

\* What is left to show of the other statements.
LEMMA WorkKeeps ==
    ASSUME NEW s, At(s), NEW n \in {0, 1, 2, 3}, NEW D, NEW pl, Continues(s, n, D, pl),
           at[s] + n <= Len(Program[bill[s]]) + 1, Locked(s, D),
           RequestsWritten(s)', CountersWritten(s)', RequestClaimed(s)',
           PlanFollowed(s)', AccountsWritten(s)', QuotasWritten(s)', PassesWritten(s)'
    PROVE  SettlementInv'
<1>1. SettlementInv /\ s \in Session /\ stage[s] = "work"
    BY Here DEF At
<1>2. (at[s] <= Len(Program[bill[s]]) + 1)'
    BY GoesOn
<1>3. Working(s)'
    BY <1>2 DEF Working
<1>4. DraftsLocked(s)'
    BY DraftsKept
<1> QED BY <1>1, <1>3, <1>4, ContinueKeeps

\* No quota is raised before the last of the fixed statements.
LEMMA NoSpendBefore ==
    ASSUME NEW s, At(s), Charging(s)
    PROVE  \A m \in 1 .. 16 : Program[bill[s]][m].do # "spend"
<1> TAKE m \in 1 .. 16
<1>1. bill[s] \in Bill /\ bill[s].op = "charge"
    BY Line DEF Charging
<1>2. Len(Program[bill[s]]) \in Nat /\ Len(Program[bill[s]]) >= 17
    BY MiddleLines
<1>3. m \in 1 .. Len(Program[bill[s]])
    BY <1>2
<1>4. Program[bill[s]][m].do = "spend" => m >= 17
    BY <1>1, <1>3, Places
<1> QED BY <1>4

LEMMA ClaimKeeps ==
    ASSUME NEW s, At(s), ClaimSettlement(s), Unsettled(Stored(s, Target(s)))
    PROVE  SettlementInv'
<1> DEFINE q == Target(s)
           new == [Stored(s, q) EXCEPT !.settled = TRUE]
           D == [draft[s] EXCEPT ![q] = new]
<1>1. /\ s \in Session /\ Tabular /\ RequestsWritten(s) /\ CountersWritten(s) /\ CommittedFits
      /\ RequestClaimed(s) /\ DraftsLocked(s) /\ Doing(s) = "claim" /\ plan[s] \in PlanType
    BY Here DEF ClaimSettlement
<1>2. Charging(s) /\ at[s] = 5
    BY <1>1, InMiddle DEF Middle
<1>3. q = Claimed(s) /\ q \in Logical /\ q \in Row
    <2>1. q = Program[bill[s]][5].row
        BY <1>2, Line
    <2>2. IsLine(bill[s], 5, "claim", Claimed(s))
        BY <1>2, MiddleLines
    <2> QED BY <1>1, <2>1, <2>2, OwnRows, RowFacts DEF IsLine
<1>4. locks[q] = s /\ Stored(s, q) # NoRow
    BY <1>1, <1>2, <1>3 DEF RequestClaimed
<1>5. ~Stored(s, q).settled
    BY DEF Unsettled
<1>6. /\ draft[s][q] # Clean => /\ draft[s][q] \in RequestVersion /\ draft[s][q].counted
                                /\ Stored(s, q) = draft[s][q]
      /\ draft[s][q] = Clean => /\ committed[q] \in RequestVersion /\ committed[q].counted
                                /\ Stored(s, q) = committed[q] /\ committed[q] # NoRow
      /\ committed[q] # NoRow /\ draft[s][q] # Clean =>
           (committed[q].settled => draft[s][q].settled)
    BY <1>1, <1>3, <1>4 DEF DraftsLocked, Fits, RequestsWritten, Stored, CommittedFits
<1>7. Stored(s, q) \in RequestVersion /\ Stored(s, q).counted
    BY <1>6
<1>8. committed[q] # NoRow => ~committed[q].settled
    BY <1>5, <1>6
<1>9. new \in RequestVersion /\ new.counted /\ new.settled
    BY <1>7 DEF RequestVersion
<1> HIDE DEF new
<1>10. new # Clean /\ Fits(q, new) /\ q[2] = bill[s].id
    BY <1>3, <1>9, VersionFacts, RowFacts DEF Fits, Claimed, Own
<1>11. Continues(s, 1, D, plan[s])
    <2>1. /\ Write(s, q, new) /\ Advance(s, 1)
          /\ UNCHANGED <<committed, view, locks, plan, usage, posted>>
        BY DEF ClaimSettlement, new
    <2>2. Drafted(s, D) /\ Planned(s, plan[s])
        BY <1>1, <2>1, Drafts
    <2> HIDE DEF D
    <2> QED BY <1>1, <2>1, <2>2, AdvanceContinues
<1>12. D[q] = new /\ (\A x \in Row : x # q => D[x] = draft[s][x])
    BY <1>1, <1>3 DEF Tabular
<1> HIDE DEF D
<1>13. Locked(s, D)
    <2>1. locks'[q] = s
        BY <1>3, <1>4, <1>11 DEF Continues
    <2> QED BY <1>10, <1>12, <2>1 DEF Locked
<1>14. /\ bill'[s] = bill[s] /\ draft'[s] = D /\ committed' = committed /\ at'[s] = 6
       /\ Doing(s)' = "find" /\ Claimed(s)' = Claimed(s) /\ Charging(s)'
       /\ \A x : Own(s, x)' = Own(s, x)
    <2>1. ~(5 + 1 > Len(Program[bill[s]])) /\ Program[bill[s]][5 + 1].do = "find"
        BY <1>2, MiddleLines
    <2> QED BY <1>2, <1>11, <2>1, GoesOn
<1> HIDE DEF q
<1>15. RequestsWritten(s)'
    <2>1. ASSUME NEW x \in Logical, D[x] # Clean
          PROVE  /\ x[2] = bill[s].id /\ D[x].counted
                 /\ committed[x] # NoRow /\ committed[x].settled => D[x].settled
        <3>1. CASE x = q
            BY <1>8, <1>9, <1>10, <1>12, <3>1
        <3>2. CASE x # q
            <4>1. D[x] = draft[s][x]
                BY <1>12, <3>2, RowFacts
            <4> QED BY <1>1, <2>1, <4>1 DEF RequestsWritten
        <3> QED BY <3>1, <3>2
    <2> QED BY <1>14, <2>1 DEF RequestsWritten
<1>16. CountersWritten(s)'
    <2>1. ASSUME NEW u \in Token
          PROVE  (IF draft[s][u] = Clean THEN Inserted(s, u) <=> Untallied(s, u)
                  ELSE draft[s][u].requests =
                         committed[u].requests + One(Inserted(s, u)) - One(Untallied(s, u)))'
        <3>1. Own(s, u) \in Logical /\ Own(s, u) \in Row /\ D[u] = draft[s][u]
            BY <1>1, <1>3, <1>12, OwnRows, RowFacts
        <3>2. ~Untallied(s, u) /\ ~Untallied(s, u)'
            BY <1>1, <1>14 DEF Untallied
        <3>3. Inserted(s, u)' <=> Inserted(s, u)
            <4>1. CASE Own(s, u) = q
                BY <1>6, <1>10, <1>12, <1>14, <4>1 DEF Inserted
            <4>2. CASE Own(s, u) # q
                BY <1>12, <1>14, <3>1, <4>2 DEF Inserted
            <4> QED BY <4>1, <4>2
        <3> QED BY <1>1, <1>14, <3>1, <3>2, <3>3 DEF CountersWritten, One
    <2> QED BY <2>1 DEF CountersWritten
<1>17. RequestClaimed(s)'
    <2>1. draft'[s][Claimed(s)'] # Clean /\ draft'[s][Claimed(s)'].settled
        BY <1>3, <1>9, <1>10, <1>12, <1>14
    <2>2. committed'[Claimed(s)'] # NoRow => ~committed'[Claimed(s)'].settled
        BY <1>3, <1>8, <1>14
    <2> QED BY <1>14, <2>1, <2>2 DEF RequestClaimed
<1>18. Aside(s, 1)
    BY <1>2 DEF Aside
<1>19. \A x \in Token \cup User \cup Pass : D[x] = draft[s][x]
    BY <1>3, <1>12, RowFacts
<1>20. PlanFollowed(s)' /\ AccountsWritten(s)' /\ PassesWritten(s)'
    BY <1>11, <1>18, <1>19, PlanKept, AccountsKept, PassesKept
<1>21. QuotasWritten(s)'
    <2>1. SameQuotas(s, D)
        BY <1>19 DEF SameQuotas
    <2>2. \A m \in at[s] .. at[s] + 1 - 1 : Program[bill[s]][m].do # "spend"
        BY <1>2, NoSpendBefore
    <2> QED BY <1>11, <2>1, <2>2, QuotasKept
<1>22. at[s] + 1 <= Len(Program[bill[s]]) + 1
    BY <1>2, MiddleLines
<1> QED BY <1>11, <1>13, <1>15, <1>16, <1>17, <1>20, <1>21, <1>22, WorkKeeps

\* What is left to show of the statements between the allocation and the quotas, which
\* work on accounts and passes.
LEMMA MiddleKeeps ==
    ASSUME NEW s, NEW d, NEW k \in 10 .. 16, Middle(s, d, k), NEW n \in {0, 1, 2, 3}, k + n <= 17,
           NEW D, NEW pl, Continues(s, n, D, pl), Locked(s, D),
           Doing(s)' \notin {"count", "tally"},
           \A r \in Logical \cup Token : D[r] = draft[s][r],
           pl.covered = plan[s].covered, pl.left = plan[s].left,
           PlanFollowed(s)', AccountsWritten(s)', PassesWritten(s)'
    PROVE  SettlementInv'
<1>1. At(s) /\ Charging(s) /\ at[s] = k
    BY DEF Middle
<1>2. Doing(s) \notin {"count", "tally"}
    <2>1. bill[s] \in Bill /\ bill[s].op = "charge" /\ at[s] \in 1 .. Len(Program[bill[s]])
          /\ Doing(s) = Program[bill[s]][at[s]].do
        BY <1>1, Line DEF Charging
    <2>2. at[s] \in 10 .. 16
        BY <1>1
    <2>3. /\ Doing(s) = "count" => at[s] \in {3, 8} \/ at[s] >= 18
          /\ Doing(s) = "tally" => at[s] \in {4, 9} \/ at[s] >= 18
        BY <2>1, Places
    <2> QED BY <2>2, <2>3
<1>3. SameCounters(s, D) /\ SameQuotas(s, D)
    BY DEF SameCounters, SameQuotas
<1>4. RequestsWritten(s)' /\ CountersWritten(s)' /\ RequestClaimed(s)'
    <2>1. at[s] > 5
        BY <1>1
    <2> QED BY <1>1, <1>2, <1>3, <2>1, BeyondRequests
<1>5. QuotasWritten(s)'
    <2>1. \A m \in at[s] .. at[s] + n - 1 : m \in 1 .. 16
        BY <1>1
    <2>2. \A m \in at[s] .. at[s] + n - 1 : Program[bill[s]][m].do # "spend"
        BY <1>1, <2>1, NoSpendBefore
    <2> QED BY <1>1, <1>3, <2>2, QuotasKept
<1>6. at[s] + n <= Len(Program[bill[s]]) + 1
    BY <1>1, MiddleLines
<1> QED BY <1>1, <1>4, <1>5, <1>6, WorkKeeps

LEMMA PlanKeeps ==
    ASSUME NEW s, At(s), PlanCoverage(s)
    PROVE  SettlementInv'
<1> DEFINE D == draft[s]
           seen == [p \in Pass |-> Seen(s, p)]
           pl == Allocate(bill[s], seen)
<1>1. /\ s \in Session /\ Tabular /\ CommittedFits /\ DraftsLocked(s) /\ ViewOlder(s)
      /\ PlanFollowed(s) /\ AccountsWritten(s) /\ QuotasWritten(s) /\ PassesWritten(s)
      /\ Doing(s) = "plan" /\ bill[s] \in Bill
    BY Here, Line DEF PlanCoverage
<1>2. Middle(s, "plan", 10) /\ Charging(s) /\ at[s] = 10
    BY <1>1, InMiddle DEF Middle
<1>3. \A p \in Pass : seen[p] \in PassVersion
    <2> TAKE p \in Pass
    <2>1. p \in Row
        BY RowFacts
    <2>2. draft[s][p] # Clean => draft[s][p] \in PassVersion
        BY <1>1, <2>1 DEF DraftsLocked, Fits
    <2>3. ViewOf(s)[p] \in PassVersion
        BY <1>1 DEF ViewOf, ViewOlder, CommittedFits
    <2> QED BY <2>2, <2>3 DEF Seen
<1>4. pl \in FreshPlan
    <2> HIDE DEF seen
    <2> QED BY <1>1, <1>3, AllocateFits
<1>5. plan' = [plan EXCEPT ![s] = pl] /\ FixView(s) /\ Advance(s, 1)
      /\ UNCHANGED <<committed, draft, locks, usage, posted>>
    BY DEF PlanCoverage
<1> HIDE DEF pl, D
<1>6. pl \in PlanType /\ pl.next = 1 /\ pl.parts \in Parts
    BY <1>4 DEF FreshPlan, PlanType
<1>7. Continues(s, 1, D, pl)
    <2>1. Drafted(s, D) /\ Planned(s, pl)
        BY <1>1, <1>5, <1>6, Drafts DEF D
    <2> QED BY <1>1, <1>5, <2>1, AdvanceContinues
<1>8. /\ bill'[s] = bill[s] /\ at'[s] = 11 /\ draft'[s] = D /\ committed' = committed
      /\ plan'[s] = pl /\ Charging(s)' /\ Doing(s)' \notin {"count", "tally"}
    BY <1>1, <1>2, <1>7, GoesOn, NextNoRequest
<1>9. plan[s] = NoPlan
    BY <1>1, <1>2 DEF PlanFollowed
<1>10. PlanFollowed(s)'
    <2>1. Len(pl.parts) \in Nat
        BY <1>6 DEF Parts
    <2> QED BY <1>6, <1>8, <2>1 DEF PlanFollowed
<1>11. AccountsWritten(s)'
    <2>1. \A u \in User : Moved(s, u) = 0 /\ Moved(s, u)' = 0
        BY <1>2, <1>8 DEF Moved
    <2> QED BY <1>1, <1>8, <2>1 DEF AccountsWritten, D
<1>12. PassesWritten(s)'
    <2>1. ASSUME NEW p PROVE Taken(s, p) = 0 /\ Taken(s, p)' = 0
        <3>1. plan[s].next = 1 /\ 1 .. 1 - 1 = {}
            BY <1>9 DEF NoPlan
        <3>2. Taken(s, p) = SumFunctionOnSet(TakenFrom(plan[s].parts, p), {})
            BY <3>1 DEF Taken
        <3>3. Taken(s, p)' = SumFunctionOnSet(TakenFrom(pl.parts, p), {})
            BY <1>6, <1>8, <3>1 DEF Taken
        <3> QED BY <3>2, <3>3, SumEmpty
    <2>2. ASSUME NEW p \in Pass
          PROVE  (IF draft[s][p] = Clean THEN Taken(s, p) = 0
                  ELSE /\ draft[s][p].remaining >= 0
                       /\ draft[s][p].remaining = committed[p].remaining - Taken(s, p)
                       /\ draft[s][p].used = committed[p].used + Taken(s, p))'
        <3>1. IF draft[s][p] = Clean THEN 0 = 0
              ELSE /\ draft[s][p].remaining >= 0
                   /\ draft[s][p].remaining = committed[p].remaining - 0
                   /\ draft[s][p].used = committed[p].used + 0
            BY <1>1, <2>1 DEF PassesWritten
        <3>2. Taken(s, p)' = 0
            BY <2>1
        <3> HIDE DEF Taken
        <3> QED BY <1>8, <3>1, <3>2 DEF D
    <2> QED BY <2>2 DEF PassesWritten
<1>13. RequestsWritten(s)' /\ CountersWritten(s)' /\ RequestClaimed(s)'
    <2>1. SameCounters(s, D) /\ \A q \in Logical : D[q] = draft[s][q]
        BY DEF SameCounters, D
    <2> QED BY <1>1, <1>2, <1>7, <1>8, <2>1, BeyondRequests
<1>14. QuotasWritten(s)'
    <2>1. ASSUME NEW t PROVE ~Spent(s, t) /\ ~Spent(s, t)'
        <3>1. \A m \in 1 .. 16 : Program[bill[s]][m].do # "spend"
            BY <1>2, NoSpendBefore
        <3>2. Spent(s, t)' => \E m \in 1 .. 10 : Program[bill[s]][m].do = "spend"
            BY <1>8 DEF Spent
        <3>3. Spent(s, t) => \E m \in 1 .. 9 : Program[bill[s]][m].do = "spend"
            BY <1>2 DEF Spent
        <3>4. (\A m \in 1 .. 10 : m \in 1 .. 16) /\ (\A m \in 1 .. 9 : m \in 1 .. 16)
            OBVIOUS
        <3> QED BY <3>1, <3>2, <3>3, <3>4
    <2>2. ASSUME NEW t \in Token
          PROVE  (IF draft[s][t] = Clean THEN Spent(s, t) => Cost(s) = 0
                  ELSE draft[s][t].quota = committed[t].quota + (IF Spent(s, t) THEN Cost(s) ELSE 0))'
        <3>1. IF draft[s][t] = Clean THEN TRUE ELSE draft[s][t].quota = committed[t].quota + 0
            BY <1>1, <2>1 DEF QuotasWritten
        <3> QED BY <1>8, <2>1, <3>1 DEF D
    <2> QED BY <2>2 DEF QuotasWritten
<1>15. at[s] + 1 <= Len(Program[bill[s]]) + 1 /\ Locked(s, D)
    BY <1>2, MiddleLines DEF Locked, D
<1> QED BY <1>7, <1>10, <1>11, <1>12, <1>13, <1>14, <1>15, WorkKeeps

\* The version of an account a session works on.
LEMMA AccountStored ==
    ASSUME NEW s, At(s), NEW u \in User
    PROVE  /\ u \in Row /\ Stored(s, u) \in Int \cup {NoRow}
           /\ draft[s][u] # Clean => draft[s][u] \in Int
           /\ Seen(s, u) # NoRow => Stored(s, u) # NoRow
           /\ draft[s][u] = Clean => Stored(s, u) = committed[u]
           /\ draft[s][u] # Clean => Stored(s, u) = draft[s][u] /\ Stored(s, u) # NoRow
<1>1. DraftsLocked(s) /\ CommittedFits /\ ViewOlder(s) /\ u \in Row
    BY Here, RowFacts
<1>2. draft[s][u] # Clean => draft[s][u] \in Int
    BY <1>1 DEF DraftsLocked, Fits
<1>3. committed[u] \in Int \cup {NoRow}
    BY <1>1 DEF CommittedFits
<1>4. NoRow \notin Int
    BY VersionFacts
<1>5. Seen(s, u) # NoRow => Stored(s, u) # NoRow
    <2>1. CASE draft[s][u] # Clean
        BY <1>2, <1>4, <2>1 DEF Stored
    <2>2. CASE draft[s][u] = Clean
        <3>1. ViewOf(s)[u] # NoRow => committed[u] # NoRow
            BY <1>1 DEF ViewOf, ViewOlder, Optional
        <3> QED BY <2>2, <3>1 DEF Seen, Stored
    <2> QED BY <2>1, <2>2
<1> QED BY <1>1, <1>2, <1>3, <1>4, <1>5 DEF Stored

LEMMA LockKeeps ==
    ASSUME NEW s, At(s), LockAccount(s), ~(plan[s].left > 0 /\ Seen(s, Target(s)) = NoRow)
    PROVE  SettlementInv'
<1> DEFINE D == draft[s]   u == bill[s].user
<1>1. /\ s \in Session /\ Tabular /\ PlanFollowed(s) /\ AccountsWritten(s)
      /\ Doing(s) = "lock" /\ bill[s] \in Bill /\ u \in User
    BY Here, Line, OwnRows DEF LockAccount
<1>2. Middle(s, "lock", 11) /\ Charging(s) /\ at[s] = 11
    BY <1>1, InMiddle DEF Middle
<1>3. Target(s) = u
    <2>1. Target(s) = Program[bill[s]][11].row
        BY <1>2, Line
    <2> QED BY <1>2, <2>1, MiddleLines DEF IsLine
<1>4. u \in Row /\ (Seen(s, u) # NoRow => Stored(s, u) # NoRow)
    BY <1>1, AccountStored
<1> HIDE DEF u, D
<1>5. /\ LockIsFree(s, u) /\ Advance(s, 1)
      /\ UNCHANGED <<committed, view, draft, plan, usage, posted>>
      /\ IF Stored(s, u) = NoRow THEN UNCHANGED locks ELSE TakeLock(s, u)
    BY <1>3 DEF LockAccount
<1>6. Continues(s, 1, D, plan[s])
    <2>1. Drafted(s, D) /\ Planned(s, plan[s])
        BY <1>1, <1>5, Drafts DEF D
    <2>2. UNCHANGED locks \/ \E r \in Row : LockIsFree(s, r) /\ TakeLock(s, r)
        BY <1>4, <1>5
    <2> QED BY <1>1, <1>5, <2>1, <2>2, AdvanceContinues
<1>7. plan[s].left > 0 => locks'[u] = s /\ Stored(s, u) # NoRow
    <2>1. DOMAIN locks = Row
        BY <1>1 DEF Tabular
    <2>2. TakeLock(s, u) => locks'[u] = s
        BY <1>4, <2>1 DEF TakeLock
    <2> QED BY <1>3, <1>4, <1>5, <2>2
<1>8. /\ bill'[s] = bill[s] /\ at'[s] = 12 /\ draft'[s] = D /\ committed' = committed
      /\ plan'[s] = plan[s] /\ (Charging(s)' <=> Charging(s)) /\ Doing(s)' \notin {"count", "tally"}
    BY <1>1, <1>2, <1>6, GoesOn, NextNoRequest
<1>9. PlanFollowed(s)'
    BY <1>1, <1>2, <1>8 DEF PlanFollowed
<1>10. AccountsWritten(s)'
    <2>1. \A x \in User : Moved(s, x) = 0 /\ Moved(s, x)' = 0
        BY <1>2, <1>8 DEF Moved
    <2>2. Stored(s, bill[s].user)' = Stored(s, u)
        BY <1>8 DEF Stored, D, u
    <2> QED BY <1>1, <1>7, <1>8, <2>1, <2>2 DEF AccountsWritten, D, u
<1>11. PassesWritten(s)'
    BY <1>6, PassesKept DEF D
<1>12. Locked(s, D) /\ \A r \in Logical \cup Token : D[r] = draft[s][r]
    BY DEF Locked, D
<1> QED BY <1>2, <1>6, <1>8, <1>9, <1>10, <1>11, <1>12, MiddleKeeps

LEMMA CommissionInteger ==
    ASSUME NEW s, plan[s] \in PlanType
    PROVE  Commission(s) \in Int
<1>1. plan[s].left \in Nat /\ CommissionPercent \in Nat
    BY SettlementAssumption DEF PlanType
<1> DEFINE gross == plan[s].left * CommissionPercent
<1>2. gross \in Nat
    BY <1>1
<1> HIDE DEF gross
<1>3. RoundedQuotient(gross, 100) \in Int
    BY <1>2 DEF RoundedQuotient
<1> QED BY <1>3 DEF Commission, gross

LEMMA CommissionInt ==
    ASSUME NEW s, At(s)
    PROVE  Commission(s) \in Int
BY Here, CommissionInteger

LEMMA DebitKeeps ==
    ASSUME NEW s, At(s), Debit(s)
    PROVE  SettlementInv'
<1> DEFINE u == bill[s].user   v == Debited(s)
           D == IF plan[s].left = 0 THEN draft[s] ELSE [draft[s] EXCEPT ![u] = v]
<1>1. /\ s \in Session /\ Tabular /\ PlanFollowed(s) /\ AccountsWritten(s) /\ CommittedFits
      /\ Doing(s) = "debit" /\ bill[s] \in Bill /\ u \in User
      /\ plan[s] \in PlanType
    BY Here, Line, OwnRows DEF Debit
<1>2. Middle(s, "debit", 13) /\ Charging(s) /\ at[s] = 13
    BY <1>1, InMiddle DEF Middle
<1>3. Target(s) = u
    <2>1. Target(s) = Program[bill[s]][13].row
        BY <1>2, Line
    <2> QED BY <1>2, <2>1, MiddleLines DEF IsLine
<1>4. /\ u \in Row /\ Stored(s, u) \in Int \cup {NoRow}
      /\ draft[s][u] = Clean => Stored(s, u) = committed[u]
      /\ draft[s][u] # Clean => Stored(s, u) = draft[s][u]
    BY <1>1, AccountStored
<1>5. plan[s].left \in Nat
    BY <1>1 DEF PlanType
<1>6. plan[s].left # 0 =>
        /\ locks[u] = s /\ Stored(s, u) \in Int /\ v \in Int /\ v = Stored(s, u) - plan[s].left
    <2>1. plan[s].left # 0 => plan[s].left > 0
        BY <1>5
    <2>2. plan[s].left # 0 => locks[u] = s /\ Stored(s, u) # NoRow
        BY <1>1, <1>2, <2>1 DEF AccountsWritten
    <2> QED BY <1>4, <1>5, <2>2 DEF Debited
<1> HIDE DEF v
<1>7. plan[s].left # 0 => v # Clean /\ Fits(u, v)
    BY <1>1, <1>6, VersionFacts, RowFacts DEF Fits
<1>8. Drafted(s, D)
    <2>1. CASE plan[s].left = 0
        <3>1. UNCHANGED draft
            BY <2>1 DEF Debit
        <3>2. Drafted(s, draft[s])
            BY <1>1, <3>1, Drafts
        <3> QED BY <2>1, <3>2
    <2>2. CASE plan[s].left # 0
        <3>1. Write(s, u, v)
            BY <1>3, <2>2 DEF Debit, v
        <3>2. Drafted(s, [draft[s] EXCEPT ![u] = v])
            BY <1>1, <3>1, Drafts
        <3> QED BY <2>2, <3>2
    <2> QED BY <2>1, <2>2
<1>9. /\ \A r \in Row : r # u => D[r] = draft[s][r]
      /\ plan[s].left = 0 => D[u] = draft[s][u]
      /\ plan[s].left # 0 => D[u] = v
    BY <1>1, <1>4 DEF Tabular
<1> HIDE DEF D
<1>10. Continues(s, 1, D, plan[s])
    <2>1. Advance(s, 1) /\ UNCHANGED <<committed, view, locks, plan, usage, posted>>
        BY DEF Debit
    <2>2. Planned(s, plan[s])
        BY <1>1, <2>1, Drafts
    <2> QED BY <1>1, <1>8, <2>1, <2>2, AdvanceContinues
<1>11. /\ bill'[s] = bill[s] /\ at'[s] = 14 /\ draft'[s] = D /\ committed' = committed
       /\ plan'[s] = plan[s] /\ (Charging(s)' <=> Charging(s)) /\ Doing(s)' \notin {"count", "tally"}
    BY <1>1, <1>2, <1>10, GoesOn, NextNoRequest
<1>12. Locked(s, D)
    <2>1. plan[s].left # 0 => locks'[u] = s
        BY <1>4, <1>6, <1>10 DEF Continues
    <2> QED BY <1>7, <1>9, <2>1 DEF Locked
<1>13. \A r \in Logical \cup Token \cup Pass : D[r] = draft[s][r]
    BY <1>1, <1>9, RowFacts
<1>14. PlanFollowed(s)'
    BY <1>1, <1>2, <1>11 DEF PlanFollowed
<1>15. AccountsWritten(s)'
    <2>1. \A x \in User : Moved(s, x) = 0 /\ Moved(s, x)' = (IF x = u THEN 0 - plan[s].left ELSE 0)
        BY <1>2, <1>5, <1>11 DEF Moved
    <2>2. ASSUME NEW x \in User
          PROVE  IF D[x] = Clean THEN Moved(s, x)' = 0
                 ELSE D[x] = Worth(committed[x]) + Moved(s, x)'
        <3>0. committed[x] \in Int \cup {NoRow} /\ NoRow \notin Int
            BY <1>1, VersionFacts DEF CommittedFits
        <3>1. draft[s][x] # Clean => draft[s][x] = Worth(committed[x]) + 0
            BY <1>1, <2>1 DEF AccountsWritten
        <3>2. Worth(committed[x]) \in Int
            BY <3>0 DEF Worth
        <3>3. CASE x = u /\ plan[s].left # 0
            <4>1. Stored(s, u) = Worth(committed[u])
                <5>1. CASE draft[s][u] = Clean
                    BY <1>4, <1>6, <3>0, <3>3, <5>1 DEF Worth
                <5>2. CASE draft[s][u] # Clean
                    BY <1>4, <3>1, <3>2, <3>3, <5>2
                <5> QED BY <5>1, <5>2
            <4>2. Moved(s, x)' = 0 - plan[s].left /\ D[x] = v /\ v # Clean
                BY <1>7, <1>9, <2>1, <3>3
            <4> QED BY <1>5, <1>6, <3>2, <3>3, <4>1, <4>2
        <3>4. CASE x # u \/ plan[s].left = 0
            <4>1. D[x] = draft[s][x]
                BY <1>9, <3>4, RowFacts
            <4>2. Moved(s, x)' = 0
                BY <2>1, <3>4
            <4> QED BY <3>1, <4>1, <4>2
        <3> QED BY <3>3, <3>4
    <2>3. ASSUME NEW x \in User
          PROVE  (IF draft[s][x] = Clean THEN Moved(s, x) = 0
                  ELSE draft[s][x] = Worth(committed[x]) + Moved(s, x))'
        BY <1>11, <2>2
    <2> QED BY <1>11, <2>3 DEF AccountsWritten
<1>16. PassesWritten(s)'
    BY <1>10, <1>13, PassesKept
<1> QED BY <1>2, <1>10, <1>11, <1>12, <1>13, <1>14, <1>15, <1>16, MiddleKeeps

\* Both ways on from the query for the payee's account: there is nothing to pay, or
\* its account is looked up.
LEMMA FindPayeeKeeps ==
    ASSUME NEW s, At(s), Doing(s) = "findPayee", Find(s)
    PROVE  SettlementInv'
<1> DEFINE u == bill[s].provider   D == draft[s]
           n == IF Commission(s) = 0 THEN 3 ELSE IF Seen(s, Target(s)) = NoRow THEN 1 ELSE 2
<1>1. /\ s \in Session /\ Tabular /\ PlanFollowed(s) /\ AccountsWritten(s)
      /\ bill[s] \in Bill /\ u \in User \cup {NoProvider}
    BY Here, Line, OwnRows
<1>2. Middle(s, "findPayee", 14) /\ Charging(s) /\ at[s] = 14
    BY InMiddle DEF Middle
<1>3. Target(s) = u
    <2>1. Target(s) = Program[bill[s]][14].row
        BY <1>2, Line
    <2> QED BY <1>2, <2>1, MiddleLines DEF IsLine
<1>4. n # 3 => u \in User
    BY <1>1 DEF Commission
<1>5. n = 2 => Stored(s, u) # NoRow
    BY <1>3, <1>4, AccountStored
<1>6. n \in {1, 2, 3} /\ (n = 3 => Commission(s) = 0)
    OBVIOUS
<1>7. /\ Advance(s, n) /\ (UNCHANGED view \/ FixView(s))
      /\ UNCHANGED <<committed, draft, locks, plan, usage, posted>>
    BY DEF Find
<1> HIDE DEF n, D, u
<1>8. Continues(s, n, D, plan[s])
    <2>1. Drafted(s, D) /\ Planned(s, plan[s])
        BY <1>1, <1>7, Drafts DEF D
    <2>2. n \in Nat
        BY <1>6
    <2> QED BY <1>1, <1>7, <2>1, <2>2, AdvanceContinues
<1>9. n \in {0, 1, 2, 3}
    BY <1>6
<1>10. /\ bill'[s] = bill[s] /\ at'[s] = 14 + n /\ draft'[s] = D /\ committed' = committed
       /\ plan'[s] = plan[s] /\ (Charging(s)' <=> Charging(s))
       /\ Doing(s)' \in {"insertPayee", "pay", "spend"}
    <2>1. /\ ~(14 + n > Len(Program[bill[s]])) /\ Program[bill[s]][15].do = "insertPayee"
          /\ Program[bill[s]][16].do = "pay" /\ Program[bill[s]][17].do = "spend"
        BY <1>2, <1>6, MiddleLines DEF IsLine
    <2>2. Program[bill[s]][14 + n].do \in {"insertPayee", "pay", "spend"}
        BY <1>6, <2>1
    <2> QED BY <1>2, <1>8, <1>9, <2>1, <2>2, GoesOn
<1>11. PlanFollowed(s)'
    BY <1>1, <1>2, <1>6, <1>10 DEF PlanFollowed
<1>12. AccountsWritten(s)'
    <2>1. Commission(s)' = Commission(s)
        BY <1>10 DEF Commission
    <2>2. \A x \in User : Moved(s, x)' = Moved(s, x)
        <3> TAKE x \in User
        <3> DEFINE paid == IF Charging(s) /\ at[s] > 13 /\ x = bill[s].user THEN 0 - plan[s].left ELSE 0
        <3>1. Moved(s, x) = paid + 0
            BY <1>2 DEF Moved
        <3>2. Moved(s, x)' = paid + 0
            <4>1. n = 3 => Commission(s)' = 0
                BY <1>6, <2>1
            <4>2. 14 + n > 16 <=> n = 3
                BY <1>6
            <4>3. 14 + n > 13
                BY <1>6
            <4> QED BY <1>2, <1>10, <4>1, <4>2, <4>3 DEF Moved
        <3> QED BY <3>1, <3>2
    <2>3. at'[s] \in {15, 16} => u \in User
        BY <1>4, <1>6, <1>10
    <2>4. at'[s] = 16 => Stored(s, u)' # NoRow
        BY <1>5, <1>6, <1>10 DEF Stored, D, u
    <2>5. at'[s] \notin {12, 13}
        BY <1>6, <1>10
    <2> QED BY <1>1, <1>10, <2>2, <2>3, <2>4, <2>5 DEF AccountsWritten, D, u
<1>13. PassesWritten(s)'
    BY <1>8, <1>9, PassesKept DEF D
<1>14. Locked(s, D) /\ \A r \in Logical \cup Token : D[r] = draft[s][r]
    BY DEF Locked, D
<1>15. Doing(s)' \notin {"count", "tally"} /\ 14 + n <= 17
    BY <1>6, <1>10
<1> QED BY <1>2, <1>8, <1>9, <1>11, <1>12, <1>13, <1>14, <1>15, MiddleKeeps

LEMMA InsertPayeeKeeps ==
    ASSUME NEW s, At(s), InsertPayee(s), Stored(s, Target(s)) = NoRow
    PROVE  SettlementInv'
<1> DEFINE u == bill[s].provider   D == [draft[s] EXCEPT ![u] = 0]
<1>1. /\ s \in Session /\ Tabular /\ PlanFollowed(s) /\ AccountsWritten(s) /\ CommittedFits
      /\ bill[s] \in Bill /\ Doing(s) = "insertPayee"
    BY Here, Line DEF InsertPayee
<1>2. Middle(s, "insertPayee", 15) /\ Charging(s) /\ at[s] = 15
    BY <1>1, InMiddle DEF Middle
<1>3. Target(s) = u
    <2>1. Target(s) = Program[bill[s]][15].row
        BY <1>2, Line
    <2> QED BY <1>2, <2>1, MiddleLines DEF IsLine
<1>4. u \in User
    BY <1>1, <1>2 DEF AccountsWritten
<1>5. u \in Row /\ draft[s][u] = Clean /\ committed[u] = NoRow
    BY <1>3, <1>4, AccountStored
<1>6. Moved(s, u) = 0
    BY <1>1, <1>4, <1>5 DEF AccountsWritten
<1>7. 0 # Clean /\ 0 # NoRow /\ Fits(u, 0)
    <2>1. 0 \in Int
        OBVIOUS
    <2>2. 0 # Clean /\ 0 # NoRow
        BY <2>1, VersionFacts
    <2> QED BY <1>4, <2>1, <2>2, RowFacts DEF Fits
<1> HIDE DEF u
<1>8. /\ Continues(s, 1, D, plan[s]) /\ Locked(s, D)
      /\ D[u] = 0 /\ (\A x \in Row : x # u => D[x] = draft[s][x])
    <2>1. LockIsFree(s, u) /\ TakeLock(s, u) /\ Write(s, u, 0) /\ Advance(s, 1)
          /\ UNCHANGED <<committed, view, plan, usage, posted>>
        BY <1>3 DEF InsertPayee
    <2> QED BY <1>5, <1>7, <2>1, WriteStep
<1> HIDE DEF D
<1>9. /\ bill'[s] = bill[s] /\ at'[s] = 16 /\ draft'[s] = D /\ committed' = committed
      /\ plan'[s] = plan[s] /\ (Charging(s)' <=> Charging(s)) /\ Doing(s)' \notin {"count", "tally"}
    BY <1>1, <1>2, <1>8, GoesOn, NextNoRequest
<1>10. PlanFollowed(s)'
    BY <1>1, <1>2, <1>9 DEF PlanFollowed
<1>11. AccountsWritten(s)'
    <2>1. \A x \in User : Moved(s, x)' = Moved(s, x)
        BY <1>2, <1>9 DEF Moved
    <2>2. ASSUME NEW x \in User
          PROVE  (IF draft[s][x] = Clean THEN Moved(s, x) = 0
                  ELSE draft[s][x] = Worth(committed[x]) + Moved(s, x))'
        <3>1. CASE x = u
            <4>1. Worth(committed[u]) = 0
                BY <1>5 DEF Worth
            <4> QED BY <1>4, <1>6, <1>7, <1>8, <1>9, <2>1, <3>1, <4>1
        <3>2. CASE x # u
            <4>1. D[x] = draft[s][x]
                BY <1>8, <3>2, RowFacts
            <4> QED BY <1>1, <1>9, <2>1, <4>1 DEF AccountsWritten
        <3> QED BY <3>1, <3>2
    <2>3. Stored(s, bill[s].provider)' # NoRow
        BY <1>7, <1>8, <1>9 DEF Stored, u
    <2> QED BY <1>4, <1>9, <2>2, <2>3 DEF AccountsWritten, u
<1>12. \A r \in Logical \cup Token \cup Pass : D[r] = draft[s][r]
    BY <1>4, <1>8, RowFacts
<1>13. PassesWritten(s)'
    BY <1>8, <1>12, PassesKept
<1> QED BY <1>2, <1>8, <1>9, <1>10, <1>11, <1>12, <1>13, MiddleKeeps

LEMMA PayKeeps ==
    ASSUME NEW s, At(s), Pay(s)
    PROVE  SettlementInv'
<1> DEFINE u == bill[s].provider   v == Stored(s, u) + Commission(s)
           D == [draft[s] EXCEPT ![u] = v]
<1>1. /\ s \in Session /\ Tabular /\ PlanFollowed(s) /\ AccountsWritten(s) /\ CommittedFits
      /\ bill[s] \in Bill /\ Doing(s) = "pay" /\ plan[s] \in PlanType
    BY Here, Line DEF Pay
<1>2. Middle(s, "pay", 16) /\ Charging(s) /\ at[s] = 16
    BY <1>1, InMiddle DEF Middle
<1>3. Target(s) = u
    <2>1. Target(s) = Program[bill[s]][16].row
        BY <1>2, Line
    <2> QED BY <1>2, <2>1, MiddleLines DEF IsLine
<1>4. u \in User /\ Stored(s, u) # NoRow
    BY <1>1, <1>2 DEF AccountsWritten
<1>5. /\ u \in Row /\ Stored(s, u) \in Int
      /\ draft[s][u] = Clean => Stored(s, u) = committed[u]
      /\ draft[s][u] # Clean => Stored(s, u) = draft[s][u]
    BY <1>4, AccountStored
<1>6. v \in Int /\ Commission(s) \in Int
    BY <1>5, CommissionInt
<1>7. v # Clean /\ v # NoRow /\ Fits(u, v)
    <2> HIDE DEF v
    <2> QED BY <1>4, <1>6, VersionFacts, RowFacts DEF Fits
<1>8. /\ Continues(s, 1, D, plan[s]) /\ Locked(s, D)
      /\ D[u] = v /\ (\A x \in Row : x # u => D[x] = draft[s][x])
    <2>1. LockIsFree(s, u) /\ TakeLock(s, u) /\ Write(s, u, v) /\ Advance(s, 1)
          /\ UNCHANGED <<committed, view, plan, usage, posted>>
        BY <1>3 DEF Pay
    <2> HIDE DEF u, v
    <2> QED BY <1>5, <1>7, <2>1, WriteStep
<1> HIDE DEF u, D
<1>9. /\ bill'[s] = bill[s] /\ at'[s] = 17 /\ draft'[s] = D /\ committed' = committed
      /\ plan'[s] = plan[s] /\ (Charging(s)' <=> Charging(s)) /\ Doing(s)' \notin {"count", "tally"}
    BY <1>1, <1>2, <1>8, GoesOn, NextNoRequest
<1>10. PlanFollowed(s)'
    BY <1>1, <1>2, <1>9 DEF PlanFollowed
<1>11. AccountsWritten(s)'
    <2>0. Commission(s)' = Commission(s)
        BY <1>9 DEF Commission
    <2>1. /\ \A x \in User : x # u => Moved(s, x)' = Moved(s, x)
          /\ Moved(s, u) \in Int
          /\ \A x \in User : x = u => Moved(s, x)' = Moved(s, u) + Commission(s)
        <3>1. plan[s].left \in Nat
            BY <1>1 DEF PlanType
        <3>2. \A x \in User : x # u => Moved(s, x)' = Moved(s, x)
            BY <1>2, <1>9 DEF Moved, u
        <3> DEFINE paid == IF u = bill[s].user THEN 0 - plan[s].left ELSE 0
        <3>3. paid \in Int
            BY <3>1
        <3>4. Moved(s, u) = paid + 0
            BY <1>2 DEF Moved
        <3>5. \A x \in User : x = u => Moved(s, x)' = paid + Commission(s)
            BY <1>2, <1>9, <2>0 DEF Moved, u
        <3> HIDE DEF paid
        <3> QED BY <1>6, <3>2, <3>3, <3>4, <3>5
    <2>2. ASSUME NEW x \in User
          PROVE  (IF draft[s][x] = Clean THEN Moved(s, x) = 0
                  ELSE draft[s][x] = Worth(committed[x]) + Moved(s, x))'
        <3>1. CASE x = u
            <4>1. Stored(s, u) = Worth(committed[u]) + Moved(s, u) /\ Worth(committed[u]) \in Int
                <5>0. Worth(committed[u]) \in Int
                    <6>1. committed[u] \in Int \cup {NoRow}
                        BY <1>1, <1>4 DEF CommittedFits
                    <6> QED BY <6>1 DEF Worth
                <5>1. CASE draft[s][u] = Clean
                    <6>1. Moved(s, u) = 0
                        BY <1>1, <1>4, <5>1 DEF AccountsWritten
                    <6>2. Worth(committed[u]) = Stored(s, u)
                        BY <1>4, <1>5, <5>1 DEF Worth
                    <6> QED BY <1>5, <5>0, <6>1, <6>2
                <5>2. CASE draft[s][u] # Clean
                    BY <1>1, <1>4, <1>5, <5>0, <5>2 DEF AccountsWritten
                <5> QED BY <5>1, <5>2
            <4>2. v = Worth(committed[u]) + (Moved(s, u) + Commission(s))
                BY <1>6, <2>1, <4>1
            <4>3. draft'[s][u] = v /\ v # Clean /\ committed' = committed
                BY <1>7, <1>8, <1>9
            <4> HIDE DEF v
            <4> QED BY <2>1, <3>1, <4>2, <4>3
        <3>2. CASE x # u
            <4>1. D[x] = draft[s][x]
                BY <1>8, <3>2, RowFacts
            <4> QED BY <1>1, <1>9, <2>1, <3>2, <4>1 DEF AccountsWritten
        <3> QED BY <3>1, <3>2
    <2> QED BY <1>9, <2>2 DEF AccountsWritten
<1>12. \A r \in Logical \cup Token \cup Pass : D[r] = draft[s][r]
    BY <1>4, <1>8, RowFacts
<1>13. PassesWritten(s)'
    BY <1>8, <1>12, PassesKept
<1> QED BY <1>2, <1>8, <1>9, <1>10, <1>11, <1>12, <1>13, MiddleKeeps

LEMMA SpendKeeps ==
    ASSUME NEW s, At(s), Spend(s)
    PROVE  SettlementInv'
<1> DEFINE t == Target(s)   cost == plan[s].covered + plan[s].left
           new == [Stored(s, t) EXCEPT !.quota = @ + cost]
           idle == cost = 0 /\ bill[s].tokens = 0 /\ t # Leaf(bill[s])
           D == IF idle THEN draft[s] ELSE [draft[s] EXCEPT ![t] = new]
<1>1. /\ s \in Session /\ Tabular /\ QuotasWritten(s) /\ CommittedFits
      /\ Doing(s) = "spend" /\ plan[s] \in PlanType
    BY Here DEF Spend
<1>2. /\ bill[s] \in Bill /\ at[s] \in 1 .. Len(Program[bill[s]]) /\ Len(Program[bill[s]]) \in Nat
      /\ Doing(s) = Program[bill[s]][at[s]].do /\ t = Program[bill[s]][at[s]].row
      /\ Works(bill[s], at[s])
    BY Line
<1>3. t \in Token /\ t \in Row /\ t \notin Logical /\ t \notin User /\ t \notin Pass
    <2>1. t \in Token
        BY <1>1, <1>2 DEF Works
    <2> QED BY <2>1, RowFacts
<1>4. Charging(s) => at[s] >= 17
    <2>1. Charging(s) /\ Program[bill[s]][at[s]].do = "spend" => at[s] >= 17
        BY <1>2, Places DEF Charging
    <2> QED BY <1>1, <1>2, <2>1
<1>5. cost \in Int /\ Cost(s) = cost
    BY <1>1 DEF PlanType, Cost
<1>6. Stored(s, t) \in TokenVersion
    BY <1>3, TokenStored
<1> HIDE DEF cost
<1>7. /\ new \in TokenVersion /\ new.requests = Stored(s, t).requests
      /\ new.quota = Stored(s, t).quota + cost /\ Stored(s, t).quota \in Int
    BY <1>5, <1>6 DEF TokenVersion
<1> HIDE DEF new
<1>8. new # Clean /\ Fits(t, new)
    BY <1>3, <1>7, VersionFacts DEF Fits
<1>9. /\ Continues(s, 1, D, plan[s]) /\ Locked(s, D)
      /\ idle => D = draft[s]
      /\ ~idle => D[t] = new /\ \A x \in Row : x # t => D[x] = draft[s][x]
    <2>1. Advance(s, 1) /\ UNCHANGED <<committed, view, plan, usage, posted>>
        BY DEF Spend
    <2>2. CASE idle
        <3>1. UNCHANGED draft /\ UNCHANGED locks
            BY <2>2 DEF Spend, cost
        <3>2. Drafted(s, draft[s]) /\ Planned(s, plan[s])
            BY <1>1, <2>1, <3>1, Drafts
        <3>3. Continues(s, 1, draft[s], plan[s])
            BY <1>1, <2>1, <3>1, <3>2, AdvanceContinues
        <3>4. Locked(s, draft[s])
            BY DEF Locked
        <3> QED BY <2>2, <3>3, <3>4
    <2>3. CASE ~idle
        <3>1. LockIsFree(s, t) /\ TakeLock(s, t) /\ Write(s, t, new)
            BY <2>3 DEF Spend, new, cost
        <3> DEFINE E == [draft[s] EXCEPT ![t] = new]
        <3>2. /\ Continues(s, 1, E, plan[s]) /\ Locked(s, E)
              /\ E[t] = new /\ \A x \in Row : x # t => E[x] = draft[s][x]
            <4> HIDE DEF t
            <4> QED BY <1>3, <1>8, <2>1, <3>1, WriteStep
        <3>3. D = E
            BY <2>3
        <3> HIDE DEF D, E, idle
        <3> QED BY <2>3, <3>2, <3>3
    <2> QED BY <2>2, <2>3
<1> HIDE DEF D
<1>10. \A x \in Logical \cup User \cup Pass : D[x] = draft[s][x]
    BY <1>3, <1>9, RowFacts
<1>11. SameCounters(s, D)
    <2> SUFFICES ASSUME NEW u \in Token
                 PROVE  D[u] = draft[s][u] \/ (D[u] # Clean /\ D[u].requests = Stored(s, u).requests)
        BY DEF SameCounters
    <2>1. u \in Row
        BY RowFacts
    <2> HIDE DEF idle, t
    <2>2. CASE u = t /\ ~idle
        BY <1>7, <1>8, <1>9, <2>2
    <2>3. CASE u # t \/ idle
        BY <1>9, <2>1, <2>3
    <2> QED BY <2>2, <2>3
<1>12. Doing(s)' \notin {"count", "tally"}
    BY <1>1, <1>9, NextNoRequest
<1>13. RequestsWritten(s)' /\ CountersWritten(s)' /\ RequestClaimed(s)'
    <2>1. Charging(s) => at[s] > 5
        BY <1>2, <1>4
    <2> QED BY <1>1, <1>9, <1>10, <1>11, <1>12, <2>1, BeyondRequests
<1>14. PlanFollowed(s)' /\ AccountsWritten(s)' /\ PassesWritten(s)'
    <2>1. Aside(s, 1)
        BY <1>4 DEF Aside
    <2> QED BY <1>9, <1>10, <2>1, PlanKept, AccountsKept, PassesKept
<1>15. /\ bill'[s] = bill[s] /\ at'[s] = at[s] + 1 /\ draft'[s] = D /\ committed' = committed
       /\ plan'[s] = plan[s]
    BY <1>9, GoesOn
<1>16. \A u : Spent(s, u)' <=> Spent(s, u) \/ u = t
    <2> TAKE u
    <2>1. \A m : m \in 1 .. at[s] + 1 - 1 <=> m \in 1 .. at[s] - 1 \/ m = at[s]
        BY <1>2
    <2>2. Spent(s, u)' <=> \E m \in 1 .. at[s] + 1 - 1 : /\ Program[bill[s]][m].do = "spend"
                                                         /\ Program[bill[s]][m].row = u
        <3>1. bill'[s] = bill[s] /\ at'[s] = at[s] + 1 /\ at[s] \in Nat
            BY <1>2, <1>15
        <3> HIDE DEF t, idle
        <3> QED BY <3>1 DEF Spent
    <2>3. Program[bill[s]][at[s]].do = "spend" /\ t = Program[bill[s]][at[s]].row
        BY <1>1, <1>2
    <2> HIDE DEF t
    <2> QED BY <2>1, <2>2, <2>3, Zenon DEF Spent
<1>17. ~Spent(s, t)
    <2>1. ASSUME NEW m \in 1 .. at[s] - 1, Program[bill[s]][m].do = "spend",
                 Program[bill[s]][m].row = t
          PROVE  FALSE
        <3>1. m \in 1 .. Len(Program[bill[s]]) /\ m # at[s]
            BY <1>2
        <3> HIDE DEF t
        <3> QED BY <1>1, <1>2, <2>1, <3>1, SpendOnce
    <2> QED BY <2>1 DEF Spent
<1> HIDE DEF t, idle
<1>18. QuotasWritten(s)'
    <2>0. Cost(s)' = cost
        BY <1>5, <1>15 DEF Cost
    <2>1. ASSUME NEW u \in Token
          PROVE  IF D[u] = Clean THEN Spent(s, u)' => cost = 0
                 ELSE D[u].quota = committed[u].quota + (IF Spent(s, u)' THEN cost ELSE 0)
        <3>0. IF draft[s][u] = Clean THEN Spent(s, u) => cost = 0
              ELSE draft[s][u].quota = committed[u].quota + (IF Spent(s, u) THEN cost ELSE 0)
            BY <1>1, <1>5 DEF QuotasWritten
        <3>1. CASE u # t
            <4>1. D[u] = draft[s][u]
                BY <1>9, <3>1, RowFacts
            <4>2. Spent(s, u)' <=> Spent(s, u)
                BY <1>16, <3>1
            <4> QED BY <3>0, <4>1, <4>2
        <3>2. CASE u = t /\ idle
            <4>1. D[u] = draft[s][u] /\ cost = 0 /\ ~Spent(s, u)
                BY <1>9, <1>17, <3>2 DEF idle
            <4> QED BY <3>0, <4>1
        <3>3. CASE u = t /\ ~idle
            <4>1. D[u] = new /\ new # Clean /\ Spent(s, u)' /\ ~Spent(s, u)
                BY <1>8, <1>9, <1>16, <1>17, <3>3
            <4>2. committed[u].quota \in Int
                <5>1. committed[u] \in TokenVersion
                    BY <1>1 DEF CommittedFits
                <5> QED BY <5>1 DEF TokenVersion
            <4>3. Stored(s, u).quota = committed[u].quota
                <5>1. CASE draft[s][u] = Clean
                    BY <5>1 DEF Stored
                <5>2. CASE draft[s][u] # Clean
                    <6>1. Stored(s, u) = draft[s][u]
                        BY <5>2 DEF Stored
                    <6> QED BY <3>0, <4>1, <4>2, <5>2, <6>1
                <5> QED BY <5>1, <5>2
            <4> QED BY <1>7, <3>3, <4>1, <4>3
        <3> QED BY <3>1, <3>2, <3>3
    <2>2. ASSUME NEW u \in Token
          PROVE  (IF draft[s][u] = Clean THEN Spent(s, u) => Cost(s) = 0
                  ELSE draft[s][u].quota = committed[u].quota + (IF Spent(s, u) THEN Cost(s) ELSE 0))'
        BY <1>15, <2>0, <2>1
    <2> QED BY <2>2 DEF QuotasWritten
<1>19. at[s] + 1 <= Len(Program[bill[s]]) + 1
    BY <1>2
<1> QED BY <1>9, <1>13, <1>14, <1>18, <1>19, WorkKeeps

\* The parts already taken, and the next one.
LEMMA PartFacts ==
    ASSUME NEW parts \in Parts, NEW i \in 1 .. Len(parts)
    PROVE  parts[i].pass \in Pass /\ parts[i].quota \in Int
<1> DEFINE R == [pass : Pass, quota : Int]
<1>1. parts[i] \in R
    <2>1. parts \in Seq(R)
        BY DEF Parts
    <2> HIDE DEF R
    <2> QED BY <2>1
<1> QED BY <1>1

LEMMA TakeNext ==
    ASSUME NEW parts \in Parts, NEW n \in 1 .. Len(parts), NEW p
    PROVE  LET f == TakenFrom(parts, p)
               before == SumFunctionOnSet(f, 1 .. n - 1)
           IN  /\ before \in Int
               /\ SumFunctionOnSet(f, 1 .. (n + 1) - 1) =
                    before + (IF parts[n].pass = p THEN parts[n].quota ELSE 0)
<1> DEFINE f == TakenFrom(parts, p)
<1>1. Len(parts) \in Nat /\ DOMAIN parts = 1 .. Len(parts)
    BY DEF Parts
<1>2. \A i \in 1 .. Len(parts) : parts[i].quota \in Int
    BY PartFacts
<1>3. \A i \in 1 .. Len(parts) : f[i] = (IF parts[i].pass = p THEN parts[i].quota ELSE 0)
    BY <1>1 DEF TakenFrom
<1>4. \A i \in 1 .. Len(parts) : f[i] \in Int
    BY <1>2, <1>3
<1> HIDE DEF f
<1> DEFINE S == 1 .. n - 1
<1>5. IsFiniteSet(S) /\ n \notin S /\ S \cup {n} = 1 .. (n + 1) - 1
    <2>1. n \in Nat /\ n - 1 \in Int
        BY <1>1
    <2>2. IsFiniteSet(S)
        BY <2>1, FS_Interval
    <2> QED BY <2>1, <2>2
<1>6. \A i \in S \cup {n} : f[i] \in Int
    BY <1>1, <1>4
<1>7. SumFunctionOnSet(f, S \cup {n}) = f[n] + SumFunctionOnSet(f, S)
    <2> HIDE DEF S
    <2> QED BY <1>5, <1>6, SumAdd
<1>8. SumFunctionOnSet(f, S) \in Int
    <2> HIDE DEF S
    <2> QED BY <1>5, <1>6, SumInt
<1> DEFINE before == SumFunctionOnSet(f, S)  after == SumFunctionOnSet(f, S \cup {n})
<1>9. before \in Int /\ after = f[n] + before /\ f[n] \in Int
    BY <1>4, <1>7, <1>8
<1>10. after = SumFunctionOnSet(f, 1 .. (n + 1) - 1)
    BY <1>5
<1> HIDE DEF before, after, S
<1>11. after = before + f[n]
    BY <1>9
<1>12. f[n] = (IF parts[n].pass = p THEN parts[n].quota ELSE 0)
    BY <1>3
<1> QED BY <1>9, <1>10, <1>11, <1>12, Zenon DEF before, f, S

\* The loop over the plan ends.
LEMMA CoverEnds ==
    ASSUME NEW s, At(s), CoverByPass(s), plan[s].next > Len(plan[s].parts)
    PROVE  SettlementInv'
<1> DEFINE D == draft[s]
<1>1. /\ s \in Session /\ Tabular /\ PlanFollowed(s) /\ AccountsWritten(s)
      /\ Doing(s) = "cover" /\ plan[s] \in PlanType
    BY Here DEF CoverByPass
<1>2. Middle(s, "cover", 12) /\ Charging(s) /\ at[s] = 12
    BY <1>1, InMiddle DEF Middle
<1>3. Continues(s, 1, D, plan[s])
    <2>1. Advance(s, 1) /\ UNCHANGED <<committed, view, draft, locks, plan, usage, posted>>
        BY DEF CoverByPass, txVars
    <2>2. Drafted(s, D) /\ Planned(s, plan[s])
        BY <1>1, <2>1, Drafts
    <2> HIDE DEF D
    <2> QED BY <1>1, <2>1, <2>2, AdvanceContinues
<1> HIDE DEF D
<1>4. /\ bill'[s] = bill[s] /\ at'[s] = 13 /\ draft'[s] = D /\ committed' = committed
      /\ plan'[s] = plan[s] /\ (Charging(s)' <=> Charging(s)) /\ Doing(s)' \notin {"count", "tally"}
    BY <1>1, <1>2, <1>3, GoesOn, NextNoRequest
<1>5. PlanFollowed(s)'
    <2>1. plan[s].next = Len(plan[s].parts) + 1
        <3>1. Len(plan[s].parts) \in Nat /\ plan[s].next \in Nat
            BY <1>1 DEF PlanType, Parts
        <3> QED BY <1>1, <3>1 DEF PlanFollowed
    <2> QED BY <1>1, <1>2, <1>4, <2>1 DEF PlanFollowed
<1>6. AccountsWritten(s)'
    <2>1. \A x \in User : Moved(s, x)' = Moved(s, x)
        BY <1>2, <1>4 DEF Moved
    <2>2. plan[s].left > 0 => locks'[bill[s].user] = s /\ Stored(s, bill[s].user)' # NoRow
        <3>1. bill[s].user \in Row
            BY <1>1, OwnRows, RowFacts
        <3>2. plan[s].left > 0 => locks[bill[s].user] = s /\ Stored(s, bill[s].user) # NoRow
            BY <1>1, <1>2 DEF AccountsWritten
        <3>3. Stored(s, bill[s].user)' = Stored(s, bill[s].user)
            BY <1>4 DEF Stored, D
        <3> QED BY <1>3, <3>1, <3>2, <3>3 DEF Continues
    <2> QED BY <1>1, <1>4, <2>1, <2>2 DEF AccountsWritten, D
<1>7. PassesWritten(s)'
    BY <1>2, <1>3, PassesKept DEF D
<1>8. Locked(s, D) /\ \A r \in Logical \cup Token : D[r] = draft[s][r]
    BY DEF Locked, D
<1> QED BY <1>2, <1>3, <1>4, <1>5, <1>6, <1>7, <1>8, MiddleKeeps

\* One turn of the loop: the pass still has what the plan takes.
LEMMA CoverKeeps ==
    ASSUME NEW s, At(s), CoverByPass(s), ~(plan[s].next > Len(plan[s].parts)),
           LET part == plan[s].parts[plan[s].next]
           IN  StillCovers(Stored(s, part.pass), part)
    PROVE  SettlementInv'
<1> DEFINE i == plan[s].next   part == plan[s].parts[i]   p == part.pass   old == Stored(s, p)
           new == [remaining |-> old.remaining - part.quota, used |-> old.used + part.quota,
                   window |-> old.window + part.quota]
           pl == [plan[s] EXCEPT !.next = @ + 1]
           D == [draft[s] EXCEPT ![p] = new]
<1>1. /\ s \in Session /\ Tabular /\ PlanFollowed(s) /\ AccountsWritten(s) /\ PassesWritten(s)
      /\ CommittedFits /\ DraftsLocked(s)
      /\ Doing(s) = "cover" /\ plan[s] \in PlanType
    BY Here DEF CoverByPass
<1>2. Middle(s, "cover", 12) /\ Charging(s) /\ at[s] = 12
    BY <1>1, InMiddle DEF Middle
<1>3. /\ plan[s].parts \in Parts /\ plan[s].left \in Nat /\ i \in 1 .. Len(plan[s].parts)
      /\ Len(plan[s].parts) \in Nat
    <2>1. plan[s].parts \in Parts /\ plan[s].left \in Nat /\ i \in Nat \ {0}
        BY <1>1 DEF PlanType
    <2>2. Len(plan[s].parts) \in Nat
        BY <2>1 DEF Parts
    <2> QED BY <2>1, <2>2
<1>4. p \in Pass /\ part.quota \in Int
    <2> DEFINE q == plan[s].parts
    <2>1. q \in Parts /\ i \in 1 .. Len(q) /\ part = q[i]
        BY <1>3
    <2> HIDE DEF q, part, i
    <2> QED BY <2>1, PartFacts
<1>5. /\ pl \in PlanType /\ pl.next = i + 1 /\ pl.parts = plan[s].parts
      /\ pl.covered = plan[s].covered /\ pl.left = plan[s].left
    BY <1>1 DEF PlanType
<1>6. p \in Row /\ p \notin Logical /\ p \notin Token /\ p \notin User
    <2> HIDE DEF p
    <2> QED BY <1>4, RowFacts
<1>7. /\ draft[s][p] = Clean => old = committed[p]
      /\ draft[s][p] # Clean => old = draft[s][p]
      /\ committed[p] \in PassVersion /\ old \in PassVersion
    <2>1. committed[p] \in PassVersion
        BY <1>1, <1>4 DEF CommittedFits
    <2>2. draft[s][p] # Clean => draft[s][p] \in PassVersion
        BY <1>1, <1>4, <1>6 DEF DraftsLocked, Fits
    <2> HIDE DEF p
    <2> QED BY <2>1, <2>2 DEF Stored
<1> HIDE DEF old
<1>8. old.remaining >= part.quota
    BY Zenon DEF StillCovers, old
<1>9. /\ LockIsFree(s, p) /\ TakeLock(s, p) /\ Write(s, p, new)
      /\ plan' = [plan EXCEPT ![s].next = @ + 1]
      /\ UNCHANGED <<committed, view, bill, stage, at, tries, outcome, usage, posted>>
    BY Zenon DEF CoverByPass, old
<1>10. plan' = [plan EXCEPT ![s] = pl]
    BY <1>9
<1> HIDE DEF part, i
<1>11. /\ new \in PassVersion /\ new.remaining >= 0
       /\ new.remaining = old.remaining - part.quota /\ new.used = old.used + part.quota
    BY <1>4, <1>7, <1>8 DEF PassVersion
<1> HIDE DEF new, pl
<1>12. new # Clean /\ Fits(p, new)
    BY <1>4, <1>6, <1>11, VersionFacts DEF Fits
<1>13. Continues(s, 0, D, pl)
    <2>1. Advance(s, 0)
        <3>1. at \in [Session -> Nat \ {0}]
            BY <1>1 DEF Tabular
        <3>2. at' = [at EXCEPT ![s] = at[s] + 0]
            BY <1>1, <1>9, <3>1
        <3> QED BY <1>9, <3>2 DEF Advance
    <2>2. Drafted(s, D) /\ Planned(s, pl)
        BY <1>1, <1>5, <1>9, <1>10, Drafts
    <2> HIDE DEF D, p
    <2> QED BY <1>1, <1>6, <1>9, <2>1, <2>2, AdvanceContinues
<1>14. D[p] = new /\ \A x \in Row : x # p => D[x] = draft[s][x]
    BY <1>1, <1>6 DEF Tabular
<1> HIDE DEF D
<1>15. Locked(s, D)
    <2>1. locks'[p] = s
        <3>1. DOMAIN locks = Row /\ locks' = [locks EXCEPT ![p] = s]
            BY <1>1, <1>9 DEF TakeLock, Tabular
        <3> HIDE DEF p
        <3> QED BY <1>6, <3>1
    <2> HIDE DEF p
    <2> QED BY <1>12, <1>14, <2>1 DEF Locked
<1>16. /\ bill'[s] = bill[s] /\ at'[s] = 12 /\ draft'[s] = D /\ committed' = committed
       /\ plan'[s] = pl /\ (Charging(s)' <=> Charging(s)) /\ Doing(s)' = "cover"
    <2>1. at[s] + 0 = 12 /\ ~(12 > Len(Program[bill[s]])) /\ Program[bill[s]][12].do = "cover"
        BY <1>2, MiddleLines DEF IsLine
    <2> QED BY <1>13, <2>1, GoesOn
<1>17. PlanFollowed(s)'
    BY <1>1, <1>2, <1>3, <1>5, <1>16 DEF PlanFollowed
<1>18. AccountsWritten(s)'
    <2>1. \A x \in User : Moved(s, x) = 0 /\ Moved(s, x)' = 0
        BY <1>2, <1>16 DEF Moved
    <2>2. \A x \in User : D[x] = draft[s][x]
        BY <1>6, <1>14, RowFacts
    <2>3. plan[s].left > 0 => locks'[bill[s].user] = s /\ Stored(s, bill[s].user)' # NoRow
        <3>1. bill[s].user \in Row /\ bill[s].user \in User
            BY <1>1, OwnRows, RowFacts
        <3>2. plan[s].left > 0 => locks[bill[s].user] = s /\ Stored(s, bill[s].user) # NoRow
            <4>1. AccountsWritten(s) /\ Charging(s) /\ at[s] = 12
                BY <1>1, <1>2
            <4>2. at[s] \in {12, 13}
                BY <4>1
            <4> QED BY <4>1, <4>2 DEF AccountsWritten
        <3>3. Stored(s, bill[s].user)' = Stored(s, bill[s].user)
            BY <1>16, <2>2, <3>1 DEF Stored
        <3> QED BY <1>13, <3>1, <3>2, <3>3 DEF Continues
    <2> QED BY <1>1, <1>5, <1>16, <2>1, <2>2, <2>3 DEF AccountsWritten
<1>19. PassesWritten(s)'
    <2>1. ASSUME NEW x \in Pass
          PROVE  (IF draft[s][x] = Clean THEN Taken(s, x) = 0
                  ELSE /\ draft[s][x].remaining >= 0
                       /\ draft[s][x].remaining = committed[x].remaining - Taken(s, x)
                       /\ draft[s][x].used = committed[x].used + Taken(s, x))'
        <3> DEFINE before == Taken(s, x)  after == Taken(s, x)'
        <3>1. before \in Int /\ after = before + (IF part.pass = x THEN part.quota ELSE 0)
            <4> DEFINE q == plan[s].parts
            <4>1. q \in Parts /\ i \in 1 .. Len(q) /\ part = q[i]
                BY <1>3 DEF part
            <4>2. before = SumFunctionOnSet(TakenFrom(q, x), 1 .. i - 1)
                BY DEF Taken, i
            <4>3. after = SumFunctionOnSet(TakenFrom(q, x), 1 .. (i + 1) - 1)
                BY <1>5, <1>16 DEF Taken
            <4> HIDE DEF q, before, after
            <4> QED BY <4>1, <4>2, <4>3, TakeNext, Zenon
        <3>2. IF draft[s][x] = Clean THEN before = 0
              ELSE /\ draft[s][x].remaining >= 0
                   /\ draft[s][x].remaining = committed[x].remaining - before
                   /\ draft[s][x].used = committed[x].used + before
            BY <1>1 DEF PassesWritten
        <3> HIDE DEF before
        <3>3. CASE x # p
            <4>1. D[x] = draft[s][x]
                BY <1>14, <3>3, RowFacts
            <4>2. after = before
                BY <3>1, <3>3
            <4> HIDE DEF after, p
            <4>3. IF D[x] = Clean THEN after = 0
                  ELSE /\ D[x].remaining >= 0
                       /\ D[x].remaining = committed[x].remaining - after
                       /\ D[x].used = committed[x].used + after
                BY <3>2, <4>1, <4>2
            <4> QED BY <1>16, <4>3, Zenon DEF after
        <3>4. CASE x = p
            <4>1. D[x] = new
                BY <1>14, <3>4
            <4>2. after = before + part.quota
                BY <3>1, <3>4
            <4> HIDE DEF after
            <4>3. old.remaining = committed[x].remaining - before /\ old.used = committed[x].used + before
                <5>1. committed[x].remaining \in Int /\ committed[x].used \in Int
                    BY <1>7, <3>4 DEF PassVersion
                <5> QED BY <1>7, <3>2, <3>4, <5>1
            <4>4. committed[x].remaining \in Int /\ committed[x].used \in Int
                BY <1>7, <3>4 DEF PassVersion
            <4>5. IF D[x] = Clean THEN after = 0
                  ELSE /\ D[x].remaining >= 0
                       /\ D[x].remaining = committed[x].remaining - after
                       /\ D[x].used = committed[x].used + after
                <5> HIDE DEF p
                <5>1. before \in Int /\ part.quota \in Int
                    BY <1>4, <3>1
                <5>2. /\ new.remaining >= 0
                      /\ new.remaining = old.remaining - part.quota
                      /\ new.used = old.used + part.quota
                    BY <1>11
                <5>3. /\ new.remaining = committed[x].remaining - after
                      /\ new.used = committed[x].used + after
                    BY <4>2, <4>3, <4>4, <5>1, <5>2
                <5>4. new # Clean
                    BY <1>12
                <5> QED BY <4>1, <5>2, <5>3, <5>4, Zenon
            <4> QED BY <1>16, <4>5, Zenon DEF after
        <3> QED BY <3>3, <3>4
    <2> QED BY <2>1 DEF PassesWritten
<1>20. \A r \in Logical \cup Token : D[r] = draft[s][r]
    BY <1>6, <1>14, RowFacts
<1> QED BY <1>2, <1>5, <1>13, <1>15, <1>16, <1>17, <1>18, <1>19, <1>20, MiddleKeeps

\* The end of a transaction

\* A transaction that begins has what the invariant says of it.
LEMMA FreshWorks ==
    \A x \in Session : Tabular /\ Idle(x) /\ at[x] = 1 /\ plan[x] = NoPlan => Working(x)
<1> SUFFICES ASSUME NEW x \in Session, Tabular, Idle(x), at[x] = 1, plan[x] = NoPlan
             PROVE  Working(x)
    OBVIOUS
<1>1. bill[x] \in Bill
    BY DEF Tabular
<1>2. Len(Program[bill[x]]) \in Nat /\ Len(Program[bill[x]]) >= 4
    BY <1>1, Lengths
<1>3. Program[bill[x]][1].do = "find"
    <2>1. bill[x].op = "charge" => IsLine(bill[x], 1, "find", <<Root(bill[x]), bill[x].id>>)
        BY <1>1, ChargeLine, Zenon
    <2>2. bill[x].op = "record" => IsLine(bill[x], 1, "find", <<Leaf(bill[x]), bill[x].id>>)
        BY <1>1, RecordLine, Zenon
    <2>3. bill[x].op \in {"charge", "record"}
        BY <1>1, BillFacts, Zenon
    <2> QED BY <2>1, <2>2, <2>3 DEF IsLine
<1>4. Doing(x) \in {"none", "find"}
    BY <1>3 DEF Doing
<1>5. \A r \in Row : draft[x][r] = Clean
    BY DEF Idle
<1>6. RequestsWritten(x)
    BY <1>5, RowFacts DEF RequestsWritten
<1>7. CountersWritten(x)
    <2>1. ASSUME NEW t \in Token PROVE draft[x][t] = Clean /\ ~Inserted(x, t) /\ ~Untallied(x, t)
        <3>1. Own(x, t) \in Row /\ t \in Row
            BY OwnRows, RowFacts
        <3> QED BY <1>4, <1>5, <3>1 DEF Inserted, Untallied
    <2> QED BY <2>1 DEF CountersWritten
<1>8. RequestClaimed(x)
    BY <1>4 DEF RequestClaimed
<1>9. plan[x].next = 1 /\ plan[x].parts = <<>>
    BY DEF NoPlan
<1>10. PlanFollowed(x)
    BY <1>9 DEF PlanFollowed
<1>11. AccountsWritten(x)
    <2>1. \A u \in User : Moved(x, u) = 0
        BY DEF Moved
    <2> QED BY <1>5, <2>1, RowFacts DEF AccountsWritten
<1>12. QuotasWritten(x)
    <2>1. \A t : ~Spent(x, t)
        BY DEF Spent
    <2> QED BY <1>5, <2>1, RowFacts DEF QuotasWritten
<1>13. PassesWritten(x)
    <2>1. ASSUME NEW p PROVE Taken(x, p) = 0
        <3>1. 1 .. plan[x].next - 1 = {}
            BY <1>9
        <3> QED BY <3>1, SumEmpty DEF Taken
    <2> QED BY <1>5, <2>1, RowFacts DEF PassesWritten
<1> QED BY <1>2, <1>6, <1>7, <1>8, <1>10, <1>11, <1>12, <1>13 DEF Working

\* What the end of a transaction leaves of the sessions.
LEMMA EndedTx ==
    ASSUME Tabular, NEW s \in Session, EndTx(s)
    PROVE  /\ DOMAIN view' = Session /\ DOMAIN draft' = Session /\ DOMAIN locks' = Row
           /\ view'[s] = NoView /\ draft'[s] = [r \in Row |-> Clean]
           /\ \A r \in Row : locks'[r] # s
           /\ \A x \in Session : x # s => /\ view'[x] = view[x] /\ draft'[x] = draft[x]
                                          /\ \A r \in Row : locks'[r] = x <=> locks[r] = x
<1>1. DOMAIN view = Session /\ DOMAIN draft = Session /\ DOMAIN locks = Row
    BY DEF Tabular
<1>2. /\ view' = [view EXCEPT ![s] = NoView]
      /\ draft' = [draft EXCEPT ![s] = [r \in Row |-> Clean]]
      /\ locks' = [r \in Row |-> IF locks[r] = s THEN Free ELSE locks[r]]
    BY DEF EndTx
<1>3. DOMAIN view' = Session /\ view'[s] = NoView /\ \A x \in Session : x # s => view'[x] = view[x]
    BY <1>1, <1>2
<1>4. /\ DOMAIN draft' = Session /\ draft'[s] = [r \in Row |-> Clean]
      /\ \A x \in Session : x # s => draft'[x] = draft[x]
    BY <1>1, <1>2
<1>5. DOMAIN locks' = Row /\ \A r \in Row : locks'[r] = IF locks[r] = s THEN Free ELSE locks[r]
    BY <1>2
<1>6. \A r \in Row : locks'[r] # s
    BY <1>5, TxAssumption
<1>7. ASSUME NEW x \in Session, x # s, NEW r \in Row PROVE locks'[r] = x <=> locks[r] = x
    BY <1>5, <1>7, TxAssumption
<1> QED BY <1>3, <1>4, <1>5, <1>6, <1>7

\* Where the session goes at the end of its transaction.
Moves(s) ==
    /\ bill' = bill /\ DOMAIN stage' = Session
    /\ at' \in [Session -> Nat \ {0}] /\ plan' \in [Session -> PlanType]
    /\ \A x \in Session : x # s => stage'[x] = stage[x] /\ at'[x] = at[x] /\ plan'[x] = plan[x]
    /\ stage'[s] \in {"work", "release", "over"}
    /\ stage'[s] = "work" => at'[s] = 1 /\ plan'[s] = NoPlan

\* All that is left to show of the end of a transaction is about the tables.
LEMMA EndKeeps ==
    ASSUME SettlementInv, NEW s \in Session, EndTx(s), Moves(s), CommittedFits',
           \A r \in Row : draft[s][r] = Clean => committed'[r] = committed[r],
           \A r \in Optional : committed[r] # NoRow => committed'[r] # NoRow,
           UsageSound', (posted \in [User -> Int])',
           ChargedOnce', TokensMatchUsage', BalancesMatchLedger', PassesMatchUsage'
    PROVE  SettlementInv'
<1>1. Tabular /\ \A x \in Session : SessionInv(x)
    BY DEF SettlementInv
<1>2. /\ DOMAIN view' = Session /\ DOMAIN draft' = Session /\ DOMAIN locks' = Row
      /\ view'[s] = NoView /\ draft'[s] = [r \in Row |-> Clean]
      /\ \A r \in Row : locks'[r] # s
      /\ \A x \in Session : x # s => /\ view'[x] = view[x] /\ draft'[x] = draft[x]
                                     /\ \A r \in Row : locks'[r] = x <=> locks[r] = x
    BY <1>1, EndedTx
<1>3. Tabular'
    <2>1. ASSUME NEW x \in Session PROVE DOMAIN draft'[x] = Row
        <3>1. CASE x = s
            BY <1>2, <3>1
        <3>2. CASE x # s
            BY <1>1, <1>2, <3>2 DEF Tabular
        <3> QED BY <3>1, <3>2
    <2> QED BY <1>1, <1>2, <2>1 DEF Tabular, Moves
<1>4. ASSUME NEW x \in Session, x # s PROVE SessionInv(x)'
    <2>1. \A r \in Row : locks[r] = x => committed'[r] = committed[r]
        <3> TAKE r \in Row
        <3>1. DraftsLocked(s)
            BY <1>1 DEF SessionInv
        <3>2. locks[r] = x => draft[s][r] = Clean
            BY <1>4, <3>1 DEF DraftsLocked
        <3> QED BY <3>2
    <2>2. /\ bill'[x] = bill[x] /\ stage'[x] = stage[x] /\ at'[x] = at[x] /\ plan'[x] = plan[x]
        BY <1>4 DEF Moves
    <2>3. Untouched(x)
        BY <1>2, <1>4, <2>1, <2>2 DEF Untouched
    <2> QED BY <1>1, <2>3, UntouchedKeeps
<1>5. SessionInv(s)'
    <2>1. Idle(s)'
        BY <1>2 DEF Idle
    <2>2. DraftsLocked(s)' /\ ViewOlder(s)'
        BY <1>2 DEF DraftsLocked, ViewOlder
    <2>3. stage'[s] # "acquire"
        BY DEF Moves
    <2>4. stage'[s] = "work" => Working(s)'
        <3>1. (\A x \in Session : Tabular /\ Idle(x) /\ at[x] = 1 /\ plan[x] = NoPlan => Working(x))'
            BY FreshWorks, PTL
        <3>2. stage'[s] = "work" => at'[s] = 1 /\ plan'[s] = NoPlan
            BY DEF Moves
        <3>3. NoPlan' = NoPlan
            BY DEF NoPlan
        <3> QED BY <1>3, <2>1, <3>1, <3>2
    <2> QED BY <2>1, <2>2, <2>3, <2>4 DEF SessionInv
<1>6. \A x \in Session : SessionInv(x)'
    BY <1>4, <1>5
<1> QED BY <1>3, <1>6 DEF SettlementInv

\* A rollback changes no table.
LEMMA RollbackKeeps ==
    ASSUME SettlementInv, NEW s \in Session, RollbackTx(s), UNCHANGED <<usage, posted>>, Moves(s)
    PROVE  SettlementInv'
<1>1. committed' = committed /\ EndTx(s) /\ usage' = usage /\ posted' = posted
    BY DEF RollbackTx
<1>2. /\ CommittedFits /\ UsageSound /\ posted \in [User -> Int]
      /\ ChargedOnce /\ TokensMatchUsage /\ BalancesMatchLedger /\ PassesMatchUsage
    BY DEF SettlementInv
<1>3. CommittedFits'
    BY <1>1, <1>2 DEF CommittedFits
<1>4. UsageSound' /\ (posted \in [User -> Int])' /\ ChargedOnce'
    BY <1>1, <1>2 DEF UsageSound, ChargedOnce
<1>5. BalancesMatchLedger'
    BY <1>1, <1>2 DEF BalancesMatchLedger
<1>6. TokensMatchUsage'
    BY <1>1, <1>2, Zenon DEF TokensMatchUsage
<1>7. PassesMatchUsage'
    BY <1>1, <1>2, Zenon DEF PassesMatchUsage
<1> QED BY <1>1, <1>3, <1>4, <1>5, <1>6, <1>7, EndKeeps

LEMMA Moving ==
    ASSUME Tabular, NEW s \in Session
    PROVE  /\ \A result : Leave(s, result) => Moves(s)
           /\ (/\ bill' = bill /\ stage' = stage /\ stage[s] = "work"
               /\ at' = [at EXCEPT ![s] = 1] /\ plan' = [plan EXCEPT ![s] = NoPlan]) => Moves(s)
<1>1. /\ DOMAIN stage = Session /\ at \in [Session -> Nat \ {0}]
      /\ plan \in [Session -> PlanType] /\ NoPlan \in PlanType
    BY NoPlanFresh DEF Tabular, FreshPlan
<1>2. ASSUME NEW result, Leave(s, result) PROVE Moves(s)
    <2>1. stage' = [stage EXCEPT ![s] = "release"] /\ UNCHANGED <<bill, at, plan>>
        BY <1>2 DEF Leave
    <2>2. /\ DOMAIN stage' = Session /\ stage'[s] = "release"
          /\ \A x \in Session : x # s => stage'[x] = stage[x]
        BY <1>1, <2>1
    <2> QED BY <1>1, <2>1, <2>2 DEF Moves
<1>3. ASSUME bill' = bill, stage' = stage, stage[s] = "work",
             at' = [at EXCEPT ![s] = 1], plan' = [plan EXCEPT ![s] = NoPlan]
      PROVE  Moves(s)
    <2>1. /\ at' \in [Session -> Nat \ {0}] /\ at'[s] = 1
          /\ \A x \in Session : x # s => at'[x] = at[x]
        BY <1>1, <1>3
    <2>2. /\ plan' \in [Session -> PlanType] /\ plan'[s] = NoPlan
          /\ \A x \in Session : x # s => plan'[x] = plan[x]
        <3> HIDE DEF NoPlan, PlanType
        <3> QED BY <1>1, <1>3
    <2> QED BY <1>1, <1>3, <2>1, <2>2 DEF Moves
<1> QED BY <1>2, <1>3

LEMMA ThrowKeeps ==
    ASSUME SettlementInv, NEW s \in Session, NEW result, Throw(s, result)
    PROVE  SettlementInv'
<1>1. Tabular
    BY DEF SettlementInv
<1>2. Moves(s)
    BY <1>1, Moving DEF Throw
<1> QED BY <1>2, RollbackKeeps DEF Throw

LEMMA RetryKeeps ==
    ASSUME SettlementInv, NEW s \in Session, stage[s] = "work", Retry(s)
    PROVE  SettlementInv'
<1>1. Tabular
    BY DEF SettlementInv
<1>2. CASE tries[s] = MaxAttempts - 1
    BY <1>2, ThrowKeeps DEF Retry
<1>3. CASE tries[s] # MaxAttempts - 1
    <2>1. /\ RollbackTx(s) /\ UNCHANGED <<bill, stage, usage, posted>>
          /\ at' = [at EXCEPT ![s] = 1] /\ plan' = [plan EXCEPT ![s] = NoPlan]
        BY <1>3 DEF Retry
    <2>2. Moves(s)
        BY <1>1, <2>1, Moving
    <2> QED BY <2>1, <2>2, RollbackKeeps
<1> QED BY <1>2, <1>3

\* A transaction that commits: at its end, or where it returns early.
Ends(s) ==
    /\ SettlementInv /\ s \in Session /\ stage[s] = "work"
    /\ Doing(s) \notin {"count", "tally"} /\ CommitTx(s, <<>>)

LEMMA Ending ==
    ASSUME NEW s, Ends(s)
    PROVE  /\ s \in Session /\ Tabular /\ CommittedFits /\ DraftsLocked(s) /\ EndTx(s)
           /\ RequestsWritten(s) /\ CountersWritten(s) /\ RequestClaimed(s)
           /\ PlanFollowed(s) /\ AccountsWritten(s) /\ QuotasWritten(s) /\ PassesWritten(s)
           /\ plan[s] \in PlanType /\ Doing(s) \notin {"count", "tally"}
           /\ DOMAIN committed' = Row /\ \A r \in Row : committed'[r] = Stored(s, r)
<1>1. s \in Session /\ Tabular /\ CommittedFits /\ SessionInv(s) /\ stage[s] = "work"
    BY DEF Ends, SettlementInv
<1>2. plan[s] \in PlanType
    BY <1>1 DEF Tabular
<1>3. CommitTx(s, <<>>) /\ Doing(s) \notin {"count", "tally"}
    BY DEF Ends
<1>4. EndTx(s) /\ DOMAIN committed' = Row /\ \A r \in Row : committed'[r] = Stored(s, r)
    <2>1. /\ EndTx(s)
          /\ committed' = [r \in Row |-> IF r \in DOMAIN <<>> THEN <<>>[r] ELSE Stored(s, r)]
        BY <1>3 DEF CommitTx
    <2>2. DOMAIN <<>> = {}
        OBVIOUS
    <2>3. DOMAIN committed' = Row
        BY <2>1
    <2>4. \A r \in Row : committed'[r] = Stored(s, r)
        BY <2>1, <2>2
    <2> QED BY <2>1, <2>3, <2>4
<1> QED BY <1>1, <1>2, <1>3, <1>4 DEF SessionInv, Working

\* Nothing that was there is gone, and nothing settled is taken back.
LEMMA CommitRows ==
    ASSUME NEW s, Ends(s)
    PROVE  /\ CommittedFits'
           /\ \A r \in Row : draft[s][r] = Clean => committed'[r] = committed[r]
           /\ \A r \in Optional : committed[r] # NoRow => committed'[r] # NoRow
           /\ \A q \in Logical : committed[q] # NoRow /\ committed[q].settled =>
                committed'[q] # NoRow /\ committed'[q].settled
<1>1. /\ s \in Session /\ CommittedFits /\ DraftsLocked(s) /\ RequestsWritten(s)
      /\ Doing(s) # "count"
      /\ DOMAIN committed' = Row /\ \A r \in Row : committed'[r] = Stored(s, r)
    BY Ending
<1>2. \A r \in Row : committed'[r] = IF draft[s][r] = Clean THEN committed[r] ELSE draft[s][r]
    BY <1>1 DEF Stored
<1>3. \A r \in Row : draft[s][r] # Clean => Fits(r, draft[s][r])
    BY <1>1 DEF DraftsLocked
<1>4. \A q \in Logical : draft[s][q] # Clean =>
        draft[s][q] \in RequestVersion /\ draft[s][q].counted
    <2>1. ASSUME NEW q \in Logical, draft[s][q] # Clean
          PROVE  draft[s][q] \in RequestVersion /\ draft[s][q].counted
        <3>1. draft[s][q] \in RequestVersion
            BY <1>3, <2>1, RowFacts DEF Fits
        <3>2. draft[s][q].counted
            BY <1>1, <2>1 DEF RequestsWritten
        <3> QED BY <3>1, <3>2
    <2> QED BY <2>1
<1>5. CommittedFits'
    <2>1. (\A q \in Logical : committed[q] # NoRow => committed[q] \in RequestVersion /\ committed[q].counted)'
        BY <1>1, <1>2, <1>4, RowFacts DEF CommittedFits
    <2>2. (\A t \in Token : committed[t] \in TokenVersion)'
        BY <1>1, <1>2, <1>3, RowFacts DEF CommittedFits, Fits
    <2>3. (\A u \in User : committed[u] \in Int \cup {NoRow})'
        BY <1>1, <1>2, <1>3, RowFacts DEF CommittedFits, Fits
    <2>4. (\A p \in Pass : committed[p] \in PassVersion)'
        BY <1>1, <1>2, <1>3, RowFacts DEF CommittedFits, Fits
    <2> QED BY <1>1, <2>1, <2>2, <2>3, <2>4 DEF CommittedFits
<1>6. \A r \in Optional : committed[r] # NoRow => committed'[r] # NoRow
    <2>1. ASSUME NEW r \in Optional, committed[r] # NoRow PROVE committed'[r] # NoRow
        <3>1. r \in Row /\ (r \in Logical \/ r \in User)
            BY RowFacts DEF Optional
        <3>2. CASE draft[s][r] = Clean
            BY <1>2, <2>1, <3>1, <3>2
        <3>3. CASE draft[s][r] # Clean
            <4>1. draft[s][r] \in RequestVersion \/ draft[s][r] \in Int
                BY <1>3, <3>1, <3>3 DEF Fits
            <4> QED BY <1>2, <3>1, <3>3, <4>1, VersionFacts
        <3> QED BY <3>2, <3>3
    <2> QED BY <2>1
<1>7. ASSUME NEW q \in Logical, committed[q] # NoRow, committed[q].settled
      PROVE  committed'[q] # NoRow /\ committed'[q].settled
    <2>1. q \in Row /\ committed'[q] # NoRow
        BY <1>6, <1>7, RowFacts DEF Optional
    <2>2. CASE draft[s][q] = Clean
        BY <1>2, <1>7, <2>1, <2>2
    <2>3. CASE draft[s][q] # Clean
        <3>1. draft[s][q].settled
            BY <1>1, <1>7, <2>3 DEF RequestsWritten
        <3> QED BY <1>2, <2>1, <2>3, <3>1
    <2> QED BY <2>2, <2>3
<1> QED BY <1>2, <1>5, <1>6, <1>7

\* The requests of a token are those that were there, and its own if it is new.
LEMMA CommitCounts ==
    ASSUME NEW s, Ends(s), NEW t \in Token
    PROVE  committed'[t].requests = Cardinality({i \in RequestId : committed'[<<t, i>>] # NoRow})
<1> DEFINE Old == {i \in RequestId : committed[<<t, i>>] # NoRow}
           New == {i \in RequestId : committed'[<<t, i>>] # NoRow}
           id == bill[s].id
<1>1. /\ s \in Session /\ Tabular /\ CommittedFits /\ DraftsLocked(s) /\ RequestsWritten(s)
      /\ CountersWritten(s) /\ Doing(s) \notin {"count", "tally"}
      /\ \A r \in Row : committed'[r] = Stored(s, r)
    BY Ending
<1>2. \A r \in Row : committed'[r] = IF draft[s][r] = Clean THEN committed[r] ELSE draft[s][r]
    BY <1>1 DEF Stored
<1>3. committed[t].requests = Cardinality(Old) /\ committed[t].requests \in Int
    <2>1. committed[t].requests = Cardinality(Old)
        BY Zenon DEF Ends, SettlementInv, TokensMatchUsage
    <2>2. committed[t] \in TokenVersion
        BY <1>1 DEF CommittedFits
    <2> QED BY <2>1, <2>2 DEF TokenVersion
<1>4. IsFiniteSet(Old) /\ IsFiniteSet(RequestId)
    <2>1. IsFiniteSet(RequestId)
        BY SettlementAssumption
    <2> QED BY <2>1, FS_Subset
<1>5. Own(s, t) = <<t, id>> /\ id \in RequestId /\ <<t, id>> \in Row
    BY <1>1, OwnRows, BillFacts, RowFacts DEF Own
<1>6. ~Untallied(s, t)
    BY <1>1 DEF Untallied
<1>7. committed'[t].requests = committed[t].requests + One(Inserted(s, t))
    <2>1. t \in Row
        BY RowFacts
    <2>2. CASE draft[s][t] = Clean
        <3>1. ~Inserted(s, t)
            BY <1>1, <1>6, <2>2 DEF CountersWritten
        <3> QED BY <1>2, <1>3, <2>1, <2>2, <3>1 DEF One
    <2>3. CASE draft[s][t] # Clean
        <3>1. draft[s][t].requests = committed[t].requests + One(Inserted(s, t)) - One(Untallied(s, t))
            BY <1>1, <2>3 DEF CountersWritten
        <3>2. One(Untallied(s, t)) = 0 /\ One(Inserted(s, t)) \in Int
            BY <1>6 DEF One
        <3>3. committed'[t] = draft[s][t]
            BY <1>2, <2>1, <2>3
        <3> QED BY <1>3, <3>1, <3>2, <3>3
    <2> QED BY <2>2, <2>3
<1>8. \A i \in RequestId : i # id => (i \in New <=> i \in Old)
    <2>1. ASSUME NEW i \in RequestId, i # id PROVE committed'[<<t, i>>] = committed[<<t, i>>]
        <3>1. <<t, i>> \in Logical /\ <<t, i>> \in Row
            BY RowFacts
        <3>2. draft[s][<<t, i>>] = Clean
            BY <1>1, <2>1, <3>1 DEF RequestsWritten
        <3> QED BY <1>2, <3>1, <3>2
    <2> QED BY <2>1
<1>9. CASE Inserted(s, t)
    <2>1. draft[s][<<t, id>>] # Clean /\ committed[<<t, id>>] = NoRow
        BY <1>5, <1>9 DEF Inserted
    <2>2. <<t, id>> \in Logical
        BY <1>5, RowFacts
    <2>3. draft[s][<<t, id>>] \in RequestVersion
        BY <1>1, <1>5, <2>1, <2>2 DEF DraftsLocked, Fits
    <2>4. committed'[<<t, id>>] # NoRow
        BY <1>2, <1>5, <2>1, <2>3, VersionFacts
    <2>5. id \notin Old /\ New = Old \cup {id}
        BY <1>5, <1>8, <2>1, <2>4
    <2>6. Cardinality(New) = Cardinality(Old) + 1
        <3> HIDE DEF Old, New
        <3> QED BY <1>4, <2>5, FS_AddElement
    <2> QED BY <1>3, <1>7, <1>9, <2>6 DEF One
<1>10. CASE ~Inserted(s, t)
    <2>1. draft[s][<<t, id>>] = Clean \/ committed[<<t, id>>] # NoRow
        BY <1>5, <1>10 DEF Inserted
    <2>2. committed[<<t, id>>] # NoRow => committed'[<<t, id>>] # NoRow
        BY <1>5, CommitRows, RowFacts DEF Optional
    <2>3. id \in New <=> id \in Old
        BY <1>2, <1>5, <2>1, <2>2
    <2>4. New = Old
        BY <1>5, <1>8, <2>3
    <2>5. Cardinality(New) = Cardinality(Old)
        BY <2>4
    <2> QED BY <1>3, <1>7, <1>10, <2>5 DEF One
<1> QED BY <1>9, <1>10

\* What a transaction publishes of the quota of a token.
Published(s, t) == IF Spent(s, t) THEN Cost(s) ELSE 0

LEMMA CommitQuotas ==
    ASSUME NEW s, Ends(s), NEW t \in Token
    PROVE  committed'[t].quota = committed[t].quota + Published(s, t)
<1>1. /\ QuotasWritten(s) /\ CommittedFits /\ plan[s] \in PlanType
      /\ \A r \in Row : committed'[r] = Stored(s, r)
    BY Ending
<1>2. committed'[t] = IF draft[s][t] = Clean THEN committed[t] ELSE draft[s][t]
    BY <1>1, RowFacts DEF Stored
<1>3. committed[t].quota \in Int
    BY <1>1 DEF CommittedFits, TokenVersion
<1>4. Cost(s) \in Int
    BY <1>1 DEF Cost, PlanType
<1>5. CASE draft[s][t] = Clean
    <2>1. Published(s, t) = 0
        BY <1>1, <1>5 DEF QuotasWritten, Published
    <2> QED BY <1>2, <1>3, <1>5, <2>1
<1>6. CASE draft[s][t] # Clean
    <2>1. draft[s][t].quota = committed[t].quota + Published(s, t)
        BY <1>1, <1>6 DEF QuotasWritten, Published
    <2> QED BY <1>2, <1>6, <2>1
<1> QED BY <1>5, <1>6

LEMMA CommitAccounts ==
    ASSUME NEW s, Ends(s), NEW u \in User
    PROVE  /\ Worth(committed'[u]) = Worth(committed[u]) + Moved(s, u)
           /\ Worth(committed[u]) \in Int
<1>1. /\ AccountsWritten(s) /\ CommittedFits /\ DraftsLocked(s)
      /\ \A r \in Row : committed'[r] = Stored(s, r)
    BY Ending
<1>2. committed'[u] = IF draft[s][u] = Clean THEN committed[u] ELSE draft[s][u]
    BY <1>1, RowFacts DEF Stored
<1>3. Worth(committed[u]) \in Int
    BY <1>1 DEF CommittedFits, Worth
<1>4. CASE draft[s][u] = Clean
    <2>1. Moved(s, u) = 0
        BY <1>1, <1>4 DEF AccountsWritten
    <2> QED BY <1>2, <1>3, <1>4, <2>1
<1>5. CASE draft[s][u] # Clean
    <2>1. draft[s][u] = Worth(committed[u]) + Moved(s, u)
        BY <1>1, <1>5 DEF AccountsWritten
    <2>2. draft[s][u] \in Int
        BY <1>1, <1>5, RowFacts DEF DraftsLocked, Fits
    <2>3. Worth(draft[s][u]) = draft[s][u]
        BY <2>2, VersionFacts DEF Worth
    <2> QED BY <1>2, <1>3, <1>5, <2>1, <2>3
<1> QED BY <1>3, <1>4, <1>5

LEMMA CommitPasses ==
    ASSUME NEW s, Ends(s), NEW p \in Pass
    PROVE  /\ committed'[p].remaining = committed[p].remaining - Taken(s, p)
           /\ committed'[p].used = committed[p].used + Taken(s, p)
           /\ committed'[p].remaining >= 0
<1>1. /\ PassesWritten(s) /\ CommittedFits /\ \A r \in Row : committed'[r] = Stored(s, r)
    BY Ending
<1>2. committed'[p] = IF draft[s][p] = Clean THEN committed[p] ELSE draft[s][p]
    BY <1>1, RowFacts DEF Stored
<1>3. committed[p].remaining \in Int /\ committed[p].used \in Int
    BY <1>1 DEF CommittedFits, PassVersion
<1>4. committed[p].remaining >= 0
    BY Zenon DEF Ends, SettlementInv, PassesMatchUsage
<1>5. CASE draft[s][p] = Clean
    <2>1. Taken(s, p) = 0
        BY <1>1, <1>5 DEF PassesWritten
    <2> QED BY <1>2, <1>3, <1>4, <1>5, <2>1
<1>6. CASE draft[s][p] # Clean
    BY <1>1, <1>2, <1>6 DEF PassesWritten
<1> QED BY <1>5, <1>6

\* A usage row keeps the request it belongs to.
LEMMA UsageKept ==
    ASSUME NEW s, Ends(s), NEW w \in usage
    PROVE  /\ w.path \in Seq(Token) /\ w.path # <<>> /\ w.id \in RequestId
           /\ w.charged \in Int /\ w.covered \in Int /\ w.parts \in Parts
           /\ <<Root(w), w.id>> \in Logical
           /\ committed[<<Root(w), w.id>>] # NoRow /\ committed[<<Root(w), w.id>>].settled
           /\ committed'[<<Root(w), w.id>>] # NoRow /\ committed'[<<Root(w), w.id>>].settled
<1>1. UsageSound
    BY DEF Ends, SettlementInv
<1>2. /\ w.path \in Seq(Token) /\ w.path # <<>> /\ w.id \in RequestId
      /\ w.charged \in Int /\ w.covered \in Int /\ w.parts \in Parts
      /\ committed[<<Root(w), w.id>>] # NoRow /\ committed[<<Root(w), w.id>>].settled
    BY <1>1 DEF UsageSound
<1>3. Root(w) \in Token
    <2>1. Head(w.path) \in Token
        BY <1>2
    <2> QED BY <2>1 DEF Root
<1>4. <<Root(w), w.id>> \in Logical
    BY <1>2, <1>3, RowFacts
<1> QED BY <1>2, <1>4, CommitRows

\* A commit that adds no usage row and publishes no money and no quota.
LEMMA SilentKeeps ==
    ASSUME NEW s, Ends(s), Moves(s), UNCHANGED <<usage, posted>>,
           \A t \in Token : Published(s, t) = 0,
           \A u \in User : Moved(s, u) = 0,
           \A p \in Pass : Taken(s, p) = 0
    PROVE  SettlementInv'
<1>1. usage' = usage /\ posted' = posted
    OBVIOUS
<1>2. /\ SettlementInv /\ s \in Session /\ EndTx(s) /\ CommittedFits
    BY Ending DEF Ends
<1>3. /\ UsageSound /\ posted \in [User -> Int] /\ ChargedOnce
      /\ TokensMatchUsage /\ BalancesMatchLedger /\ PassesMatchUsage
    BY <1>2 DEF SettlementInv
<1>4. UsageSound'
    <2>1. \A w \in usage :
            /\ w.path \in Seq(Token) /\ w.path # <<>> /\ w.id \in RequestId
            /\ w.charged \in Int /\ w.covered \in Int /\ w.parts \in Parts
            /\ committed'[<<Root(w), w.id>>] # NoRow /\ committed'[<<Root(w), w.id>>].settled
        BY UsageKept
    <2> QED BY <1>1, <1>3, <2>1 DEF UsageSound
<1>5. ChargedOnce'
    BY <1>1, <1>3 DEF ChargedOnce
<1>6. TokensMatchUsage'
    <2> DEFINE total(t) == SumFunction([w \in usage |->
                             IF Contains(w.path, t) THEN w.charged + w.covered ELSE 0])
    <2>1. \A t \in Token : committed[t].quota = Opening[t].quota + total(t)
        BY <1>3, Zenon DEF TokensMatchUsage
    <2>2. \A t \in Token : total(t)' = total(t)
        BY <1>1
    <2> HIDE DEF total
    <2>3. \A t \in Token : committed'[t].quota = committed[t].quota
        <3>1. \A t \in Token : committed[t].quota \in Int
            BY <1>2 DEF CommittedFits, TokenVersion
        <3>2. \A t \in Token : committed'[t].quota = committed[t].quota + Published(s, t)
            BY CommitQuotas
        <3> QED BY <3>1, <3>2
    <2>4. \A t \in Token : committed'[t].requests =
            Cardinality({i \in RequestId : committed'[<<t, i>>] # NoRow})
        BY CommitCounts
    <2>5. \A t \in Token : committed'[t].quota = Opening[t].quota + total(t)'
        BY <2>1, <2>2, <2>3, Zenon
    <2> QED BY <2>4, <2>5, Zenon DEF TokensMatchUsage, total
<1>7. BalancesMatchLedger'
    <2>1. \A u \in User : Worth(committed'[u]) = Worth(committed[u])
        <3>1. \A u \in User : /\ Worth(committed'[u]) = Worth(committed[u]) + Moved(s, u)
                              /\ Worth(committed[u]) \in Int
            BY CommitAccounts
        <3> QED BY <3>1
    <2> QED BY <1>1, <1>3, <2>1 DEF BalancesMatchLedger
<1>8. PassesMatchUsage'
    <2> DEFINE total(p) == SumFunction([w \in usage |-> TakenBy(w, p)])
    <2>1. \A p \in Pass : /\ committed[p].remaining = Opening[p].remaining - total(p)
                          /\ committed[p].used = Opening[p].used + total(p)
        BY <1>3, Zenon DEF PassesMatchUsage
    <2>2. \A p \in Pass : total(p)' = total(p)
        BY <1>1
    <2> HIDE DEF total
    <2>3. \A p \in Pass : /\ committed'[p].remaining = committed[p].remaining
                          /\ committed'[p].used = committed[p].used
                          /\ committed'[p].remaining >= 0
        <3>1. \A p \in Pass : committed[p].remaining \in Int /\ committed[p].used \in Int
            BY <1>2 DEF CommittedFits, PassVersion
        <3>2. \A p \in Pass : /\ committed'[p].remaining = committed[p].remaining - Taken(s, p)
                              /\ committed'[p].used = committed[p].used + Taken(s, p)
                              /\ committed'[p].remaining >= 0
            BY CommitPasses
        <3> QED BY <3>1, <3>2
    <2>4. \A p \in Pass : /\ committed'[p].remaining >= 0
                          /\ committed'[p].remaining = Opening[p].remaining - total(p)'
                          /\ committed'[p].used = Opening[p].used + total(p)'
        BY <2>1, <2>2, <2>3, Zenon
    <2> QED BY <2>4, Zenon DEF PassesMatchUsage, total
<1>9. (posted \in [User -> Int])'
    BY <1>1, <1>3
<1>10. /\ CommittedFits' /\ \A r \in Row : draft[s][r] = Clean => committed'[r] = committed[r]
       /\ \A r \in Optional : committed[r] # NoRow => committed'[r] # NoRow
    BY CommitRows
<1> QED BY <1>2, <1>4, <1>5, <1>6, <1>7, <1>8, <1>9, <1>10, EndKeeps

\* Before the pass and the balance are touched nothing has been taken, and a
\* transaction that only records takes nothing at all.
LEMMA NothingTaken ==
    ASSUME NEW s, Ends(s), ~Charging(s) \/ at[s] <= 11
    PROVE  /\ \A t \in Token : Published(s, t) = 0
           /\ \A u \in User : Moved(s, u) = 0
           /\ \A p \in Pass : Taken(s, p) = 0
<1>1. s \in Session /\ Tabular /\ PlanFollowed(s) /\ plan[s] \in PlanType
    BY Ending
<1>2. bill[s] \in Bill /\ at[s] \in Nat \ {0}
    BY <1>1 DEF Tabular
<1>3. ~Charging(s) => plan[s] = NoPlan
    BY <1>1 DEF PlanFollowed
<1>4. plan[s].next = 1
    <2>1. CASE Charging(s)
        BY <1>1, <1>2, <2>1 DEF PlanFollowed
    <2>2. CASE ~Charging(s)
        BY <1>3, <2>2 DEF NoPlan
    <2> QED BY <2>1, <2>2
<1>5. ASSUME NEW p PROVE Taken(s, p) = 0
    <2>1. 1 .. plan[s].next - 1 = {}
        BY <1>4
    <2> QED BY <2>1, SumEmpty DEF Taken
<1>6. ASSUME NEW u PROVE Moved(s, u) = 0
    BY <1>2 DEF Moved
<1>7. ASSUME NEW t PROVE Published(s, t) = 0
    <2>1. CASE ~Charging(s)
        <3>1. Cost(s) = 0
            BY <1>3, <2>1 DEF Cost, NoPlan
        <3> QED BY <3>1 DEF Published
    <2>2. CASE Charging(s)
        <3>1. bill[s].op = "charge"
            BY <2>2 DEF Charging
        <3>2. Len(Program[bill[s]]) \in Nat /\ Len(Program[bill[s]]) >= 17
            <4>1. Fixed(bill[s]) = 17
                BY <3>1 DEF Fixed
            <4> QED BY <1>2, <4>1, Lengths
        <3>3. ASSUME NEW m \in 1 .. at[s] - 1 PROVE Program[bill[s]][m].do # "spend"
            <4>1. m \in 1 .. Len(Program[bill[s]]) /\ m < 17
                BY <1>2, <2>2, <3>2
            <4>2. Program[bill[s]][m].do = "spend" => m >= 17
                BY <1>2, <3>1, <4>1, Places
            <4> QED BY <4>1, <4>2
        <3>4. ~Spent(s, t)
            BY <3>3 DEF Spent
        <3> QED BY <3>4 DEF Published
    <2> QED BY <2>1, <2>2
<1> QED BY <1>5, <1>6, <1>7

LEMMA ReturnKeeps ==
    ASSUME NEW s, At(s), NEW result, ReturnEarly(s, result), Charging(s), at[s] <= 11,
           Doing(s) \notin {"count", "tally"}
    PROVE  SettlementInv'
<1>1. s \in Session /\ Tabular /\ stage[s] = "work" /\ SettlementInv
    BY Here DEF At
<1>2. CommitTx(s, <<>>) /\ Leave(s, result) /\ UNCHANGED <<usage, posted>>
    BY DEF ReturnEarly
<1>3. Ends(s)
    BY <1>1, <1>2 DEF Ends
<1>4. Moves(s)
    BY <1>1, <1>2, Moving
<1> QED BY <1>2, <1>3, <1>4, NothingTaken, SilentKeeps

\* The end of a transaction that only records.
LEMMA RecordEnds ==
    ASSUME SettlementInv, NEW s \in Session, Commit(s), bill[s].op = "record"
    PROVE  SettlementInv'
<1>1. /\ stage[s] = "work" /\ Finished(s) /\ CommitTx(s, <<>>) /\ Leave(s, "applied")
      /\ UNCHANGED <<usage, posted>>
    BY DEF Commit
<1>2. Doing(s) = "none"
    BY <1>1 DEF Doing
<1>3. Ends(s) /\ ~Charging(s)
    BY <1>1, <1>2 DEF Ends, Charging
<1>4. Moves(s)
    BY <1>1, Moving DEF SettlementInv
<1> QED BY <1>1, <1>3, <1>4, NothingTaken, SilentKeeps

\* The sum over a set that grows by one element.
LEMMA SumExtends ==
    ASSUME NEW S, IsFiniteSet(S), NEW x, x \notin S, NEW f, NEW g,
           DOMAIN f = S \cup {x}, DOMAIN g = S,
           \A y \in S : g[y] \in Int /\ f[y] = g[y], f[x] \in Int
    PROVE  SumFunction(g) \in Int /\ SumFunction(f) = SumFunction(g) + f[x]
<1>1. \A y \in S \cup {x} : f[y] \in Int
    OBVIOUS
<1>2. SumFunctionOnSet(f, S \cup {x}) = f[x] + SumFunctionOnSet(f, S)
    BY <1>1, SumAdd
<1>3. SumFunctionOnSet(f, S) = SumFunctionOnSet(g, S)
    BY SumSame
<1>4. SumFunctionOnSet(g, S) \in Int
    BY SumInt
<1>5. SumFunction(f) = SumFunctionOnSet(f, S \cup {x}) /\ SumFunction(g) = SumFunctionOnSet(g, S)
    BY DEF SumFunction
<1> QED BY <1>2, <1>3, <1>4, <1>5

\* The end of a charge: all that it did is published with its usage row.
Charges(s) == Ends(s) /\ Commit(s) /\ Charging(s)

LEMMA Charged ==
    ASSUME NEW s, Charges(s)
    PROVE  /\ Ends(s) /\ Moves(s) /\ s \in Session /\ bill[s] \in Bill /\ bill[s].op = "charge"
           /\ plan[s] \in PlanType /\ plan[s].next = Len(plan[s].parts) + 1
           /\ at[s] = Len(Program[bill[s]]) + 1 /\ at[s] >= 18
           /\ usage' = usage \cup {UsageRow(s)}
           /\ posted' = [u \in User |-> posted[u]
                            - (IF u = bill[s].user THEN plan[s].left ELSE 0)
                            + (IF u = bill[s].provider THEN Commission(s) ELSE 0)]
<1>1. /\ Ends(s) /\ SettlementInv /\ s \in Session /\ stage[s] = "work" /\ bill[s].op = "charge"
    BY DEF Charges, Ends, Charging
<1>2. Tabular /\ PlanFollowed(s) /\ plan[s] \in PlanType
    BY <1>1, Ending
<1>3. bill[s] \in Bill /\ at[s] \in Nat \ {0}
    BY <1>1, <1>2 DEF Tabular
<1>4. Finished(s) /\ Leave(s, "applied")
    BY DEF Charges, Commit
<1>5. Working(s)
    BY <1>1 DEF SettlementInv, SessionInv
<1>6. Len(Program[bill[s]]) \in Nat /\ Len(Program[bill[s]]) >= 17
    <2>1. Fixed(bill[s]) = 17
        BY <1>1 DEF Fixed
    <2> QED BY <1>3, <2>1, Lengths
<1>7. at[s] = Len(Program[bill[s]]) + 1 /\ at[s] >= 18
    <2>1. at[s] <= Len(Program[bill[s]]) + 1
        BY <1>5 DEF Working
    <2>2. at[s] > Len(Program[bill[s]])
        BY <1>4 DEF Finished
    <2> QED BY <1>3, <1>6, <2>1, <2>2
<1>8. plan[s].next = Len(plan[s].parts) + 1
    BY <1>2, <1>7, <1>3 DEF PlanFollowed
<1>9. Moves(s)
    BY <1>1, <1>2, <1>4, Moving
<1>10. /\ usage' = usage \cup {UsageRow(s)}
       /\ posted' = [u \in User |-> posted[u]
                        - (IF u = bill[s].user THEN plan[s].left ELSE 0)
                        + (IF u = bill[s].provider THEN Commission(s) ELSE 0)]
    BY <1>1 DEF Charges, Commit
<1> QED BY <1>1, <1>2, <1>3, <1>7, <1>8, <1>9, <1>10

\* Its usage row is new, and of a request no other usage row belongs to.
LEMMA NewUsage ==
    ASSUME NEW s, Charges(s)
    PROVE  LET W == UsageRow(s) IN
           /\ W.path = bill[s].path /\ W.id = bill[s].id /\ W.parts = plan[s].parts
           /\ W.charged = plan[s].left /\ W.covered = plan[s].covered
           /\ W.path \in Seq(Token) /\ W.path # <<>> /\ W.id \in RequestId
           /\ W.charged \in Int /\ W.covered \in Int /\ W.parts \in Parts
           /\ committed'[<<Root(W), W.id>>] # NoRow /\ committed'[<<Root(W), W.id>>].settled
           /\ \A w \in usage : Root(w) # Root(W) \/ w.id # W.id
           /\ W \notin usage
<1> DEFINE W == UsageRow(s)   q == Claimed(s)
<1>1. /\ Ends(s) /\ s \in Session /\ bill[s] \in Bill /\ bill[s].op = "charge"
      /\ plan[s] \in PlanType /\ at[s] >= 18
    BY Charged
<1>2. /\ Tabular /\ RequestClaimed(s) /\ DraftsLocked(s)
      /\ \A r \in Row : committed'[r] = Stored(s, r)
    BY <1>1, Ending
<1>3. /\ W.path = bill[s].path /\ W.id = bill[s].id /\ W.parts = plan[s].parts
      /\ W.charged = plan[s].left /\ W.covered = plan[s].covered
    BY DEF UsageRow
<1>4. /\ W.path \in Seq(Token) /\ W.path # <<>> /\ W.id \in RequestId
    <2>1. /\ bill[s].path \in Seq(Token) /\ bill[s].path # <<>> /\ bill[s].id \in RequestId
        BY <1>1, SettlementAssumption
    <2> QED BY <1>3, <2>1
<1>5. W.charged \in Int /\ W.covered \in Int /\ W.parts \in Parts
    BY <1>1, <1>3 DEF PlanType
<1>6. <<Root(W), W.id>> = q
    <2>1. Root(W) = Root(bill[s])
        BY <1>3 DEF Root
    <2> QED BY <1>3, <2>1 DEF Claimed, Own
<1>7. q \in Logical /\ q \in Row
    BY <1>1, <1>2, OwnRows, RowFacts
<1>8. /\ draft[s][q] # Clean /\ draft[s][q].settled
      /\ committed[q] # NoRow => ~committed[q].settled
    <2>1. Charging(s) /\ at[s] > 5
        <3>1. at[s] \in Nat
            BY <1>1, <1>2 DEF Tabular
        <3> QED BY <1>1, <3>1 DEF Charging
    <2> QED BY <1>2, <2>1 DEF RequestClaimed
<1>9. committed'[q] # NoRow /\ committed'[q].settled
    <2>1. draft[s][q] \in RequestVersion
        BY <1>2, <1>7, <1>8 DEF DraftsLocked, Fits
    <2>2. committed'[q] = draft[s][q]
        BY <1>2, <1>7, <1>8 DEF Stored
    <2> QED BY <1>8, <2>1, <2>2, VersionFacts
<1>10. ASSUME NEW w \in usage PROVE Root(w) # Root(W) \/ w.id # W.id
    <2>1. committed[<<Root(w), w.id>>] # NoRow /\ committed[<<Root(w), w.id>>].settled
        BY <1>1, UsageKept
    <2>2. <<Root(w), w.id>> # q
        BY <1>8, <2>1
    <2> QED BY <1>6, <2>2
<1>11. W \notin usage
    BY <1>10
<1> HIDE DEF W
<1>12. committed'[<<Root(W), W.id>>] # NoRow /\ committed'[<<Root(W), W.id>>].settled
    BY <1>6, <1>9
<1> QED BY <1>3, <1>4, <1>5, <1>10, <1>11, <1>12 DEF W

\* What a usage row adds to the quota of a token.
Burden(w, t) == IF Contains(w.path, t) THEN w.charged + w.covered ELSE 0

LEMMA ChargedTokens ==
    ASSUME NEW s, Charges(s)
    PROVE  TokensMatchUsage'
<1> DEFINE W == UsageRow(s)
           total(t) == SumFunction([w \in usage |-> Burden(w, t)])
           after(t) == SumFunction([w \in usage \cup {W} |-> Burden(w, t)])
<1>1. /\ Ends(s) /\ bill[s] \in Bill /\ bill[s].op = "charge" /\ plan[s] \in PlanType
      /\ at[s] = Len(Program[bill[s]]) + 1 /\ usage' = usage \cup {W}
    BY Charged
<1>2. /\ W.path = bill[s].path /\ W.charged = plan[s].left /\ W.covered = plan[s].covered
      /\ W.charged \in Int /\ W.covered \in Int /\ W \notin usage
    BY NewUsage
<1> HIDE DEF W
<1>3. TokensMatchUsage /\ UsageSound /\ CommittedFits
    BY <1>1 DEF Ends, SettlementInv
<1>4. IsFiniteSet(usage) /\ \A w \in usage : w.charged \in Int /\ w.covered \in Int
    BY <1>3 DEF UsageSound
<1>5. ASSUME NEW t \in Token PROVE total(t) \in Int /\ after(t) = total(t) + Burden(W, t)
    <2> DEFINE f == [w \in usage \cup {W} |-> Burden(w, t)]
               g == [w \in usage |-> Burden(w, t)]
    <2>1. \A w \in usage : Burden(w, t) \in Int
        BY <1>4 DEF Burden
    <2>2. Burden(W, t) \in Int
        BY <1>2 DEF Burden
    <2>3. DOMAIN f = usage \cup {W} /\ DOMAIN g = usage
        OBVIOUS
    <2>4. (\A w \in usage : g[w] = Burden(w, t) /\ f[w] = g[w]) /\ f[W] = Burden(W, t)
        OBVIOUS
    <2> HIDE DEF f, g
    <2>5. SumFunction(g) \in Int /\ SumFunction(f) = SumFunction(g) + f[W]
        <3>1. (\A w \in usage : g[w] \in Int /\ f[w] = g[w]) /\ f[W] \in Int
            BY <2>1, <2>2, <2>4
        <3>2. IsFiniteSet(usage) /\ W \notin usage
            BY <1>2, <1>4
        <3> QED BY <2>3, <3>1, <3>2, SumExtends
    <2>6. SumFunction(g) \in Int /\ SumFunction(f) = SumFunction(g) + Burden(W, t)
        BY <2>4, <2>5
    <2> QED BY <2>6 DEF f, g
<1>6. ASSUME NEW t \in Token PROVE Published(s, t) = Burden(W, t)
    <2>1. Spent(s, t) <=> Contains(bill[s].path, t)
        <3>1. Len(Program[bill[s]]) \in Nat
            BY <1>1, Lengths
        <3>2. 1 .. at[s] - 1 = 1 .. Len(Program[bill[s]])
            BY <1>1, <3>1
        <3> DEFINE Wrote(n) == Program[bill[s]][n].do = "spend" /\ Program[bill[s]][n].row = t
        <3>3. (\E n \in 1 .. Len(Program[bill[s]]) : Wrote(n)) <=> Contains(bill[s].path, t)
            BY <1>1, AllSpent
        <3>4. Spent(s, t) <=> \E n \in 1 .. at[s] - 1 : Wrote(n)
            BY DEF Spent
        <3> HIDE DEF Wrote
        <3> QED BY <3>2, <3>3, <3>4
    <2> QED BY <1>2, <1>1, <2>1 DEF Published, Burden, Cost, PlanType
<1>7. \A t \in Token : committed[t].quota = Opening[t].quota + total(t)
    BY <1>3, Zenon DEF TokensMatchUsage, Burden
<1>8. \A t \in Token : committed'[t].quota = committed[t].quota + Published(s, t)
    BY <1>1, CommitQuotas
<1>9. \A t \in Token : Opening[t].quota \in Int /\ Burden(W, t) \in Int
    <2>1. \A t \in Token : Opening[t] \in TokenVersion
        BY SettlementAssumption, Zenon
    <2>2. \A t \in Token : Opening[t].quota \in Int
        BY <2>1 DEF TokenVersion
    <2>3. W.charged + W.covered \in Int
        BY <1>2
    <2> QED BY <2>2, <2>3 DEF Burden
<1> HIDE DEF total, after
<1>10. \A t \in Token : committed'[t].quota = Opening[t].quota + after(t)
    BY <1>5, <1>6, <1>7, <1>8, <1>9
<1>11. \A t \in Token : committed'[t].requests =
         Cardinality({i \in RequestId : committed'[<<t, i>>] # NoRow})
    BY <1>1, CommitCounts
<1>12. \A t \in Token : after(t) = SumFunction([w \in usage' |->
         IF Contains(w.path, t) THEN w.charged + w.covered ELSE 0])
    BY <1>1, Zenon DEF after, Burden
<1>13. \A t \in Token : committed'[t].quota = Opening[t].quota + SumFunction([w \in usage' |->
         IF Contains(w.path, t) THEN w.charged + w.covered ELSE 0])
    BY <1>10, <1>12, Zenon
<1> QED BY <1>11, <1>13, Zenon DEF TokensMatchUsage

LEMMA TakenByParts ==
    \A w, p : TakenBy(w, p) = SumFunction(TakenFrom(w.parts, p))
BY DEF TakenBy, TakenFrom

LEMMA PartsSum ==
    ASSUME NEW parts \in Parts, NEW p
    PROVE  /\ SumFunction(TakenFrom(parts, p)) \in Int
           /\ SumFunction(TakenFrom(parts, p)) = SumFunctionOnSet(TakenFrom(parts, p), 1 .. Len(parts))
<1> DEFINE f == TakenFrom(parts, p)
<1>1. Len(parts) \in Nat /\ DOMAIN parts = 1 .. Len(parts)
    BY DEF Parts
<1>2. DOMAIN f = 1 .. Len(parts) /\ \A i \in 1 .. Len(parts) : f[i] \in Int
    BY <1>1, PartFacts DEF TakenFrom
<1>3. IsFiniteSet(1 .. Len(parts))
    BY <1>1, FS_Interval
<1> HIDE DEF f
<1>4. SumFunction(f) = SumFunctionOnSet(f, 1 .. Len(parts))
    BY <1>2 DEF SumFunction
<1>5. SumFunctionOnSet(f, 1 .. Len(parts)) \in Int
    BY <1>2, <1>3, SumInt
<1> QED BY <1>4, <1>5 DEF f

LEMMA ChargedPasses ==
    ASSUME NEW s, Charges(s)
    PROVE  PassesMatchUsage'
<1> DEFINE W == UsageRow(s)
           total(p) == SumFunction([w \in usage |-> TakenBy(w, p)])
           after(p) == SumFunction([w \in usage \cup {W} |-> TakenBy(w, p)])
<1>1. /\ Ends(s) /\ plan[s] \in PlanType /\ plan[s].next = Len(plan[s].parts) + 1
      /\ usage' = usage \cup {W}
    BY Charged
<1>2. W.parts = plan[s].parts /\ W.parts \in Parts /\ W \notin usage
    BY NewUsage
<1> HIDE DEF W
<1>3. PassesMatchUsage /\ UsageSound /\ CommittedFits
    BY <1>1 DEF Ends, SettlementInv
<1>4. IsFiniteSet(usage) /\ \A w \in usage : w.parts \in Parts
    BY <1>3 DEF UsageSound
<1>5. \A w \in usage \cup {W}, p \in Pass : TakenBy(w, p) \in Int
    BY <1>2, <1>4, TakenByParts, PartsSum
<1>6. ASSUME NEW p \in Pass PROVE total(p) \in Int /\ after(p) = total(p) + TakenBy(W, p)
    <2> DEFINE f == [w \in usage \cup {W} |-> TakenBy(w, p)]
               g == [w \in usage |-> TakenBy(w, p)]
    <2>1. (\A w \in usage : TakenBy(w, p) \in Int) /\ TakenBy(W, p) \in Int
        BY <1>5
    <2>2. DOMAIN f = usage \cup {W} /\ DOMAIN g = usage
        OBVIOUS
    <2>3. (\A w \in usage : g[w] = TakenBy(w, p) /\ f[w] = g[w]) /\ f[W] = TakenBy(W, p)
        OBVIOUS
    <2> HIDE DEF f, g
    <2>4. SumFunction(g) \in Int /\ SumFunction(f) = SumFunction(g) + f[W]
        BY <1>2, <1>4, <2>1, <2>2, <2>3, SumExtends
    <2>5. SumFunction(g) \in Int /\ SumFunction(f) = SumFunction(g) + TakenBy(W, p)
        BY <2>3, <2>4
    <2> QED BY <2>5 DEF f, g
<1>7. ASSUME NEW p \in Pass PROVE Taken(s, p) = TakenBy(W, p)
    <2>1. Len(plan[s].parts) \in Nat
        BY <1>2 DEF Parts
    <2>2. plan[s].next - 1 = Len(plan[s].parts)
        BY <1>1, <2>1
    <2>3. Taken(s, p) = SumFunctionOnSet(TakenFrom(plan[s].parts, p), 1 .. Len(plan[s].parts))
        BY <2>2 DEF Taken
    <2>4. TakenBy(W, p) = SumFunction(TakenFrom(plan[s].parts, p))
        BY <1>2, TakenByParts
    <2> QED BY <1>2, <2>3, <2>4, PartsSum
<1>8. \A p \in Pass : /\ committed[p].remaining = Opening[p].remaining - total(p)
                      /\ committed[p].used = Opening[p].used + total(p)
    BY <1>3, Zenon DEF PassesMatchUsage
<1>9. \A p \in Pass : /\ committed'[p].remaining = committed[p].remaining - Taken(s, p)
                      /\ committed'[p].used = committed[p].used + Taken(s, p)
                      /\ committed'[p].remaining >= 0
    BY <1>1, CommitPasses
<1>10. \A p \in Pass : Opening[p].remaining \in Int /\ Opening[p].used \in Int
    <2>1. \A p \in Pass : Opening[p] \in PassVersion
        BY SettlementAssumption, Zenon
    <2> QED BY <2>1 DEF PassVersion
<1> HIDE DEF total, after
<1>11. \A p \in Pass : /\ committed'[p].remaining >= 0
                       /\ committed'[p].remaining = Opening[p].remaining - after(p)
                       /\ committed'[p].used = Opening[p].used + after(p)
    <2> TAKE p \in Pass
    <2>1. total(p) \in Int /\ TakenBy(W, p) \in Int /\ Opening[p].remaining \in Int /\ Opening[p].used \in Int
        BY <1>5, <1>6, <1>10
    <2>2. after(p) = total(p) + TakenBy(W, p) /\ Taken(s, p) = TakenBy(W, p)
        BY <1>6, <1>7
    <2>3. /\ committed[p].remaining = Opening[p].remaining - total(p)
          /\ committed[p].used = Opening[p].used + total(p)
        BY <1>8
    <2>4. /\ committed'[p].remaining = committed[p].remaining - Taken(s, p)
          /\ committed'[p].used = committed[p].used + Taken(s, p)
          /\ committed'[p].remaining >= 0
        BY <1>9
    <2> QED BY <2>1, <2>2, <2>3, <2>4
<1>12. \A p \in Pass : after(p) = SumFunction([w \in usage' |-> TakenBy(w, p)])
    BY <1>1, Zenon DEF after
<1>13. \A p \in Pass :
         /\ committed'[p].remaining >= 0
         /\ committed'[p].remaining = Opening[p].remaining - SumFunction([w \in usage' |-> TakenBy(w, p)])
         /\ committed'[p].used = Opening[p].used + SumFunction([w \in usage' |-> TakenBy(w, p)])
    BY <1>11, <1>12, Zenon
<1> QED BY <1>13, Zenon DEF PassesMatchUsage

LEMMA ChargedBalances ==
    ASSUME NEW s, Charges(s)
    PROVE  BalancesMatchLedger' /\ (posted \in [User -> Int])'
<1>1. /\ Ends(s) /\ bill[s].op = "charge" /\ plan[s] \in PlanType /\ at[s] >= 18
      /\ posted' = [u \in User |-> posted[u]
                      - (IF u = bill[s].user THEN plan[s].left ELSE 0)
                      + (IF u = bill[s].provider THEN Commission(s) ELSE 0)]
    BY Charged
<1>2. BalancesMatchLedger /\ posted \in [User -> Int] /\ s \in Session /\ Tabular
    BY <1>1 DEF Ends, SettlementInv
<1>3. plan[s].left \in Nat /\ Commission(s) \in Int /\ at[s] \in Nat
    BY <1>1, <1>2, CommissionInteger DEF PlanType, Tabular
<1>4. ASSUME NEW u \in User PROVE posted'[u] = posted[u] + Moved(s, u) /\ posted'[u] \in Int
    <2>1. Moved(s, u) = (IF u = bill[s].user THEN 0 - plan[s].left ELSE 0)
                        + (IF u = bill[s].provider THEN Commission(s) ELSE 0)
        BY <1>1, <1>3 DEF Moved, Charging
    <2>2. posted[u] \in Int
        BY <1>2
    <2>3. posted'[u] = posted[u] - (IF u = bill[s].user THEN plan[s].left ELSE 0)
                                 + (IF u = bill[s].provider THEN Commission(s) ELSE 0)
        BY <1>1
    <2> QED BY <1>3, <2>1, <2>2, <2>3
<1>5. posted' \in [User -> Int]
    BY <1>1, <1>4
<1>6. ASSUME NEW u \in User PROVE Worth(committed'[u]) = Worth(Opening[u]) + posted'[u]
    <2>1. /\ Worth(committed'[u]) = Worth(committed[u]) + Moved(s, u)
          /\ Worth(committed[u]) \in Int
        BY <1>1, CommitAccounts
    <2>2. Worth(committed[u]) = Worth(Opening[u]) + posted[u]
        BY <1>2 DEF BalancesMatchLedger
    <2>3. Worth(Opening[u]) \in Int /\ posted[u] \in Int /\ Moved(s, u) \in Int
        <3>1. Worth(Opening[u]) \in Int
            BY SettlementAssumption DEF Worth
        <3> QED BY <1>2, <1>3, <3>1 DEF Moved
    <2> QED BY <1>4, <2>1, <2>2, <2>3
<1> QED BY <1>5, <1>6 DEF BalancesMatchLedger

\* The end of a charge.
LEMMA ChargeEnds ==
    ASSUME NEW s, Charges(s)
    PROVE  SettlementInv'
<1> DEFINE W == UsageRow(s)
<1>1. /\ Ends(s) /\ Moves(s) /\ usage' = usage \cup {W}
    BY Charged
<1>2. SettlementInv /\ s \in Session /\ EndTx(s) /\ UsageSound /\ ChargedOnce
    BY <1>1, Ending DEF Ends, SettlementInv
<1>3. /\ W.path \in Seq(Token) /\ W.path # <<>> /\ W.id \in RequestId
      /\ W.charged \in Int /\ W.covered \in Int /\ W.parts \in Parts
      /\ committed'[<<Root(W), W.id>>] # NoRow /\ committed'[<<Root(W), W.id>>].settled
      /\ \A w \in usage : Root(w) # Root(W) \/ w.id # W.id
    BY NewUsage
<1> HIDE DEF W
<1>4. UsageSound'
    <2>1. IsFiniteSet(usage)
        BY <1>2 DEF UsageSound
    <2>2. IsFiniteSet(usage')
        BY <1>1, <2>1, FS_AddElement
    <2>3. \A w \in usage :
            /\ w.path \in Seq(Token) /\ w.path # <<>> /\ w.id \in RequestId
            /\ w.charged \in Int /\ w.covered \in Int /\ w.parts \in Parts
            /\ committed'[<<Root(w), w.id>>] # NoRow /\ committed'[<<Root(w), w.id>>].settled
        BY <1>1, UsageKept
    <2>4. \A w \in usage' :
            /\ w.path \in Seq(Token) /\ w.path # <<>> /\ w.id \in RequestId
            /\ w.charged \in Int /\ w.covered \in Int /\ w.parts \in Parts
            /\ committed'[<<Root(w), w.id>>] # NoRow /\ committed'[<<Root(w), w.id>>].settled
        BY <1>1, <1>3, <2>3, Zenon
    <2> QED BY <2>2, <2>4 DEF UsageSound
<1>5. ChargedOnce'
    <2>1. \A v, w \in usage' : Root(v) = Root(w) /\ v.id = w.id => v = w
        BY <1>1, <1>2, <1>3 DEF ChargedOnce
    <2> QED BY <2>1 DEF ChargedOnce
<1>6. TokensMatchUsage' /\ PassesMatchUsage' /\ BalancesMatchLedger' /\ (posted \in [User -> Int])'
    BY ChargedTokens, ChargedPasses, ChargedBalances
<1>7. /\ CommittedFits' /\ \A r \in Row : draft[s][r] = Clean => committed'[r] = committed[r]
      /\ \A r \in Optional : committed[r] # NoRow => committed'[r] # NoRow
    BY <1>1, CommitRows
<1> QED BY <1>1, <1>2, <1>4, <1>5, <1>6, <1>7, EndKeeps

\* Steps outside the transactions
Entered(x) ==
    \/ stage'[x] = stage[x]
    \/ stage[x] # "work" /\ stage'[x] = "over"
    \/ stage[x] = "acquire" /\ stage'[x] = "work"

LEMMA OutsideKeeps ==
    ASSUME SettlementInv, UNCHANGED <<txVars, usage, posted, bill, at, plan>>,
           DOMAIN stage' = Session, \A x \in Session : Entered(x)
    PROVE  SettlementInv'
<1>0. (\A x \in Session : Tabular /\ Idle(x) /\ at[x] = 1 /\ plan[x] = NoPlan => Working(x))'
    BY FreshWorks, PTL
<1>1. /\ committed' = committed /\ view' = view /\ draft' = draft /\ locks' = locks
      /\ usage' = usage /\ posted' = posted /\ bill' = bill /\ at' = at /\ plan' = plan
    BY DEF txVars
<1>2. /\ Tabular /\ CommittedFits /\ (\A x \in Session : SessionInv(x))
      /\ UsageSound /\ posted \in [User -> Int]
      /\ ChargedOnce /\ TokensMatchUsage /\ BalancesMatchLedger /\ PassesMatchUsage
    BY DEF SettlementInv
<1>3. Tabular' /\ CommittedFits'
    BY <1>1, <1>2 DEF Tabular, CommittedFits
<1>4. UsageSound' /\ (posted \in [User -> Int])' /\ ChargedOnce' /\ BalancesMatchLedger'
    BY <1>1, <1>2 DEF UsageSound, ChargedOnce, BalancesMatchLedger
<1>5. TokensMatchUsage'
    BY <1>1, <1>2, Zenon DEF TokensMatchUsage
<1>6. PassesMatchUsage'
    BY <1>1, <1>2, Zenon DEF PassesMatchUsage
<1>7. ASSUME NEW x \in Session PROVE SessionInv(x)'
    <2>1. SessionInv(x) /\ Entered(x)
        BY <1>2
    <2>2. CASE stage'[x] = stage[x]
        <3>1. Untouched(x)
            BY <1>1, <2>2 DEF Untouched
        <3> QED BY <1>2, <2>1, <3>1, UntouchedKeeps
    <2>3. CASE stage'[x] # stage[x]
        <3>1. stage[x] # "work" /\ stage'[x] # "acquire"
            BY <2>1, <2>3 DEF Entered
        <3>2. DraftsLocked(x) /\ ViewOlder(x) /\ Idle(x)
            BY <2>1, <3>1 DEF SessionInv
        <3>3. DraftsLocked(x)' /\ ViewOlder(x)' /\ Idle(x)'
            BY <1>1, <3>2 DEF DraftsLocked, ViewOlder, Idle, Fits
        <3>4. stage'[x] = "work" => Working(x)'
            <4>1. stage'[x] = "work" => at'[x] = 1 /\ plan'[x] = NoPlan
                <5>1. stage'[x] = "work" => stage[x] = "acquire"
                    BY <2>1, <2>3 DEF Entered
                <5> QED BY <1>1, <2>1, <5>1 DEF SessionInv
            <4>2. NoPlan' = NoPlan
                BY DEF NoPlan
            <4> QED BY <1>0, <1>3, <3>3, <4>1, <4>2
        <3> QED BY <3>1, <3>3, <3>4 DEF SessionInv
    <2> QED BY <2>2, <2>3
<1> QED BY <1>3, <1>4, <1>5, <1>6, <1>7 DEF SettlementInv

LEMMA BillingKeeps ==
    ASSUME SettlementInv, NEW s \in Session, AcquireBilling(s) \/ ReleaseBilling(s)
    PROVE  SettlementInv'
<1>1. DOMAIN stage = Session
    BY DEF SettlementInv, Tabular
<1>2. UNCHANGED <<txVars, usage, posted, bill, at, plan>>
    BY DEF AcquireBilling, ReleaseBilling, tables
<1>3. CASE AcquireBilling(s)
    <2>1. stage[s] = "acquire"
        BY <1>3 DEF AcquireBilling
    <2>2. \/ stage' = [stage EXCEPT ![s] = "over"]
          \/ stage' = [stage EXCEPT ![s] = "work"]
        BY <1>3, Zenon DEF AcquireBilling
    <2>3. DOMAIN stage' = Session /\ \A x \in Session : Entered(x)
        BY <1>1, <2>1, <2>2 DEF Entered
    <2> QED BY <1>2, <2>3, OutsideKeeps
<1>4. CASE ReleaseBilling(s)
    <2>1. stage[s] = "release" /\ stage' = [stage EXCEPT ![s] = "over"]
        BY <1>4 DEF ReleaseBilling
    <2>2. DOMAIN stage' = Session /\ \A x \in Session : Entered(x)
        BY <1>1, <2>1 DEF Entered
    <2> QED BY <1>2, <2>2, OutsideKeeps
<1> QED BY <1>3, <1>4

LEMMA IdleKeeps ==
    ASSUME SettlementInv, UNCHANGED <<tables, session>>
    PROVE  SettlementInv'
<1>1. UNCHANGED <<txVars, usage, posted, bill, at, plan>> /\ stage' = stage
    BY DEF tables, session
<1>2. DOMAIN stage' = Session
    BY <1>1 DEF SettlementInv, Tabular
<1>3. \A x \in Session : Entered(x)
    BY <1>1 DEF Entered
<1> QED BY <1>1, <1>2, <1>3, OutsideKeeps

\* The statements of a transaction, one by one.
LEMMA StatementKeeps ==
    ASSUME SettlementInv, NEW s \in Session, Statement(s)
    PROVE  SettlementInv'
<1>1. Doing(s) # "none" => At(s) /\ stage[s] = "work"
    BY DEF At, Doing
<1>2. CASE Find(s)
    <2>1. Doing(s) \in {"find", "findPayee"}
        BY <1>2 DEF Find
    <2> QED BY <1>1, <1>2, <2>1, FindKeeps, FindPayeeKeeps
<1>3. CASE InsertRequest(s)
    <2>1. Doing(s) = "insert" /\ (Stored(s, Target(s)) # NoRow => Retry(s))
        BY <1>3 DEF InsertRequest
    <2>2. CASE Stored(s, Target(s)) = NoRow
        BY <1>1, <1>3, <2>1, <2>2, InsertKeeps
    <2>3. CASE Stored(s, Target(s)) # NoRow
        BY <1>1, <2>1, <2>3, RetryKeeps
    <2> QED BY <2>2, <2>3
<1>4. CASE ClaimCount(s)
    <2>1. Doing(s) = "count"
        BY <1>4 DEF ClaimCount
    <2> QED BY <1>1, <1>4, <2>1, CountSkips, CountKeeps
<1>5. CASE Tally(s)
    <2>1. Doing(s) = "tally"
        BY <1>5 DEF Tally
    <2> QED BY <1>1, <1>5, <2>1, TallyKeeps
<1>6. CASE ClaimSettlement(s)
    <2>1. /\ Doing(s) = "claim"
          /\ ~Unsettled(Stored(s, Target(s))) => ReturnEarly(s, "applied")
        BY <1>6, Zenon DEF ClaimSettlement
    <2>2. At(s)
        BY <1>1, <2>1
    <2>3. CASE Unsettled(Stored(s, Target(s)))
        BY <1>6, <2>2, <2>3, ClaimKeeps
    <2>4. CASE ~Unsettled(Stored(s, Target(s)))
        <3>1. Charging(s) /\ at[s] = 5
            BY <2>1, <2>2, InMiddle DEF Middle
        <3>2. at[s] <= 11 /\ Doing(s) \notin {"count", "tally"}
            BY <2>1, <3>1
        <3> QED BY <2>1, <2>2, <2>4, <3>1, <3>2, ReturnKeeps
    <2> QED BY <2>3, <2>4
<1>7. CASE PlanCoverage(s)
    <2>1. Doing(s) = "plan"
        BY <1>7 DEF PlanCoverage
    <2> QED BY <1>1, <1>7, <2>1, PlanKeeps
<1>8. CASE LockAccount(s)
    <2> DEFINE skips == plan[s].left > 0 /\ Seen(s, Target(s)) = NoRow
    <2>1. Doing(s) = "lock" /\ (skips => ReturnEarly(s, "skipped"))
        BY <1>8, Zenon DEF LockAccount
    <2>2. At(s)
        BY <1>1, <2>1
    <2>3. CASE ~skips
        BY <1>8, <2>2, <2>3, LockKeeps
    <2>4. CASE skips
        <3> HIDE DEF skips
        <3>1. Charging(s) /\ at[s] = 11
            BY <2>1, <2>2, InMiddle DEF Middle
        <3>2. at[s] <= 11 /\ Doing(s) \notin {"count", "tally"}
            BY <2>1, <3>1
        <3> QED BY <2>1, <2>2, <2>4, <3>1, <3>2, ReturnKeeps
    <2> QED BY <2>3, <2>4
<1>9. CASE CoverByPass(s)
    <2> DEFINE part == plan[s].parts[plan[s].next]
               ended == plan[s].next > Len(plan[s].parts)
               covers == StillCovers(Stored(s, part.pass), part)
    <2>1. Doing(s) = "cover" /\ (~ended /\ ~covers => Throw(s, "conflict"))
        BY <1>9, Zenon DEF CoverByPass
    <2>2. At(s)
        BY <1>1, <2>1
    <2>3. CASE ended
        BY <1>9, <2>2, <2>3, CoverEnds
    <2>4. CASE ~ended /\ covers
        BY <1>9, <2>2, <2>4, CoverKeeps
    <2>5. CASE ~ended /\ ~covers
        <3> HIDE DEF ended, covers
        <3> QED BY <2>1, <2>5, ThrowKeeps
    <2> QED BY <2>3, <2>4, <2>5
<1>10. CASE Debit(s)
    <2>1. Doing(s) = "debit"
        BY <1>10 DEF Debit
    <2> QED BY <1>1, <1>10, <2>1, DebitKeeps
<1>11. CASE InsertPayee(s)
    <2>1. Doing(s) = "insertPayee" /\ (Stored(s, Target(s)) # NoRow => Throw(s, "failed"))
        BY <1>11, Zenon DEF InsertPayee
    <2> QED BY <1>1, <1>11, <2>1, InsertPayeeKeeps, ThrowKeeps
<1>12. CASE Pay(s)
    <2>1. Doing(s) = "pay"
        BY <1>12 DEF Pay
    <2> QED BY <1>1, <1>12, <2>1, PayKeeps
<1>13. CASE Spend(s)
    <2>1. Doing(s) = "spend"
        BY <1>13 DEF Spend
    <2> QED BY <1>1, <1>13, <2>1, SpendKeeps
<1>14. CASE Commit(s)
    <2>1. bill[s].op \in {"charge", "record"}
        <3>1. bill[s] \in Bill
            BY DEF SettlementInv, Tabular
        <3> QED BY <3>1, BillFacts, Zenon
    <2>2. CASE bill[s].op = "record"
        BY <1>14, <2>2, RecordEnds
    <2>3. CASE bill[s].op = "charge"
        <3>1. stage[s] = "work" /\ Finished(s) /\ CommitTx(s, <<>>)
            BY <1>14 DEF Commit
        <3>2. Doing(s) = "none"
            BY <3>1 DEF Doing
        <3>3. Charges(s)
            BY <1>14, <2>3, <3>1, <3>2 DEF Charges, Ends, Charging
        <3> QED BY <3>3, ChargeEnds
    <2> QED BY <2>1, <2>2, <2>3
<1>15. CASE AcquireBilling(s) \/ ReleaseBilling(s)
    BY <1>15, BillingKeeps
<1> QED BY <1>2, <1>3, <1>4, <1>5, <1>6, <1>7, <1>8, <1>9, <1>10, <1>11, <1>12, <1>13, <1>14, <1>15
        DEF Statement

LEMMA StepKeeps == SettlementInv /\ [Next]_vars => SettlementInv'
<1> SUFFICES ASSUME SettlementInv, [Next]_vars PROVE SettlementInv'
    OBVIOUS
<1>1. ASSUME NEW s \in Session, Statement(s) PROVE SettlementInv'
    BY <1>1, StatementKeeps
<1>2. ASSUME NEW s \in Session, Victim(s) PROVE SettlementInv'
    <2>1. Retry(s) /\ Wanted(s) # {}
        BY <1>2 DEF Victim
    <2>2. Doing(s) # "none"
        BY <2>1 DEF Wanted
    <2>3. stage[s] = "work"
        BY <2>2 DEF Doing
    <2> QED BY <2>1, <2>3, RetryKeeps
<1>3. ASSUME NEW s \in Session, Abort(s) PROVE SettlementInv'
    BY <1>3, ThrowKeeps DEF Abort
<1>4. ASSUME NEW u \in User, LapseBilling(u) PROVE SettlementInv'
    BY <1>4, IdleKeeps DEF LapseBilling
<1>5. CASE UNCHANGED vars
    BY <1>5, IdleKeeps DEF vars, tables, session
<1> QED BY <1>1, <1>2, <1>3, <1>4, <1>5 DEF Next

LEMMA InitHolds == Init => SettlementInv
<1> SUFFICES ASSUME Init PROVE SettlementInv
    OBVIOUS
<1>1. /\ committed = Opening
      /\ view = [s \in Session |-> NoView]
      /\ draft = [s \in Session |-> [r \in Row |-> Clean]]
      /\ locks = [r \in Row |-> Free]
      /\ bill \in [Session -> Bill]
      /\ stage = [s \in Session |-> IF bill[s].op = "charge" THEN "acquire" ELSE "work"]
      /\ at = [s \in Session |-> 1] /\ plan = [s \in Session |-> NoPlan]
      /\ usage = {} /\ posted = [u \in User |-> 0]
    BY DEF Init, TxInit
<1>2. Tabular
    <2>1. NoPlan \in PlanType
        BY NoPlanFresh DEF FreshPlan
    <2> HIDE DEF NoPlan, PlanType
    <2>2. at \in [Session -> Nat \ {0}]
        BY <1>1
    <2>3. plan \in [Session -> PlanType]
        BY <1>1, <2>1
    <2> QED BY <1>1, <2>2, <2>3 DEF Tabular
<1>3. CommittedFits
    <2>1. /\ DOMAIN Opening = Row
          /\ \A q \in Logical : Opening[q] # NoRow => Opening[q] \in RequestVersion /\ Opening[q].counted
          /\ \A t \in Token : Opening[t] \in TokenVersion
          /\ \A u \in User : Opening[u] \in Int \cup {NoRow}
          /\ \A p \in Pass : Opening[p] \in PassVersion
        BY SettlementAssumption, Zenon
    <2> QED BY <1>1, <2>1 DEF CommittedFits
<1>4. ASSUME NEW s \in Session PROVE SessionInv(s)
    <2>1. view[s] = NoView /\ at[s] = 1 /\ plan[s] = NoPlan /\ stage[s] \in {"acquire", "work"}
        BY <1>1
    <2>2. draft[s] = [r \in Row |-> Clean] /\ \A r \in Row : locks[r] = Free
        BY <1>1
    <2>3. Idle(s)
        BY <2>1, <2>2, TxAssumption DEF Idle
    <2>4. Working(s)
        BY <1>2, <2>1, <2>3, FreshWorks
    <2>5. DraftsLocked(s) /\ ViewOlder(s)
        BY <2>1, <2>2 DEF DraftsLocked, ViewOlder
    <2> QED BY <2>1, <2>3, <2>4, <2>5 DEF SessionInv
<1>5. UsageSound /\ ChargedOnce
    BY <1>1, FS_EmptySet DEF UsageSound, ChargedOnce
<1>6. posted \in [User -> Int]
    BY <1>1
<1>7. ASSUME NEW f, DOMAIN f = {} PROVE SumFunction(f) = 0
    BY <1>7, SumEmpty DEF SumFunction
<1>8. TokensMatchUsage
    <2> SUFFICES ASSUME NEW t \in Token
                 PROVE  /\ committed[t].requests =
                             Cardinality({i \in RequestId : committed[<<t, i>>] # NoRow})
                        /\ committed[t].quota = Opening[t].quota + SumFunction([w \in usage |->
                             IF Contains(w.path, t) THEN w.charged + w.covered ELSE 0])
        BY Zenon DEF TokensMatchUsage
    <2>1. Opening[t] \in TokenVersion
        BY SettlementAssumption, Zenon
    <2>2. Opening[t].requests = Cardinality({i \in RequestId : Opening[<<t, i>>] # NoRow})
        BY SettlementAssumption, Zenon
    <2> DEFINE f == [w \in usage |-> IF Contains(w.path, t) THEN w.charged + w.covered ELSE 0]
    <2>3. DOMAIN f = {}
        BY <1>1
    <2> HIDE DEF f
    <2>4. SumFunction(f) = 0
        BY <1>7, <2>3
    <2>5. Opening[t].quota \in Int
        BY <2>1 DEF TokenVersion
    <2>6. committed[t].quota = Opening[t].quota + SumFunction(f)
        BY <1>1, <2>4, <2>5
    <2>7. committed[t].requests = Cardinality({i \in RequestId : committed[<<t, i>>] # NoRow})
        BY <1>1, <2>2, Zenon
    <2> QED BY <2>6, <2>7, Zenon DEF f
<1>9. BalancesMatchLedger
    <2> SUFFICES ASSUME NEW u \in User PROVE Worth(committed[u]) = Worth(Opening[u]) + posted[u]
        BY DEF BalancesMatchLedger
    <2>1. Opening[u] \in Int \cup {NoRow}
        BY SettlementAssumption, Zenon
    <2>2. Worth(Opening[u]) \in Int
        BY <2>1 DEF Worth
    <2> QED BY <1>1, <2>2
<1>10. PassesMatchUsage
    <2> SUFFICES ASSUME NEW p \in Pass
                 PROVE  /\ committed[p].remaining >= 0
                        /\ committed[p].remaining =
                             Opening[p].remaining - SumFunction([w \in usage |-> TakenBy(w, p)])
                        /\ committed[p].used =
                             Opening[p].used + SumFunction([w \in usage |-> TakenBy(w, p)])
        BY Zenon DEF PassesMatchUsage
    <2> DEFINE f == [w \in usage |-> TakenBy(w, p)]
    <2>1. Opening[p] \in PassVersion /\ Opening[p].remaining >= 0
        BY SettlementAssumption, Zenon
    <2>2. Opening[p].remaining \in Int /\ Opening[p].used \in Int
        BY <2>1 DEF PassVersion
    <2>3. DOMAIN f = {}
        BY <1>1
    <2> HIDE DEF f
    <2>4. SumFunction(f) = 0
        BY <1>7, <2>3
    <2>5. /\ committed[p].remaining >= 0
          /\ committed[p].remaining = Opening[p].remaining - SumFunction(f)
          /\ committed[p].used = Opening[p].used + SumFunction(f)
        BY <1>1, <2>1, <2>2, <2>4
    <2> QED BY <2>5 DEF f
<1> QED BY <1>2, <1>3, <1>4, <1>5, <1>6, <1>8, <1>9, <1>10 DEF SettlementInv

-----------------------------------------------------------------------------
\* Theorems

\* The transactions of chargeUsage and of the usages that are only recorded keep the
\* inductive invariant: what each has written so far, at every statement of it, beside
\* what the others have published.
THEOREM SettlementInvariant == Spec => []SettlementInv
<1>1. Init => SettlementInv
    BY InitHolds
<1>2. SettlementInv /\ [Next]_vars => SettlementInv'
    BY StepKeeps
<1> QED BY <1>1, <1>2, PTL DEF Spec

\* However many sessions finalize a request, by whichever process and with or without
\* the billing lock, the settledAt claim of finalizeChargedUsage lets one of them charge.
THEOREM ChargedOnceHolds == Spec => []ChargedOnce
<1>1. SettlementInv => ChargedOnce
    BY DEF SettlementInv
<1> QED BY <1>1, SettlementInvariant, PTL

\* The counters of a token are exact for any number of concurrent requests on any
\* tree of tokens: ensureLogicalRequest counts every logical request once, and the
\* attribution along the path raises usedQuota by the cost of every charged usage.
THEOREM TokensMatchUsageHolds == Spec => []TokensMatchUsage
<1>1. SettlementInv => TokensMatchUsage
    BY DEF SettlementInv
<1> QED BY <1>1, SettlementInvariant, PTL

\* Payers and payees may be settled side by side, retried and rolled back: a balance is
\* its opening value plus its balance_transactions.
THEOREM BalancesMatchLedgerHolds == Spec => []BalancesMatchLedger
<1>1. SettlementInv => BalancesMatchLedger
    BY DEF SettlementInv
<1> QED BY <1>1, SettlementInvariant, PTL

\* Whatever the passes, their units and the order they are taken in, the conditional
\* update of remainingQuota overdraws none, and what they lost is on the usage rows.
THEOREM PassesMatchUsageHolds == Spec => []PassesMatchUsage
<1>1. SettlementInv => PassesMatchUsage
    BY DEF SettlementInv
<1> QED BY <1>1, SettlementInvariant, PTL

-----------------------------------------------------------------------------
\* The billing lock

Keyed ==
    /\ DOMAIN owner = User /\ DOMAIN handle = Session
    /\ \A s \in Session : bill[s].user \in User

\* What a step does to the key of a user.
Frees(u) == owner[u] # Unowned /\ owner'[u] # owner[u] => handle'[owner[u]] = "none" \/ LapseBilling(u)

LEMMA LocksUntouched ==
    ASSUME Keyed, UNCHANGED lockVars, bill' = bill
    PROVE  Keyed' /\ \A u \in User : Frees(u)
BY DEF Keyed, lockVars, Frees

LEMMA StatementBill ==
    ASSUME NEW s \in Session, Statement(s)
    PROVE  /\ bill' = bill
           /\ UNCHANGED lockVars \/ AcquireBilling(s) \/ ReleaseBilling(s)
<1>1. \A n : Advance(s, n) => bill' = bill
    BY DEF Advance
<1>2. \A r : /\ Throw(s, r) => bill' = bill
             /\ ReturnEarly(s, r) => bill' = bill
             /\ Leave(s, r) => bill' = bill
    BY DEF Throw, ReturnEarly, Leave
<1>3. Retry(s) => bill' = bill
    BY <1>2 DEF Retry
<1>4. CASE Find(s)
    BY <1>1, <1>4, Zenon DEF Find
<1>5. CASE InsertRequest(s)
    BY <1>1, <1>3, <1>5, Zenon DEF InsertRequest
<1>6. CASE ClaimCount(s)
    BY <1>1, <1>6, Zenon DEF ClaimCount
<1>7. CASE Tally(s)
    BY <1>1, <1>7, Zenon DEF Tally
<1>8. CASE ClaimSettlement(s)
    BY <1>1, <1>2, <1>8, Zenon DEF ClaimSettlement
<1>9. CASE PlanCoverage(s)
    BY <1>1, <1>9, Zenon DEF PlanCoverage
<1>10. CASE LockAccount(s)
    BY <1>1, <1>2, <1>10, Zenon DEF LockAccount
<1>11. CASE CoverByPass(s)
    BY <1>1, <1>2, <1>11, Zenon DEF CoverByPass
<1>12. CASE Debit(s)
    BY <1>1, <1>12, Zenon DEF Debit
<1>13. CASE InsertPayee(s)
    BY <1>1, <1>2, <1>13, Zenon DEF InsertPayee
<1>14. CASE Pay(s)
    BY <1>1, <1>14, Zenon DEF Pay
<1>15. CASE Spend(s)
    BY <1>1, <1>15, Zenon DEF Spend
<1>16. CASE Commit(s)
    BY <1>2, <1>16, Zenon DEF Commit
<1>17. CASE AcquireBilling(s) \/ ReleaseBilling(s)
    BY <1>17 DEF AcquireBilling, ReleaseBilling
<1> QED BY <1>4, <1>5, <1>6, <1>7, <1>8, <1>9, <1>10, <1>11, <1>12, <1>13, <1>14, <1>15, <1>16, <1>17
        DEF Statement

LEMMA StepFrees ==
    ASSUME Keyed, [Next]_vars
    PROVE  Keyed' /\ \A u \in User : Frees(u)
<1>1. DOMAIN owner = User /\ DOMAIN handle = Session /\ Unowned \notin Session
    BY LockAssumption, SettlementAssumption DEF Keyed
<1>2. ASSUME NEW s \in Session, Statement(s) PROVE Keyed' /\ \A u \in User : Frees(u)
    <2>1. bill' = bill /\ (UNCHANGED lockVars \/ AcquireBilling(s) \/ ReleaseBilling(s))
        BY <1>2, StatementBill
    <2> DEFINE k == bill[s].user
    <2>2. k \in User
        BY DEF Keyed
    <2> HIDE DEF k
    <2>3. CASE AcquireBilling(s)
        <3>1. \/ owner' = owner
              \/ owner[k] = Unowned /\ owner' = [owner EXCEPT ![k] = s]
            BY <2>3 DEF AcquireBilling, Acquired, BackendUnavailable, AcquireTimesOut, k
        <3>2. DOMAIN handle' = Session
            BY <1>1, <2>3 DEF AcquireBilling, Acquired, BackendUnavailable, AcquireTimesOut
        <3>3. DOMAIN owner' = User /\ \A u \in User : owner[u] # Unowned => owner'[u] = owner[u]
            BY <1>1, <2>2, <3>1
        <3> QED BY <2>1, <3>2, <3>3 DEF Keyed, Frees
    <2>4. CASE ReleaseBilling(s)
        <3>1. /\ \/ owner[k] = s /\ owner' = [owner EXCEPT ![k] = Unowned]
                 \/ owner' = owner
              /\ handle' = [handle EXCEPT ![s] = "none"]
            BY <2>4 DEF ReleaseBilling, Release, OwnsKey, k
        <3>2. DOMAIN handle' = Session /\ handle'[s] = "none"
            BY <1>1, <3>1
        <3>3. DOMAIN owner' = User /\ \A u \in User : owner'[u] = owner[u] \/ owner[u] = s
            BY <1>1, <2>2, <3>1
        <3> QED BY <2>1, <3>2, <3>3 DEF Keyed, Frees
    <2> QED BY <2>1, <2>3, <2>4, LocksUntouched
<1>3. ASSUME NEW s \in Session, Victim(s) \/ Abort(s) PROVE Keyed' /\ \A u \in User : Frees(u)
    <2>1. \A r : Throw(s, r) => bill' = bill
        BY DEF Throw, Leave
    <2>2. Retry(s) => bill' = bill
        BY <2>1 DEF Retry
    <2>3. UNCHANGED lockVars /\ bill' = bill
        BY <1>3, <2>1, <2>2, Zenon DEF Victim, Abort
    <2> QED BY <2>3, LocksUntouched
<1>4. ASSUME NEW v \in User, LapseBilling(v) PROVE Keyed' /\ \A u \in User : Frees(u)
    <2>1. owner' = [owner EXCEPT ![v] = Unowned] /\ handle' = handle /\ bill' = bill
        BY <1>4 DEF LapseBilling, Lapse, session
    <2>2. DOMAIN owner' = User /\ \A u \in User : u # v => owner'[u] = owner[u]
        BY <1>1, <2>1
    <2>3. \A u \in User : Frees(u)
        BY <1>4, <2>2 DEF Frees
    <2> QED BY <2>1, <2>2, <2>3 DEF Keyed
<1>5. CASE UNCHANGED vars
    BY <1>5, LocksUntouched DEF vars
<1> QED BY <1>2, <1>3, <1>4, <1>5 DEF Next

\* The key of a billing lock is deleted by the session that holds its token, or lapses:
\* the release of a session that outlasted its lock deletes nobody else's.
THEOREM OnlyOwnerFreesHolds == Spec => OnlyOwnerFrees
<1> DEFINE Freed == \A u \in User : owner[u] # Unowned /\ owner'[u] # owner[u]
                        => handle'[owner[u]] = "none" \/ LapseBilling(u)
<1>1. Init => Keyed
    <2> SUFFICES ASSUME Init PROVE Keyed
        OBVIOUS
    <2>1. DOMAIN owner = User /\ DOMAIN handle = Session /\ bill \in [Session -> Bill]
        BY SettlementAssumption DEF Init, LockInit
    <2>2. \A s \in Session : bill[s].user \in User
        <3> TAKE s \in Session
        <3>1. bill[s] \in Bill
            BY <2>1
        <3> QED BY <3>1, BillFacts, Zenon
    <2> QED BY <2>1, <2>2 DEF Keyed
<1>2. Keyed /\ [Next]_vars => Keyed'
    BY StepFrees
<1>3. Keyed /\ [Next]_vars => [Freed]_vars
    BY StepFrees DEF Frees
<1> HIDE DEF Freed
<1>4. Spec => [][Freed]_vars
    BY <1>1, <1>2, <1>3, PTL DEF Spec
<1> QED BY <1>4 DEF Freed, OnlyOwnerFrees
=============================================================================
