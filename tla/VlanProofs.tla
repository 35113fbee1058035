----------------------------- MODULE VlanProofs -----------------------------
(***************************************************************************)
(* The tests of VlanTests: the stream test for any copies, and the jumbo    *)
(* test on a board that executes in time what was typed, for any length of  *)
(* what is typed ahead of it.                                               *)
(***************************************************************************)
EXTENDS VlanTests, SequenceTheorems, WellFoundedInduction, TLAPS

-----------------------------------------------------------------------------
(* The stream test.  Its script is a constant sequence of operations.       *)

Dos == {"connect", "settrgtLinkAuto", "remVlanHost", "remVlanTrgt", "vconfig", "down", "mtu",
        "vlanup", "inet6", "ipv4", "addVlanHost", "remHostFiles", "remTrgtFile", "dd", "scpto",
        "scpback", "cmp", "checkHostPing", "checkTrgtPing", "reply", "silence", "exit"}
Operations == [do : Dos, n : Nat]

\* Every compare ends a whole copyCompareFile.
Whole(s) ==
  /\ s \in Seq(Operations)
  /\ \A i \in 1..Len(s) : s[i].do = "cmp" =>
       /\ i > 5 /\ s[i - 5].do = "remHostFiles" /\ s[i - 4].do = "remTrgtFile"
       /\ s[i - 3].do = "dd" /\ s[i - 2].do = "scpto" /\ s[i - 1].do = "scpback"

\* Operations without a number.
Plain(dos) == [i \in DOMAIN dos |-> [do |-> dos[i], n |-> 0]]

\* They are operations.
LEMMA PlainOps ==
  ASSUME NEW dos \in Seq(Dos)
  PROVE  /\ Plain(dos) \in Seq(Operations) /\ Len(Plain(dos)) = Len(dos)
         /\ \A i \in 1..Len(dos) : Plain(dos)[i].do = dos[i]
<1>1. DOMAIN dos = 1..Len(dos) /\ Len(dos) \in Nat
  OBVIOUS
<1>2. Plain(dos) \in [1..Len(dos) -> Operations]
  <2>1. ASSUME NEW i \in 1..Len(dos) PROVE [do |-> dos[i], n |-> 0] \in Operations
    BY DEF Operations
  <2> QED
    BY <1>1, <2>1 DEF Plain
<1>3. Plain(dos) \in Seq(Operations) /\ Len(Plain(dos)) = Len(dos)
  BY <1>1, <1>2, SeqDef
<1>4. \A i \in 1..Len(dos) : Plain(dos)[i].do = dos[i]
  BY <1>1 DEF Plain
<1> QED
  BY <1>3, <1>4

\* Without a compare there is nothing to ask.
LEMMA PlainWhole ==
  ASSUME NEW dos \in Seq(Dos \ {"cmp"})
  PROVE  Whole(Plain(dos))
<1>1. dos \in Seq(Dos) /\ \A i \in 1..Len(dos) : dos[i] # "cmp"
  BY SeqMonotonic, ElementOfSeq DEF Dos
<1> QED
  BY <1>1, PlainOps DEF Whole

\* Whole parts one after the other are whole.
LEMMA JoinWhole ==
  ASSUME NEW s, NEW t, Whole(s), Whole(t)
  PROVE  Whole(s \o t)
<1>1. s \in Seq(Operations) /\ t \in Seq(Operations)
  BY DEF Whole
<1>2. /\ s \o t \in Seq(Operations) /\ Len(s \o t) = Len(s) + Len(t)
      /\ \A i \in 1..Len(s) : (s \o t)[i] = s[i]
      /\ \A i \in 1..Len(t) : (s \o t)[Len(s) + i] = t[i]
  BY <1>1, ConcatProperties
<1>3. Len(s) \in Nat /\ Len(t) \in Nat
  BY <1>1
<1> DEFINE st == s \o t
<1> HIDE DEF st
<1>4. ASSUME NEW i \in 1..Len(st), st[i].do = "cmp"
      PROVE  /\ i > 5 /\ st[i - 5].do = "remHostFiles" /\ st[i - 4].do = "remTrgtFile"
             /\ st[i - 3].do = "dd" /\ st[i - 2].do = "scpto" /\ st[i - 1].do = "scpback"
  <2>1. CASE i <= Len(s)
    <3>1. i \in 1..Len(s) /\ s[i].do = "cmp"
      BY <1>2, <1>3, <1>4, <2>1 DEF st
    <3>2. /\ i > 5 /\ s[i - 5].do = "remHostFiles" /\ s[i - 4].do = "remTrgtFile"
          /\ s[i - 3].do = "dd" /\ s[i - 2].do = "scpto" /\ s[i - 1].do = "scpback"
      BY <3>1 DEF Whole
    <3>3. \A j \in 1..5 : i - j \in 1..Len(s)
      BY <1>3, <3>1, <3>2
    <3>4. \A j \in 1..5 : st[i - j] = s[i - j]
      BY <1>2, <3>3, Zenon DEF st
    <3> QED
      BY <3>2, <3>4
  <2>2. CASE i > Len(s)
    <3>1. PICK m \in 1..Len(t) : i = Len(s) + m
      <4>1. i - Len(s) \in 1..Len(t) /\ i = Len(s) + (i - Len(s))
        BY <1>2, <1>3, <2>2 DEF st
      <4> QED
        BY <4>1, Zenon
    <3>2. t[m].do = "cmp"
      BY <1>2, <1>4, <3>1 DEF st
    <3>3. /\ m > 5 /\ t[m - 5].do = "remHostFiles" /\ t[m - 4].do = "remTrgtFile"
          /\ t[m - 3].do = "dd" /\ t[m - 2].do = "scpto" /\ t[m - 1].do = "scpback"
      BY <3>2 DEF Whole
    <3>4. \A j \in 1..5 : m - j \in 1..Len(t) /\ i - j = Len(s) + (m - j)
      BY <1>3, <3>1, <3>3
    <3>5. \A j \in 1..5 : st[i - j] = t[m - j]
      BY <1>2, <3>4, Zenon DEF st
    <3>6. /\ st[i - 5] = t[m - 5] /\ st[i - 4] = t[m - 4] /\ st[i - 3] = t[m - 3]
          /\ st[i - 2] = t[m - 2] /\ st[i - 1] = t[m - 1]
      BY <3>5
    <3>7. i > 5
      BY <1>3, <3>1, <3>3
    <3> QED
      BY <3>3, <3>6, <3>7
  <2>3. i <= Len(s) \/ i > Len(s)
    BY <1>2, <1>3 DEF st
  <2> QED
    BY <2>1, <2>2, <2>3
<1> QED
  BY <1>2, <1>4, Zenon DEF Whole, st

\* One operation that is no compare.
LEMMA OneWhole ==
  ASSUME NEW do \in Dos \ {"cmp"}, NEW n \in Nat
  PROVE  Whole(<<[do |-> do, n |-> n]>>)
<1>1. [do |-> do, n |-> n] \in Operations
  BY DEF Operations
<1> QED
  BY <1>1 DEF Whole

\* Each round of the stream test is whole, so what the script does is: the
\* rounds of emacteststream.exp, and any others made of them.
LEMMA RoundWhole ==
  ASSUME NEW ip \in Nat, NEW tmtu \in Nat, NEW hmtu \in Nat
  PROVE  Whole(Round(ip, tmtu, hmtu))
<1> DEFINE copy == Plain(<<"remHostFiles", "remTrgtFile">>)
                   \o <<[do |-> "dd", n |-> 0], [do |-> "scpto", n |-> ip],
                        [do |-> "scpback", n |-> ip], [do |-> "cmp", n |-> 0]>>
           files2 == Plain(<<"remHostFiles", "remTrgtFile">>)
           rem == Plain(<<"remVlanHost", "remVlanTrgt">>)
           add == Plain(<<"vconfig", "down">>) \o <<[do |-> "mtu", n |-> tmtu]>>
                  \o Plain(<<"vlanup", "inet6", "ipv4">>) \o <<[do |-> "addVlanHost", n |-> hmtu]>>
<1>1. Whole(files2) /\ Whole(rem)
  <2>1. <<"remHostFiles", "remTrgtFile">> \in Seq(Dos \ {"cmp"})
    BY DEF Dos
  <2>2. <<"remVlanHost", "remVlanTrgt">> \in Seq(Dos \ {"cmp"})
    BY DEF Dos
  <2> QED
    BY <2>1, <2>2, PlainWhole, Zenon
<1>2. Whole(add)
  <2>1. Whole(Plain(<<"vconfig", "down">>))
    <3>1. <<"vconfig", "down">> \in Seq(Dos \ {"cmp"})
      BY DEF Dos
    <3> QED
      BY <3>1, PlainWhole, Zenon
  <2>2. Whole(Plain(<<"vlanup", "inet6", "ipv4">>))
    <3>1. <<"vlanup", "inet6", "ipv4">> \in Seq(Dos \ {"cmp"})
      BY DEF Dos
    <3> QED
      BY <3>1, PlainWhole, Zenon
  <2>3. Whole(<<[do |-> "mtu", n |-> tmtu]>>) /\ Whole(<<[do |-> "addVlanHost", n |-> hmtu]>>)
    BY OneWhole DEF Dos
  <2> QED
    BY <2>1, <2>2, <2>3, JoinWhole
<1>3. Whole(copy)
  <2> DEFINE tail == <<[do |-> "dd", n |-> 0], [do |-> "scpto", n |-> ip],
                       [do |-> "scpback", n |-> ip], [do |-> "cmp", n |-> 0]>>
  <2>1. /\ tail \in Seq(Operations) /\ Len(tail) = 4 /\ tail[1].do = "dd" /\ tail[2].do = "scpto"
        /\ tail[3].do = "scpback" /\ tail[4].do = "cmp"
    BY DEF Operations, Dos
  <2> DEFINE two == <<"remHostFiles", "remTrgtFile">>
  <2>2. two \in Seq(Dos) /\ Len(two) = 2 /\ two[1] = "remHostFiles" /\ two[2] = "remTrgtFile"
    BY DEF Dos
  <2>3. /\ files2 \in Seq(Operations) /\ Len(files2) = 2 /\ files2[1].do = "remHostFiles"
        /\ files2[2].do = "remTrgtFile"
    <3>1. files2 = Plain(two)
      OBVIOUS
    <3> HIDE DEF two, files2
    <3>2. /\ files2 \in Seq(Operations) /\ Len(files2) = Len(two)
          /\ \A i \in 1..Len(two) : files2[i].do = two[i]
      BY <2>2, <3>1, PlainOps
    <3> QED
      BY <2>2, <3>2
  <2> HIDE DEF tail, files2, two
  <2> DEFINE c == files2 \o tail
  <2>4. /\ c \in Seq(Operations) /\ Len(c) = Len(files2) + Len(tail)
        /\ \A i \in 1..Len(files2) : c[i] = files2[i]
        /\ \A i \in 1..Len(tail) : c[Len(files2) + i] = tail[i]
    <3>1. files2 \in Seq(Operations) /\ tail \in Seq(Operations)
      BY <2>1, <2>3
    <3> QED
      BY <3>1, ConcatProperties
  <2> HIDE DEF c
  <2>5. /\ c \in Seq(Operations) /\ Len(c) = 6 /\ c[1].do = "remHostFiles" /\ c[2].do = "remTrgtFile"
        /\ c[3].do = "dd" /\ c[4].do = "scpto" /\ c[5].do = "scpback" /\ c[6].do = "cmp"
    <3>1. c[1] = files2[1] /\ c[2] = files2[2] /\ Len(c) = 6
      BY <2>1, <2>3, <2>4
    <3>2. c[3] = tail[1]
      BY <2>1, <2>3, <2>4
    <3>3. c[4] = tail[2]
      BY <2>1, <2>3, <2>4
    <3>4. c[5] = tail[3]
      BY <2>1, <2>3, <2>4
    <3>5. c[6] = tail[4]
      BY <2>1, <2>3, <2>4
    <3> QED
      BY <2>1, <2>3, <2>4, <3>1, <3>2, <3>3, <3>4, <3>5
  <2>6. Whole(c)
    BY <2>5 DEF Whole
  <2> QED
    BY <2>6 DEF c, files2, tail
<1>4. RemFiles = files2 /\ RemVlan = rem
  BY DEF RemFiles, RemVlan, Ops, Op, Plain
<1>5. AddVlan(tmtu, hmtu) = add
  BY DEF AddVlan, Ops, Op, Plain
<1>6. copyCompareFile(ip) = copy
  BY <1>4 DEF copyCompareFile, Op
<1>7. Whole(<<>>)
  BY DEF Whole
<1> HIDE DEF files2, rem, add, copy
<1>8. Whole(rem \o add) /\ Whole(copy \o files2)
  BY <1>1, <1>2, <1>3, JoinWhole
<1>9. Whole(<<>> \o copy \o files2) /\ Whole((rem \o add) \o copy \o files2)
  BY <1>1, <1>3, <1>7, <1>8, JoinWhole
<1>10. CASE tmtu = 0
  BY <1>4, <1>6, <1>9, <1>10 DEF Round
<1>11. CASE tmtu # 0
  BY <1>4, <1>5, <1>6, <1>9, <1>11 DEF Round
<1> QED
  BY <1>10, <1>11

\* The six copies of emacteststream.exp.
LEMMA StreamRoundsWhole == Whole(StreamRounds)
<1>1. /\ Whole(Round(0, 1500, 1500)) /\ Whole(Round(1, 0, 0))
      /\ Whole(Round(0, 3080, 8000)) /\ Whole(Round(0, 0, 0))
      /\ Whole(Round(0, 2030, 8000))
  BY RoundWhole
<1> QED
  BY <1>1, JoinWhole DEF StreamRounds

\* What the script does before and after the copies takes nothing from them.
LEMMA CodeWhole ==
  ASSUME NEW s, Whole(s), NEW code,
         code = Plain(<<"connect">>) \o s \o Plain(<<"remVlanHost", "remVlanTrgt">>)
                \o Plain(<<"exit">>)
  PROVE  Whole(code) /\ Len(code) >= 1 /\ code[Len(code)].do = "exit"
<1>1. /\ <<"connect">> \in Seq(Dos \ {"cmp"}) /\ <<"exit">> \in Seq(Dos \ {"cmp"})
      /\ <<"remVlanHost", "remVlanTrgt">> \in Seq(Dos \ {"cmp"})
  BY DEF Dos
<1> DEFINE front == Plain(<<"connect">>) \o s \o Plain(<<"remVlanHost", "remVlanTrgt">>)
           last == Plain(<<"exit">>)
<1>2. /\ Whole(Plain(<<"connect">>)) /\ Whole(last)
      /\ Whole(Plain(<<"remVlanHost", "remVlanTrgt">>))
  BY <1>1, PlainWhole, Zenon
<1>3. Whole(front)
  BY <1>2, JoinWhole
<1>4. Len(last) = 1 /\ last[1].do = "exit"
  <2> DEFINE one == <<"exit">>
  <2>1. one \in Seq(Dos) /\ Len(one) = 1 /\ one[1] = "exit"
    BY DEF Dos
  <2>2. last = Plain(one)
    OBVIOUS
  <2> HIDE DEF one, last
  <2>3. Len(last) = Len(one) /\ \A i \in 1..Len(one) : last[i].do = one[i]
    BY <2>1, <2>2, PlainOps
  <2> QED
    BY <2>1, <2>3
<1>5. code = front \o last
  OBVIOUS
<1> HIDE DEF front, last
<1>6. /\ Len(code) = Len(front) + Len(last) /\ Len(front) \in Nat
      /\ \A i \in 1..Len(last) : code[Len(front) + i] = last[i]
  <2>1. front \in Seq(Operations) /\ last \in Seq(Operations)
    BY <1>2, <1>3 DEF Whole
  <2> QED
    BY <1>5, <2>1, ConcatProperties
<1>7. code[Len(front) + 1] = last[1] /\ Len(code) = Len(front) + 1
  BY <1>4, <1>6
<1>8. Whole(code)
  BY <1>2, <1>3, <1>5, JoinWhole, Zenon
<1>9. Len(code) >= 1 /\ code[Len(code)].do = "exit"
  <2>1. \A z \in Nat : z + 1 >= 1
    OBVIOUS
  <2>2. Len(code) >= 1
    BY <1>6, <1>7, <2>1
  <2>3. code[Len(code)] = last[1]
    BY <1>7, Zenon
  <2> QED
    BY <1>4, <2>2, <2>3, Zenon
<1> QED
  BY <1>8, <1>9

\* The operations that talk to the board before they are over.
Talk == {"connect", "settrgtLinkAuto", "remVlanTrgt", "vconfig", "down", "mtu", "vlanup", "inet6",
         "ipv4", "remTrgtFile", "checkHostPing", "checkTrgtPing"}

\* What a step of the script does to the host's files.
CopyStep(code) ==
  \/ UNCHANGED <<k, randfile, trandfile>> /\ (stage' = stage \/ code[k].do \in Talk)
  \/ /\ k' = k + 1 /\ stage' = "start"
     /\ \/ code[k].do = "remHostFiles" /\ randfile' = 0 /\ trandfile' = 0
        \/ code[k].do = "dd" /\ randfile' \in {k, randfile} /\ UNCHANGED trandfile
        \/ code[k].do = "scpback" /\ UNCHANGED randfile
        \/ /\ code[k].do = "cmp" /\ randfile # 0 /\ randfile = trandfile
           /\ UNCHANGED <<randfile, trandfile>>
        \/ /\ code[k].do \notin {"remHostFiles", "dd", "scpback", "cmp", "exit"} \/ stage # "start"
           /\ UNCHANGED <<randfile, trandfile>>

\* The progress of the copy that ends with the compare at c.
CopyOf(c) ==
  /\ k \in {c - 4, c - 3} => randfile = 0
  /\ k \in {c - 2, c - 1, c} => randfile \in {0, c - 3}
  /\ k = c + 1 => randfile = c - 3 /\ trandfile = randfile
CopyInv(code) ==
  /\ k \in 1..Len(code) /\ (stage # "start" => code[k].do \in Talk)
  /\ \A c \in 1..Len(code) : code[c].do = "cmp" => CopyOf(c)

\* It is an invariant of those steps.
LEMMA CopyInvStep ==
  ASSUME NEW code, Whole(code), code[Len(code)].do = "exit", CopyInv(code), CopyStep(code)
  PROVE  CopyInv(code)'
<1>1. /\ k \in 1..Len(code) /\ (stage # "start" => code[k].do \in Talk)
      /\ Len(code) \in Nat /\ k \in Nat \ {0}
  BY DEF CopyInv, Whole
<1>2. k' \in 1..Len(code) /\ (stage' # "start" => code[k'].do \in Talk)
  <2>1. CASE k' = k
    BY <1>1, <2>1 DEF CopyStep
  <2>2. CASE k' = k + 1 /\ stage' = "start"
    <3>1. code[k].do # "exit"
      BY <1>1, <2>2 DEF CopyStep, Talk
    <3>2. k # Len(code)
      BY <3>1
    <3> QED
      BY <1>1, <2>2, <3>2
  <2> QED
    BY <2>1, <2>2 DEF CopyStep
<1>3. ASSUME NEW c \in 1..Len(code), code[c].do = "cmp" PROVE CopyOf(c)'
  <2>1. /\ c \in Nat /\ c > 5 /\ code[c - 5].do = "remHostFiles" /\ code[c - 4].do = "remTrgtFile"
        /\ code[c - 3].do = "dd" /\ code[c - 2].do = "scpto" /\ code[c - 1].do = "scpback"
    BY <1>3 DEF Whole
  <2>2. CopyOf(c)
    BY <1>3 DEF CopyInv
  <2>3. CASE k' = k
    BY <1>1, <2>2, <2>3 DEF CopyStep, CopyOf
  <2>4. CASE k' = k + 1 /\ k = c - 5
    <3>1. randfile' = 0
      <4>1. code[k].do = "remHostFiles" /\ k' # k
        BY <1>1, <2>1, <2>4
      <4>2. stage = "start"
        BY <1>1, <4>1 DEF Talk
      <4> QED
        BY <4>1, <4>2 DEF CopyStep
    <3> QED
      BY <2>1, <2>4, <3>1 DEF CopyOf
  <2>5. CASE k' = k + 1 /\ k = c - 4
    <3>1. randfile = 0 /\ randfile' = 0
      BY <1>1, <2>1, <2>2, <2>5 DEF CopyStep, CopyOf
    <3> QED
      BY <2>1, <2>5, <3>1 DEF CopyOf
  <2>6. CASE k' = k + 1 /\ k = c - 3
    <3>1. randfile = 0
      BY <2>2, <2>6 DEF CopyOf
    <3>2. randfile' \in {0, c - 3}
      BY <1>1, <2>1, <2>6, <3>1 DEF CopyStep, Talk
    <3> QED
      BY <2>1, <2>6, <3>2 DEF CopyOf
  <2>7. CASE k' = k + 1 /\ k \in {c - 2, c - 1}
    <3>1. randfile' = randfile
      BY <1>1, <2>1, <2>7 DEF CopyStep
    <3> QED
      BY <2>1, <2>2, <2>7, <3>1 DEF CopyOf
  <2>8. CASE k' = k + 1 /\ k = c
    <3>1. randfile # 0 /\ randfile = trandfile /\ UNCHANGED <<randfile, trandfile>>
      BY <1>1, <1>3, <2>8 DEF CopyStep, Talk
    <3>2. randfile = c - 3
      BY <2>2, <2>8, <3>1 DEF CopyOf
    <3> QED
      BY <2>1, <2>8, <3>1, <3>2 DEF CopyOf
  <2>9. CASE /\ k' = k + 1 /\ k # c - 5 /\ k # c - 4 /\ k # c - 3 /\ k # c - 2 /\ k # c - 1
             /\ k # c
    <3>1. /\ k' # c - 4 /\ k' # c - 3 /\ k' # c - 2 /\ k' # c - 1 /\ k' # c /\ k' # c + 1
      <4>1. k \in Int /\ c \in Int
        BY <1>1, <2>1
      <4> QED
        BY <4>1, <2>9
    <3> QED
      BY <3>1 DEF CopyOf
  <2> QED
    BY <2>3, <2>4, <2>5, <2>6, <2>7, <2>8, <2>9 DEF CopyStep
<1> QED
  BY <1>2, <1>3 DEF CopyInv

\* The dd of a copy is the last one before its compare.
LastOf(code, do, i) ==
  LET at == {j \in 1..(i - 1) : code[j].do = do}
  IN IF at = {} THEN 0 ELSE CHOOSE j \in at : \A l \in at : l <= j

LEMMA LastDd ==
  ASSUME NEW code, Whole(code), NEW c \in 1..Len(code), code[c].do = "cmp"
  PROVE  LastOf(code, "dd", c + 1) = c - 3
<1>1. /\ c \in Nat /\ c > 5 /\ code[c - 3].do = "dd" /\ code[c - 2].do # "dd"
      /\ code[c - 1].do # "dd" /\ code[c].do # "dd"
  BY DEF Whole
<1> DEFINE at == {j \in 1..((c + 1) - 1) : code[j].do = "dd"}
<1>2. c - 3 \in at
  BY <1>1
<1>3. ASSUME NEW l \in at PROVE l <= c - 3
  BY <1>1
<1>4. \A j \in at : (\A l \in at : l <= j) => j = c - 3
  BY <1>1, <1>2, <1>3
<1>5. (CHOOSE j \in at : \A l \in at : l <= j) = c - 3
  <2> HIDE DEF at
  <2> QED
    BY <1>2, <1>3, <1>4
<1> QED
  BY <1>2, <1>5, Zenon DEF LastOf

\* Files found equal are those of this copy.
LEMMA CopyRoundTripped ==
  ASSUME NEW code, Whole(code), CopyInv(code), k > 1, code[k - 1].do = "cmp"
  PROVE  randfile = LastOf(code, "dd", k) /\ trandfile = randfile
<1>1. PICK c \in 1..Len(code) : c = k - 1 /\ code[c].do = "cmp"
  <2>1. k \in 1..Len(code) /\ Len(code) \in Nat
    BY DEF CopyInv, Whole
  <2>2. k - 1 \in 1..Len(code)
    BY <2>1
  <2> QED
    BY <2>2
<1>2. c \in Nat /\ k \in Nat /\ k = c + 1
  BY <1>1 DEF CopyInv
<1>3. CopyOf(c)
  BY <1>1 DEF CopyInv
<1>4. randfile = c - 3 /\ trandfile = randfile
  BY <1>2, <1>3 DEF CopyOf
<1> QED
  BY <1>1, <1>2, <1>4, LastDd

\* The code of the two stream tests.
\* The code of the stream test.
LEMMA StreamCode ==
  ASSUME Test = "stream", Whole(Rounds)
  PROVE  Whole(Code) /\ Len(Code) >= 1 /\ Code[Len(Code)].do = "exit"
<1>1. Code = Plain(<<"connect">>) \o Rounds \o Plain(<<"remVlanHost", "remVlanTrgt">>)
             \o Plain(<<"exit">>)
  BY DEF Code, RemVlan, Ops, Op, Plain
<1> QED
  BY <1>1, CodeWhole, Zenon

\* Every step of the stream test is one of the steps above.
LEMMA CopySteps == Next => CopyStep(Code)
<1> USE DEF Running, Do, Finish, Fail, None,
        script, files
<1>1. remHostFiles => CopyStep(Code)
  BY DEF remHostFiles, CopyStep
<1>2. remVlanHost \/ addVlanHost => CopyStep(Code)
  BY Zenon DEF remVlanHost, addVlanHost, CopyStep
<1>3. MakeFile \/ CopyTo \/ CopyBack => CopyStep(Code)
  BY DEF MakeFile, CopyTo, CopyBack, CopyStep
<1>4. Compare => CopyStep(Code)
  BY DEF Compare, CopyStep
<1>5. Verdict \/ Exit => CopyStep(Code)
  BY DEF Verdict, Exit, CopyStep
<1>6. checkTrgtPing \/ Type \/ Send => CopyStep(Code)
  BY DEF checkTrgtPing, Type, Send, Silent,
         Asked, Talk, CopyStep
<1>7. ExpectMatch \/ ExpectTimeout => CopyStep(Code)
  BY DEF ExpectMatch, ExpectTimeout, Asked, Talk, CopyStep
<1>8. ConnectLogin \/ ConnectPrompt \/ ConnectTimeout
        => CopyStep(Code)
  BY DEF ConnectLogin, ConnectPrompt, ConnectTimeout,
         Waiting, CopyStep
<1>9. BoardRun => CopyStep(Code)
  BY DEF BoardRun, CopyStep
<1> QED
  BY <1>1, <1>2, <1>3, <1>4, <1>5, <1>6, <1>7, <1>8, <1>9 DEF Next

\* Every step of the one with a slow board is one of the steps above.
\* A copy begins at the first operation.
LEMMA CopyInit ==
  ASSUME NEW code, Whole(code), Len(code) >= 1, k = 1, stage = "start"
  PROVE  CopyInv(code)
<1>1. 1 \in 1..Len(code)
  BY DEF Whole
<1>2. ASSUME NEW c \in 1..Len(code), code[c].do = "cmp" PROVE CopyOf(c)
  <2>1. c \in Nat /\ c > 5
    BY <1>2 DEF Whole
  <2> QED
    BY <2>1 DEF CopyOf
<1> QED
  BY <1>1, <1>2 DEF CopyInv
\* Its invariant, and what it is for.
LEMMA CopyStart ==
  ASSUME Test = "stream", Whole(Rounds), Init
  PROVE  CopyInv(Code)
BY StreamCode, CopyInit DEF Init

LEMMA CopyKept ==
  ASSUME Test = "stream", Whole(Rounds), CopyInv(Code), [Next]_vars
  PROVE  CopyInv(Code)'
<1>1. CASE UNCHANGED vars
  <2>1. UNCHANGED <<k, stage, randfile, trandfile>>
    BY <1>1 DEF vars, script, files
  <2> QED
    BY <2>1 DEF CopyInv, CopyOf
<1>2. CASE Next
  <2>1. PICK code : code = Code
    OBVIOUS
  <2>2. CopyInv(code) /\ CopyStep(code) /\ Whole(code) /\ code[Len(code)].do = "exit"
    BY <1>2, <2>1, CopySteps, StreamCode
  <2>3. CopyInv(code)'
    BY <2>2, CopyInvStep
  <2> QED
    BY <2>1, <2>3
<1> QED
  BY <1>1, <1>2

LEMMA CopyFound ==
  ASSUME Test = "stream", Whole(Rounds), CopyInv(Code)
  PROVE  RoundTripped
BY StreamCode, CopyRoundTripped, Zenon DEF RoundTripped, Past, LastBefore, LastOf

\* Files that the stream test finds equal were made by the dd of this very copy
\* and brought back from the board: for any number of copies and of MTUs
\* between them (the rounds of emacteststream.exp are whole, by
\* StreamRoundsWhole), whatever fails and however late the board removes its
\* file (testlib.exp:304-308).
THEOREM RoundTrippedThm ==
  ASSUME Test = "stream", Whole(Rounds)
  PROVE  Spec => []RoundTripped
<1>1. Init => CopyInv(Code)
  BY CopyStart
<1>2. CopyInv(Code) /\ [Next]_vars => CopyInv(Code)'
  BY CopyKept
<1>3. CopyInv(Code) => RoundTripped
  BY CopyFound
<1> QED
  BY <1>1, <1>2, <1>3, PTL DEF Spec
-----------------------------------------------------------------------------
(* What a pattern matches.                                                  *)

\* The least of a set of numbers.
LEMMA NatMin ==
  ASSUME NEW T \in SUBSET Nat, T # {}
  PROVE  \E x \in T : \A y \in T : x <= y
<1> DEFINE R == OpToRel(<, Nat)
<1>1. IsWellFoundedOn(R, Nat)
  BY NatLessThanWellFounded, Zenon
<1>2. \A x, y \in Nat : <<y, x>> \in R <=> y < x
  BY DEF OpToRel
<1> HIDE DEF R
<1>3. \E x \in T : \A y \in T : ~(<<y, x>> \in R)
  BY <1>1, WFMin, Zenon
<1>4. PICK x \in T : \A y \in T : ~(<<y, x>> \in R)
  BY <1>3
<1>5. ASSUME NEW y \in T PROVE x <= y
  <2>1. x \in Nat /\ y \in Nat
    OBVIOUS
  <2>2. ~(y < x)
    BY <1>2, <1>4, <2>1, Zenon
  <2> QED
    BY <2>1, <2>2
<1> QED
  BY <1>5

\* What expect finds is a place of the buffer at which its pattern matches.
LEMMA Found ==
  ASSUME NEW pats, NEW p \in 1..Len(pats), Hits(pats[p]) # {}
  PROVE  /\ FirstHit(p, pats) \in 1..Len(buf)
         /\ <<buf[FirstHit(p, pats)].text, buf[FirstHit(p, pats)].val>> \in pats[p]
<1>1. Hits(pats[p]) \in SUBSET Nat
  BY DEF Hits
<1>2. FirstHit(p, pats) \in Hits(pats[p])
  BY <1>1, NatMin, Zenon DEF FirstHit
<1> QED
  BY <1>2 DEF Hits

LEMMA FoundFirst ==
  ASSUME NEW pats, Len(pats) \in Nat, Matching(pats) # {}
  PROVE  FirstMatching(pats) \in 1..Len(pats) /\ Hits(pats[FirstMatching(pats)]) # {}
<1>1. Matching(pats) \in SUBSET Nat
  BY DEF Matching
<1>2. FirstMatching(pats) \in Matching(pats)
  BY <1>1, NatMin DEF FirstMatching
<1> QED
  BY <1>2 DEF Matching

-----------------------------------------------------------------------------
(* emactestjumbo.exp, on a board that executes what was typed in time.      *)

JumboCode == Code
JumboDos == {"settrgtLinkAuto", "remVlanHost", "remVlanTrgt", "vconfig", "down", "mtu", "vlanup",
             "inet6", "ipv4", "addVlanHost", "checkHostPing", "checkTrgtPing", "reply", "silence"}
PingDos == {"checkHostPing", "checkTrgtPing"}
TypedDos == {"settrgtLinkAuto", "remVlanTrgt", "vconfig", "down", "mtu", "vlanup", "inet6", "ipv4"}

JumboLines == [cmd : TypedDos \cup {"checkHostPing", "return", "root"}, tag : Nat]
JumboTokens == [text : {"prompt", "login:", "ping"}, val : Int, tag : Nat]

LastMtu(i) == LastBefore("mtu", i)
NoneTyped(q, c) == \A i \in 1..Len(q) : q[i].cmd # c
NotPrinted(b, x) == \A j \in 1..Len(b) : b[j].text # x
\* A summary that the patterns of a ping match.
Summary(t) == t.text = "ping" /\ t.val \in {0, 2}
NoSummary(b) == \A j \in 1..Len(b) : ~Summary(b[j])

JumboPos ==
  /\ Test = "jumbo" /\ Prompt30 = TRUE
  /\ k \in 1..Len(JumboCode) /\ stage \in {"start", "expect", "await"}
  /\ stage = "expect" => JumboCode[k].do = "checkHostPing"
  /\ stage = "await" => JumboCode[k].do \in TypedDos \cup PingDos \cup {"connect"}
  /\ inq \in Seq(JumboLines) /\ buf \in Seq(JumboTokens) /\ shell \in {"login", "shell"}

\* connect ends with the shell's prompt, whatever it started with.
FirstConnect ==
  k = 1 =>
    \/ stage = "start" /\ inq = <<>> /\ buf = <<>>
    \/ /\ stage = "await"
       /\ \/ inq = <<Line("return", 1)>> /\ buf = <<>>
          \/ inq = <<>> /\ buf = <<LoginPrompt>> /\ shell = "login"
          \/ inq = <<Line("root", 1), Line("return", 1)>> /\ buf = <<>> /\ shell = "login"
          \/ inq = <<Line("return", 1)>> /\ buf = <<Prompt>> /\ shell = "shell"
          \/ inq = <<>> /\ buf = <<Prompt, Prompt>> /\ shell = "shell"
          \/ inq = <<>> /\ buf = <<Prompt>> /\ shell = "shell"
LoggedIn == k > 1 => shell = "shell" /\ NotPrinted(buf, "login:")

\* The summary of a ping is waited for, or there is none; once it is printed
\* nothing is left to be executed.
PingInv ==
  IF stage # "expect" THEN NoneTyped(inq, "checkHostPing") /\ NoSummary(buf)
  ELSE \/ /\ inq # <<>> /\ inq[Len(inq)] = Line("checkHostPing", k)
          /\ \A i \in 1..(Len(inq) - 1) : inq[i].cmd # "checkHostPing"
          /\ NoSummary(buf)
       \/ /\ inq = <<>>
          /\ \A j \in 1..Len(buf) : Summary(buf[j]) => buf[j].tag = k
          /\ \A i, j \in 1..Len(buf) : Summary(buf[i]) /\ Summary(buf[j]) => i = j

\* The mtu command that was typed last, m, is the last one to be executed or
\* was.
MtuOf(q, s, m) ==
  /\ NoneTyped(q, "mtu") => s = m
  /\ \A i \in 1..Len(q) : /\ q[i].cmd = "mtu" /\ (\A j \in 1..Len(q) : q[j].cmd = "mtu" => j <= i)
                          => q[i].tag = m
MtuInv ==
  MtuOf(inq, set, IF stage = "await" /\ JumboCode[k].do = "mtu" THEN k ELSE LastMtu(k))

\* The result of ping p is its own, under the MTU of its part of the test.
Owned(p) ==
  /\ heard = p
  /\ JumboCode[p].do = "checkHostPing" => set = LastMtu(p) /\ NoneTyped(inq, "mtu")
HeardInv ==
  /\ stage = "await" /\ JumboCode[k].do \in PingDos /\ rr = 0 => Owned(k)
  /\ stage = "start" /\ k > 1 /\ JumboCode[k - 1].do \in PingDos /\ rr = 0 => Owned(k - 1)
  /\ stage = "start" /\ k > 1 /\ JumboCode[k - 1].do = "silence" => Owned(k - 2)

JumboInv == JumboPos /\ FirstConnect /\ LoggedIn /\ PingInv /\ MtuInv /\ HeardInv

\* Every silence is wanted of the ping before it.
Asks(s) ==
  /\ s \in Seq(Operations)
  /\ \A i \in 1..Len(s) : /\ s[i].do \in JumboDos
                          /\ s[i].do = "silence" => i > 1 /\ s[i - 1].do \in PingDos

LEMMA PlainAsks ==
  ASSUME NEW dos \in Seq(JumboDos \ {"silence"})
  PROVE  Asks(Plain(dos))
<1>1. JumboDos \ {"silence"} \subseteq Dos
  BY DEF JumboDos, Dos
<1>2. dos \in Seq(Dos) /\ \A i \in 1..Len(dos) : dos[i] \in JumboDos /\ dos[i] # "silence"
  BY <1>1, SeqMonotonic, ElementOfSeq
<1> QED
  BY <1>2, PlainOps DEF Asks

LEMMA OneAsks ==
  ASSUME NEW do \in JumboDos \ {"silence"}, NEW n \in Nat
  PROVE  Asks(<<[do |-> do, n |-> n]>>)
<1>1. [do |-> do, n |-> n] \in Operations
  BY DEF Operations, JumboDos, Dos
<1> QED
  BY <1>1 DEF Asks

LEMMA JoinAsks ==
  ASSUME NEW s, NEW t, Asks(s), Asks(t)
  PROVE  Asks(s \o t)
<1>1. s \in Seq(Operations) /\ t \in Seq(Operations) /\ Len(s) \in Nat /\ Len(t) \in Nat
  BY DEF Asks
<1> DEFINE st == s \o t
<1>2. /\ st \in Seq(Operations) /\ Len(st) = Len(s) + Len(t)
      /\ \A i \in 1..Len(s) : st[i] = s[i]
      /\ \A i \in 1..Len(t) : st[Len(s) + i] = t[i]
  BY <1>1, ConcatProperties
<1> HIDE DEF st
<1>3. ASSUME NEW i \in 1..Len(st)
      PROVE  st[i].do \in JumboDos /\ (st[i].do = "silence" => i > 1 /\ st[i - 1].do \in PingDos)
  <2>1. CASE i <= Len(s)
    <3>1. i \in 1..Len(s) /\ st[i] = s[i]
      BY <1>1, <1>2, <2>1
    <3>2. s[i].do \in JumboDos /\ (s[i].do = "silence" => i > 1 /\ s[i - 1].do \in PingDos)
      BY <3>1 DEF Asks
    <3>3. i > 1 => i - 1 \in 1..Len(s)
      BY <1>1, <3>1
    <3>4. i > 1 => st[i - 1] = s[i - 1]
      BY <1>2, <3>3
    <3> QED
      BY <3>1, <3>2, <3>4
  <2>2. CASE i > Len(s)
    <3>1. PICK m \in 1..Len(t) : i = Len(s) + m
      <4>1. i - Len(s) \in 1..Len(t) /\ i = Len(s) + (i - Len(s))
        BY <1>1, <1>2, <2>2
      <4> QED
        BY <4>1, Zenon
    <3>2. st[i] = t[m]
      BY <1>2, <3>1
    <3>3. t[m].do \in JumboDos /\ (t[m].do = "silence" => m > 1 /\ t[m - 1].do \in PingDos)
      BY DEF Asks
    <3>4. m > 1 => m - 1 \in 1..Len(t) /\ i - 1 = Len(s) + (m - 1) /\ i > 1
      BY <1>1, <3>1
    <3>5. m > 1 => st[i - 1] = t[m - 1]
      BY <1>2, <3>4, Zenon
    <3> QED
      BY <3>2, <3>3, <3>4, <3>5
  <2> QED
    BY <1>1, <1>2, <2>1, <2>2
<1> QED
  BY <1>2, <1>3 DEF Asks, st

\* Pings of one size, with what is wanted of each.
LEMMA BothAsks ==
  ASSUME NEW size \in Nat, NEW want \in {"reply", "silence"}
  PROVE  Asks(Both(size, want))
<1> DEFINE s == <<[do |-> "checkHostPing", n |-> size], [do |-> want, n |-> 0],
                  [do |-> "checkTrgtPing", n |-> size], [do |-> want, n |-> 0]>>
<1>1. /\ s \in Seq(Operations) /\ Len(s) = 4 /\ s[1].do = "checkHostPing" /\ s[2].do = want
      /\ s[3].do = "checkTrgtPing" /\ s[4].do = want
  BY DEF Operations, Dos
<1>2. Both(size, want) \in {s, s \o s}
  BY DEF Both, Times, Op
<1> HIDE DEF s
<1>3. Asks(s)
  <2>1. ASSUME NEW i \in 1..Len(s)
        PROVE  s[i].do \in JumboDos /\ (s[i].do = "silence" => i > 1 /\ s[i - 1].do \in PingDos)
    <3>1. i = 1 \/ i = 2 \/ i = 3 \/ i = 4
      BY <1>1
    <3>2. CASE i = 1
      BY <1>1, <3>2 DEF JumboDos
    <3>3. CASE i = 2
      BY <1>1, <3>3 DEF JumboDos, PingDos
    <3>4. CASE i = 3
      BY <1>1, <3>4 DEF JumboDos
    <3>5. CASE i = 4
      BY <1>1, <3>5 DEF JumboDos, PingDos
    <3> QED
      BY <3>1, <3>2, <3>3, <3>4, <3>5
  <2> QED
    BY <1>1, <2>1 DEF Asks
<1> QED
  BY <1>2, <1>3, JoinAsks, Zenon

LEMMA AddVlanAsks ==
  ASSUME NEW tmtu \in Nat, NEW hmtu \in Nat
  PROVE  Asks(RemVlan) /\ Asks(AddVlan(tmtu, hmtu))
<1> DEFINE rem == Plain(<<"remVlanHost", "remVlanTrgt">>)
           one == Plain(<<"vconfig", "down">>)
           two == Plain(<<"vlanup", "inet6", "ipv4">>)
           mtu == <<[do |-> "mtu", n |-> tmtu]>>
           host == <<[do |-> "addVlanHost", n |-> hmtu]>>
<1>1. Asks(rem)
  <2>1. <<"remVlanHost", "remVlanTrgt">> \in Seq(JumboDos \ {"silence"})
    BY DEF JumboDos
  <2> QED
    BY <2>1, PlainAsks, Zenon
<1>2. Asks(one)
  <2>1. <<"vconfig", "down">> \in Seq(JumboDos \ {"silence"})
    BY DEF JumboDos
  <2> QED
    BY <2>1, PlainAsks, Zenon
<1>3. Asks(two)
  <2>1. <<"vlanup", "inet6", "ipv4">> \in Seq(JumboDos \ {"silence"})
    BY DEF JumboDos
  <2> QED
    BY <2>1, PlainAsks, Zenon
<1>4. Asks(mtu) /\ Asks(host)
  BY OneAsks DEF JumboDos
<1>5. RemVlan = rem
  BY DEF RemVlan, Ops, Op, Plain
<1>6. AddVlan(tmtu, hmtu) = one \o mtu \o two \o host
  BY DEF AddVlan, Ops, Op, Plain
<1> HIDE DEF rem, one, two, mtu, host
<1>7. Asks(one \o mtu \o two \o host)
  BY <1>2, <1>3, <1>4, JoinAsks
<1> QED
  BY <1>1, <1>5, <1>6, <1>7

LEMMA JumboAsks == Asks(Jumbo)
<1> DEFINE s == <<[do |-> "checkHostPing", n |-> 4000], [do |-> "silence", n |-> 0]>>
<1>1. s \in Seq(Operations) /\ Len(s) = 2 /\ s[1].do = "checkHostPing" /\ s[2].do = "silence"
  BY DEF Operations, Dos
<1> DEFINE t == Times(<<Op("checkHostPing", 4000), Op("silence", 0)>>)
<1>2. t = s \/ t = s \o s
  BY DEF Times, Op
<1> HIDE DEF s, t
<1>3. Asks(s)
  <2>1. ASSUME NEW i \in 1..Len(s)
        PROVE  s[i].do \in JumboDos /\ (s[i].do = "silence" => i > 1 /\ s[i - 1].do \in PingDos)
    <3>1. i = 1 \/ i = 2
      BY <1>1
    <3>2. CASE i = 1
      BY <1>1, <3>2 DEF JumboDos
    <3>3. CASE i = 2
      BY <1>1, <3>3 DEF JumboDos, PingDos
    <3> QED
      BY <3>1, <3>2, <3>3
  <2> QED
    BY <1>1, <2>1 DEF Asks
<1>4. Asks(Times(<<Op("checkHostPing", 4000), Op("silence", 0)>>))
  <2>1. Asks(s \o s)
    BY <1>3, JoinAsks
  <2>2. Asks(t)
    BY <1>2, <1>3, <2>1, Zenon
  <2> QED
    BY <2>2 DEF t
<1>5. /\ Asks(RemVlan) /\ Asks(AddVlan(1500, 1500))
      /\ Asks(AddVlan(3700, 8000))
  BY AddVlanAsks
<1>6. /\ Asks(Both(64, "reply")) /\ Asks(Both(3600, "silence"))
      /\ Asks(Both(3600, "reply")) /\ Asks(Both(7000, "silence"))
  BY BothAsks
<1>7. Asks(RemVlan \o AddVlan(1500, 1500) \o Both(64, "reply")
           \o Both(3600, "silence"))
  BY <1>5, <1>6, JoinAsks
<1> QED
  BY <1>4, <1>5, <1>6, <1>7, JoinAsks DEF Jumbo

\* What is known of the script of the jumbo test: its silences, and where it
\* connects and exits.
LEMMA JumboCodeIs ==
  ASSUME Test = "jumbo"
  PROVE
  /\ JumboCode \in Seq(Operations) /\ Len(JumboCode) \in Nat /\ Len(JumboCode) > 2
  /\ JumboCode[1].do = "connect" /\ JumboCode[Len(JumboCode)].do = "exit"
  /\ \A i \in 2..(Len(JumboCode) - 1) : JumboCode[i].do \in JumboDos
  /\ \A i \in 1..Len(JumboCode) :
       JumboCode[i].do = "silence" => i > 2 /\ JumboCode[i - 1].do \in PingDos
<1> DEFINE a == Plain(<<"connect", "settrgtLinkAuto">>)
           j == Jumbo
           z == Plain(<<"exit">>)
<1>1. JumboCode = (a \o j) \o z
  BY DEF JumboCode, Code, Ops, Op, Plain
<1>2. a \in Seq(Operations) /\ Len(a) = 2 /\ a[1].do = "connect" /\ a[2].do = "settrgtLinkAuto"
  <2> DEFINE two == <<"connect", "settrgtLinkAuto">>
  <2>1. two \in Seq(Dos) /\ Len(two) = 2 /\ two[1] = "connect" /\ two[2] = "settrgtLinkAuto"
    BY DEF Dos
  <2>2. a = Plain(two)
    OBVIOUS
  <2> HIDE DEF two, a
  <2>3. /\ a \in Seq(Operations) /\ Len(a) = Len(two)
        /\ \A i \in 1..Len(two) : a[i].do = two[i]
    BY <2>1, <2>2, PlainOps
  <2> QED
    BY <2>1, <2>3
<1>3. z \in Seq(Operations) /\ Len(z) = 1 /\ z[1].do = "exit"
  <2> DEFINE one == <<"exit">>
  <2>1. one \in Seq(Dos) /\ Len(one) = 1 /\ one[1] = "exit"
    BY DEF Dos
  <2>2. z = Plain(one)
    OBVIOUS
  <2> HIDE DEF one, z
  <2>3. /\ z \in Seq(Operations) /\ Len(z) = Len(one)
        /\ \A i \in 1..Len(one) : z[i].do = one[i]
    BY <2>1, <2>2, PlainOps
  <2> QED
    BY <2>1, <2>3
<1>4. Asks(j)
  BY JumboAsks
<1> HIDE DEF a, j, z
<1>5. j \in Seq(Operations) /\ Len(j) \in Nat
  BY <1>4 DEF Asks
<1> DEFINE aj == a \o j
<1>6. /\ aj \in Seq(Operations) /\ Len(aj) = Len(a) + Len(j)
      /\ \A i \in 1..Len(a) : aj[i] = a[i]
      /\ \A i \in 1..Len(j) : aj[Len(a) + i] = j[i]
  <2>1. a \in Seq(Operations) /\ j \in Seq(Operations)
    BY <1>2, <1>5
  <2> QED
    BY <2>1, ConcatProperties
<1> HIDE DEF aj
<1>7. /\ JumboCode \in Seq(Operations) /\ Len(JumboCode) = Len(aj) + Len(z)
      /\ \A i \in 1..Len(aj) : JumboCode[i] = aj[i]
      /\ \A i \in 1..Len(z) : JumboCode[Len(aj) + i] = z[i]
  <2>1. aj \in Seq(Operations) /\ z \in Seq(Operations) /\ JumboCode = aj \o z
    BY <1>1, <1>3, <1>6 DEF aj
  <2> QED
    BY <2>1, ConcatProperties
<1>8. /\ Len(JumboCode) = Len(j) + 3 /\ JumboCode[1] = a[1] /\ JumboCode[2] = a[2]
      /\ JumboCode[Len(j) + 3] = z[1]
  <2>1. Len(aj) = Len(j) + 2 /\ Len(JumboCode) = Len(j) + 3
    BY <1>2, <1>3, <1>5, <1>6, <1>7
  <2>2. JumboCode[1] = a[1] /\ JumboCode[2] = a[2]
    BY <1>2, <1>5, <1>6, <1>7, <2>1
  <2>3. JumboCode[Len(aj) + 1] = z[1]
    BY <1>3, <1>7
  <2>4. Len(aj) + 1 = Len(j) + 3
    BY <1>5, <2>1
  <2> QED
    BY <2>1, <2>2, <2>3, <2>4
<1>9. ASSUME NEW m \in 1..Len(j) PROVE JumboCode[m + 2] = j[m]
  <2>1. m + 2 \in 1..Len(aj) /\ m + 2 = Len(a) + m
    BY <1>2, <1>5, <1>6
  <2> QED
    BY <1>6, <1>7, <2>1
<1>10. ASSUME NEW i \in 3..(Len(JumboCode) - 1)
       PROVE  \E m \in 1..Len(j) : i = m + 2
  <2>1. i - 2 \in 1..Len(j) /\ i = (i - 2) + 2
    BY <1>5, <1>8
  <2> QED
    BY <2>1
<1>11. ASSUME NEW i \in 2..(Len(JumboCode) - 1) PROVE JumboCode[i].do \in JumboDos
  <2>1. CASE i = 2
    BY <1>2, <1>8, <2>1 DEF JumboDos
  <2>2. CASE i # 2
    <3>1. i \in 3..(Len(JumboCode) - 1)
      BY <1>5, <1>8, <2>2
    <3>2. PICK m \in 1..Len(j) : i = m + 2
      BY <1>10, <3>1
    <3> QED
      BY <1>4, <1>9, <3>2 DEF Asks
  <2> QED
    BY <2>1, <2>2
<1>12. ASSUME NEW i \in 1..Len(JumboCode), JumboCode[i].do = "silence"
       PROVE  i > 2 /\ JumboCode[i - 1].do \in PingDos
  <2>1. i # 1 /\ i # 2 /\ i # Len(j) + 3
    BY <1>2, <1>3, <1>8, <1>12
  <2>2. i \in 3..(Len(JumboCode) - 1)
    BY <1>5, <1>8, <2>1
  <2>3. PICK m \in 1..Len(j) : i = m + 2
    BY <1>10, <2>2
  <2>4. j[m].do = "silence"
    BY <1>9, <1>12, <2>3
  <2>5. m > 1 /\ j[m - 1].do \in PingDos
    BY <1>4, <2>4 DEF Asks
  <2>6. m - 1 \in 1..Len(j) /\ (m - 1) + 2 = i - 1
    BY <1>5, <2>3, <2>5
  <2>7. JumboCode[(m - 1) + 2] = j[m - 1]
    BY <1>9, <2>6
  <2> QED
    BY <1>5, <2>2, <2>5, <2>6, <2>7
<1>13. /\ Len(JumboCode) \in Nat /\ Len(JumboCode) > 2
       /\ JumboCode[1].do = "connect" /\ JumboCode[Len(JumboCode)].do = "exit"
  BY <1>2, <1>3, <1>5, <1>8
<1> QED
  BY <1>7, <1>11, <1>12, <1>13

\* The mtu command before the next place.
LEMMA LastMtuNext ==
  ASSUME NEW i \in Nat, i >= 1
  PROVE  LastMtu(i + 1) = IF JumboCode[i].do = "mtu" THEN i ELSE LastMtu(i)
<1> DEFINE At(n) == {j \in 1..(n - 1) : JumboCode[j].do = "mtu"}
<1>1. \A n : LastMtu(n) = IF At(n) = {} THEN 0
                          ELSE CHOOSE j \in At(n) : \A l \in At(n) : l <= j
  BY DEF LastMtu, LastBefore, JumboCode
<1>2. CASE JumboCode[i].do = "mtu"
  <2>1. i \in At(i + 1) /\ \A l \in At(i + 1) : l <= i /\ l \in Nat
    BY <1>2
  <2>2. \A j \in At(i + 1) : (\A l \in At(i + 1) : l <= j) => j = i
    BY <2>1
  <2> HIDE DEF At
  <2>3. (CHOOSE j \in At(i + 1) : \A l \in At(i + 1) : l <= j) = i
    BY <2>1, <2>2
  <2> QED
    BY <1>1, <1>2, <2>1, <2>3
<1>3. CASE JumboCode[i].do # "mtu"
  <2>1. At(i + 1) = At(i)
    <3>1. ASSUME NEW j PROVE j \in At(i + 1) <=> j \in At(i)
      BY <1>3
    <3> QED
      BY <3>1
  <2> DEFINE S == At(i)
  <2>2. LastMtu(i) = IF S = {} THEN 0 ELSE CHOOSE j \in S : \A l \in S : l <= j
    BY <1>1
  <2>3. LastMtu(i + 1) = IF S = {} THEN 0 ELSE CHOOSE j \in S : \A l \in S : l <= j
    <3>1. LastMtu(i + 1) = IF At(i + 1) = {} THEN 0
                           ELSE CHOOSE j \in At(i + 1) : \A l \in At(i + 1) : l <= j
      BY <1>1, Zenon
    <3> HIDE DEF At
    <3> QED
      BY <2>1, <3>1, Zenon
  <2> HIDE DEF S
  <2> QED
    BY <1>3, <2>2, <2>3
<1> QED
  BY <1>2, <1>3

\* A line is typed.
LEMMA Typed ==
  ASSUME NEW q \in Seq(JumboLines), NEW l \in JumboLines
  PROVE  /\ Append(q, l) \in Seq(JumboLines) /\ Len(Append(q, l)) = Len(q) + 1
         /\ \A c : NoneTyped(q, c) /\ l.cmd # c => NoneTyped(Append(q, l), c)
         /\ \A s, m : l.cmd # "mtu" /\ MtuOf(q, s, m) => MtuOf(Append(q, l), s, m)
         /\ \A s : l.cmd = "mtu" => MtuOf(Append(q, l), s, l.tag)
         /\ Append(q, l)[Len(q) + 1] = l
         /\ \A i \in 1..Len(q) : Append(q, l)[i] = q[i]
<1> DEFINE p == Append(q, l)
<1>1. /\ p \in Seq(JumboLines) /\ Len(p) = Len(q) + 1 /\ Len(q) \in Nat
      /\ \A i \in 1..Len(q) : p[i] = q[i]
      /\ p[Len(q) + 1] = l
  BY AppendProperties
<1> HIDE DEF p
<1>2. \A i \in 1..Len(p) : i \in 1..Len(q) \/ i = Len(q) + 1
  BY <1>1
<1>3. \A c : NoneTyped(q, c) /\ l.cmd # c => NoneTyped(p, c)
  BY <1>1, <1>2 DEF NoneTyped
<1>4. ASSUME NEW s, NEW m, l.cmd # "mtu", MtuOf(q, s, m) PROVE MtuOf(p, s, m)
  <2>1. NoneTyped(p, "mtu") => NoneTyped(q, "mtu")
    BY <1>1 DEF NoneTyped
  <2>2. ASSUME NEW i \in 1..Len(p), p[i].cmd = "mtu",
               \A j \in 1..Len(p) : p[j].cmd = "mtu" => j <= i
        PROVE  p[i].tag = m
    <3>1. i \in 1..Len(q) /\ p[i] = q[i]
      BY <1>1, <1>2, <1>4, <2>2
    <3>2. \A j \in 1..Len(q) : q[j].cmd = "mtu" => j <= i
      <4>1. \A j \in 1..Len(q) : j \in 1..Len(p) /\ p[j] = q[j]
        BY <1>1
      <4> QED
        BY <2>2, <4>1
    <3> QED
      BY <1>4, <2>2, <3>1, <3>2 DEF MtuOf
  <2> QED
    BY <1>4, <2>1, <2>2 DEF MtuOf
<1>5. ASSUME NEW s, l.cmd = "mtu" PROVE MtuOf(p, s, l.tag)
  <2>1. Len(q) + 1 \in 1..Len(p) /\ p[Len(q) + 1].cmd = "mtu"
    BY <1>1, <1>5
  <2>2. ~NoneTyped(p, "mtu")
    BY <2>1 DEF NoneTyped
  <2>3. ASSUME NEW i \in 1..Len(p), \A j \in 1..Len(p) : p[j].cmd = "mtu" => j <= i
        PROVE  p[i].tag = l.tag
    <3>1. Len(q) + 1 <= i
      BY <2>1, <2>3
    <3>2. i = Len(q) + 1
      BY <1>1, <3>1
    <3> QED
      BY <1>1, <3>2
  <2> QED
    BY <2>2, <2>3 DEF MtuOf
<1> QED
  BY <1>1, <1>3, <1>4, <1>5 DEF p

\* The oldest line is executed; an mtu command by the shell.
LEMMA Executed ==
  ASSUME NEW q \in Seq(JumboLines), q # <<>>, NEW s, NEW m, MtuOf(q, s, m),
         NEW s2, s2 = IF Head(q).cmd = "mtu" THEN Head(q).tag ELSE s
  PROVE  /\ Tail(q) \in Seq(JumboLines) /\ Len(Tail(q)) = Len(q) - 1
         /\ \A c : NoneTyped(q, c) => NoneTyped(Tail(q), c)
         /\ MtuOf(Tail(q), s2, m)
         /\ \A i \in 1..Len(Tail(q)) : i + 1 \in 1..Len(q) /\ Tail(q)[i] = q[i + 1]
<1> DEFINE p == Tail(q)
<1>1. Len(q) \in Nat /\ Len(q) > 0 /\ 1 \in 1..Len(q) /\ Head(q) = q[1]
  OBVIOUS
<1>2. /\ p \in Seq(JumboLines) /\ Len(p) = Len(q) - 1
      /\ \A i \in 1..Len(p) : i + 1 \in 1..Len(q) /\ p[i] = q[i + 1]
  BY <1>1
<1> HIDE DEF p
<1>3. \A c : NoneTyped(q, c) => NoneTyped(p, c)
  BY <1>2 DEF NoneTyped
<1>4. \A j \in 1..Len(q) : j = 1 \/ j - 1 \in 1..Len(p)
  BY <1>1, <1>2
<1>5. \A j \in 1..Len(q) : j # 1 => p[j - 1] = q[j]
  <2>1. \A j \in 1..Len(q) : (j - 1) + 1 = j
    BY <1>1
  <2> QED
    BY <1>2, <1>4, <2>1
<1>6. ASSUME NoneTyped(p, "mtu") PROVE s2 = m
  <2>1. \A j \in 1..Len(q) : q[j].cmd = "mtu" => j = 1
    BY <1>4, <1>5, <1>6 DEF NoneTyped
  <2>2. CASE q[1].cmd = "mtu"
    <3>1. \A j \in 1..Len(q) : q[j].cmd = "mtu" => j <= 1
      BY <2>1
    <3>2. q[1].tag = m
      BY <1>1, <2>2, <3>1 DEF MtuOf
    <3> QED
      BY <1>1, <2>2, <3>2
  <2>3. CASE q[1].cmd # "mtu"
    <3>1. NoneTyped(q, "mtu")
      BY <2>1, <2>3 DEF NoneTyped
    <3> QED
      BY <1>1, <2>3, <3>1 DEF MtuOf
  <2> QED
    BY <2>2, <2>3
<1>7. ASSUME NEW i \in 1..Len(p), p[i].cmd = "mtu",
             \A j \in 1..Len(p) : p[j].cmd = "mtu" => j <= i
      PROVE  p[i].tag = m
  <2>1. i + 1 \in 1..Len(q) /\ q[i + 1] = p[i] /\ i \in Nat
    BY <1>2
  <2>2. ASSUME NEW j \in 1..Len(q), q[j].cmd = "mtu" PROVE j <= i + 1
    <3>1. CASE j = 1
      BY <2>1, <3>1
    <3>2. CASE j # 1
      <4>1. j - 1 \in 1..Len(p) /\ p[j - 1].cmd = "mtu"
        BY <1>4, <1>5, <2>2, <3>2
      <4>2. j - 1 <= i
        BY <1>7, <4>1
      <4> QED
        BY <2>1, <4>2
    <3> QED
      BY <3>1, <3>2
  <2> QED
    BY <1>7, <2>1, <2>2 DEF MtuOf
<1> QED
  BY <1>2, <1>3, <1>6, <1>7 DEF MtuOf, p

\* What was read is gone.
LEMMA Read ==
  ASSUME NEW b \in Seq(JumboTokens), NEW i \in 1..Len(b)
  PROVE  LET b2 == SubSeq(b, i + 1, Len(b)) IN
         /\ b2 \in Seq(JumboTokens) /\ Len(b2) = Len(b) - i
         /\ \A j \in 1..Len(b2) : j + i \in 1..Len(b) /\ j + i # i /\ b2[j] = b[j + i]
         /\ \A x : NotPrinted(b, x) => NotPrinted(b2, x)
         /\ NoSummary(b) => NoSummary(b2)
<1> DEFINE b2 == SubSeq(b, i + 1, Len(b))
<1>1. Len(b) \in Nat /\ i \in Nat
  OBVIOUS
<1>2. /\ b2 \in Seq(JumboTokens) /\ Len(b2) = Len(b) - i
      /\ \A j \in 1..Len(b2) : j + i \in 1..Len(b) /\ b2[j] = b[j + i]
  BY <1>1
<1> HIDE DEF b2
<1>3. \A j \in 1..Len(b2) : j + i # i
  BY <1>1, <1>2
<1>4. /\ \A x : NotPrinted(b, x) => NotPrinted(b2, x)
      /\ NoSummary(b) => NoSummary(b2)
  BY <1>2, Zenon DEF NotPrinted, NoSummary
<1> QED
  BY <1>2, <1>3, <1>4 DEF b2

\* Something is printed.
LEMMA Printed ==
  ASSUME NEW b \in Seq(JumboTokens), NEW t \in JumboTokens
  PROVE  LET b2 == Append(b, t) IN
         /\ b2 \in Seq(JumboTokens) /\ Len(b2) = Len(b) + 1 /\ b2[Len(b) + 1] = t
         /\ \A j \in 1..Len(b) : b2[j] = b[j]
         /\ \A x : NotPrinted(b, x) /\ t.text # x => NotPrinted(b2, x)
         /\ NoSummary(b) /\ ~Summary(t) => NoSummary(b2)
<1> DEFINE b2 == Append(b, t)
<1>1. /\ b2 \in Seq(JumboTokens) /\ Len(b2) = Len(b) + 1 /\ Len(b) \in Nat
      /\ \A j \in 1..Len(b) : b2[j] = b[j]
      /\ b2[Len(b) + 1] = t
  BY AppendProperties
<1> HIDE DEF b2
<1>2. \A j \in 1..Len(b2) : j \in 1..Len(b) \/ j = Len(b) + 1
  BY <1>1
<1>3. \A x : NotPrinted(b, x) /\ t.text # x => NotPrinted(b2, x)
  BY <1>1, <1>2 DEF NotPrinted
<1>4. NoSummary(b) /\ ~Summary(t) => NoSummary(b2)
  BY <1>1, <1>2 DEF NoSummary
<1> QED
  BY <1>1, <1>3, <1>4 DEF b2

\* The prompts are no answers.
LEMMA Prompts ==
  /\ Prompt \in JumboTokens /\ LoginPrompt \in JumboTokens
  /\ Prompt.text = "prompt" /\ LoginPrompt.text = "login:"
  /\ ~Summary(Prompt) /\ ~Summary(LoginPrompt)
BY DEF Prompt, LoginPrompt, Token, JumboTokens, Summary

\* What is known wherever the script is.
LEMMA JumboNow ==
  ASSUME JumboInv
  PROVE  /\ k \in Nat /\ k >= 1 /\ k \in 1..Len(JumboCode) /\ Len(JumboCode) \in Nat
         /\ Test = "jumbo" /\ Prompt30 = TRUE
         /\ JumboPos /\ inq \in Seq(JumboLines) /\ buf \in Seq(JumboTokens)
         /\ Do = JumboCode[k].do
         /\ JumboCode[k].do \in JumboDos \cup {"connect", "exit"}
         /\ k = 1 <=> JumboCode[k].do = "connect"
         /\ JumboCode[k].do # "exit" => k + 1 \in 1..Len(JumboCode)
<1>1. /\ Test = "jumbo" /\ Prompt30 = TRUE
      /\ JumboPos /\ k \in 1..Len(JumboCode) /\ Len(JumboCode) \in Nat
  BY JumboCodeIs DEF JumboInv, JumboPos
<1>2. Do = JumboCode[k].do
  BY DEF Do, JumboCode
<1>3. /\ JumboCode[k].do \in JumboDos \cup {"connect", "exit"}
      /\ k = 1 <=> JumboCode[k].do = "connect"
  <2>1. CASE k = 1
    BY <1>1, <2>1, JumboCodeIs
  <2>2. CASE k = Len(JumboCode)
    BY <1>1, <2>2, JumboCodeIs
  <2>3. CASE k # 1 /\ k # Len(JumboCode)
    <3>1. k \in 2..(Len(JumboCode) - 1)
      BY <1>1, <2>3
    <3>2. JumboCode[k].do \in JumboDos
      BY <1>1, <3>1, JumboCodeIs
    <3> QED
      BY <2>3, <3>2 DEF JumboDos
  <2> QED
    BY <2>1, <2>2, <2>3
<1>4. JumboCode[k].do # "exit" => k + 1 \in 1..Len(JumboCode)
  <2>1. JumboCode[k].do # "exit" => k # Len(JumboCode)
    BY <1>1, JumboCodeIs
  <2> QED
    BY <1>1, <2>1
<1> QED
  BY <1>1, <1>2, <1>3, <1>4 DEF JumboPos

\* The script goes on to the next place, perhaps after reading a prompt.
LEMMA JumboGo ==
  ASSUME JumboInv, k' = k + 1, stage' = "start", UNCHANGED <<inq, shell, rr, heard, set>>,
         buf' = buf \/ \E i \in 1..Len(buf) : buf' = SubSeq(buf, i + 1, Len(buf)),
         \/ stage = "await"
         \/ stage = "start" /\ JumboCode[k].do \in {"remVlanHost", "addVlanHost", "reply", "silence"},
         JumboCode[k].do = "silence" => rr = 0,
         k = 1 => shell = "shell" /\ NotPrinted(buf', "login:")
  PROVE  JumboInv'
<1> DEFINE do == JumboCode[k].do
<1>1. /\ k \in Nat /\ k >= 1 /\ k \in 1..Len(JumboCode) /\ Len(JumboCode) \in Nat
      /\ JumboPos /\ inq \in Seq(JumboLines) /\ buf \in Seq(JumboTokens)
      /\ do # "exit" => k + 1 \in 1..Len(JumboCode)
  BY JumboNow
<1>2. stage = "await" => do \in TypedDos \cup PingDos \cup {"connect"}
  BY <1>1 DEF JumboPos
<1>3. do # "exit" /\ stage \in {"start", "await"}
  BY <1>2 DEF TypedDos, PingDos
<1>4. /\ buf' \in Seq(JumboTokens)
      /\ \A x : NotPrinted(buf, x) => NotPrinted(buf', x)
      /\ NoSummary(buf) => NoSummary(buf')
  <2>1. CASE buf' = buf
    BY <1>1, <2>1
  <2>2. CASE \E i \in 1..Len(buf) : buf' = SubSeq(buf, i + 1, Len(buf))
    <3>1. PICK i \in 1..Len(buf) : buf' = SubSeq(buf, i + 1, Len(buf))
      BY <2>2
    <3>2. buf \in Seq(JumboTokens)
      BY <1>1
    <3> QED
      BY <3>1, <3>2, Read
  <2> QED
    BY <2>1, <2>2, Zenon
<1>5. JumboPos'
  BY <1>1, <1>3, <1>4 DEF JumboPos
<1>6. FirstConnect' /\ LoggedIn'
  BY <1>1, <1>4 DEF JumboInv, FirstConnect, LoggedIn
<1>7. PingInv'
  BY <1>3, <1>4 DEF JumboInv, PingInv
<1>8. MtuInv'
  <2>1. LastMtu(k + 1) = IF do = "mtu" THEN k ELSE LastMtu(k)
    BY <1>1, LastMtuNext, Zenon
  <2>2. do = "mtu" => stage = "await"
    OBVIOUS
  <2>3. MtuOf(inq, set, LastMtu(k + 1))
    BY <2>1, <2>2 DEF JumboInv, MtuInv
  <2> QED
    BY <2>3 DEF MtuInv
<1>9. HeardInv'
  <2>1. k' > 1 /\ k' - 1 = k /\ k' - 2 = k - 1
    BY <1>1
  <2>2. ASSUME do \in PingDos, rr = 0 PROVE Owned(k)
    <3>1. stage = "await"
      BY <2>2 DEF PingDos
    <3> QED
      BY <2>2, <3>1 DEF JumboInv, HeardInv
  <2>3. ASSUME do = "silence" PROVE Owned(k - 1)
    <3>1. k > 2 /\ JumboCode[k - 1].do \in PingDos
      BY <1>1, <2>3, JumboNow, JumboCodeIs
    <3>2. stage = "start"
      BY <1>2, <1>3, <2>3 DEF TypedDos, PingDos
    <3> QED
      BY <1>1, <2>3, <3>1, <3>2 DEF JumboInv, HeardInv
  <2>4. do \in PingDos /\ rr' = 0 => Owned(k - 1)'
    BY <2>1, <2>2 DEF Owned
  <2>5. do = "silence" => Owned(k - 2)'
    BY <2>1, <2>3 DEF Owned
  <2> QED
    BY <2>1, <2>4, <2>5 DEF HeardInv
<1> QED
  BY <1>5, <1>6, <1>7, <1>8, <1>9, Zenon DEF JumboInv

LEMMA JumboHostGo ==
  ASSUME JumboInv, remVlanHost \/ addVlanHost
  PROVE  JumboInv'
<1>1. /\ stage = "start" /\ Do \in {"remVlanHost", "addVlanHost"}
      /\ k' = k + 1 /\ stage' = "start" /\ UNCHANGED <<inq, buf, shell, rr, heard, set>>
  BY Zenon DEF remVlanHost, addVlanHost, Running, Finish,
         console, trgtnet
<1>2. JumboCode[k].do \in {"remVlanHost", "addVlanHost"} /\ k # 1
  BY <1>1, JumboNow
<1> QED
  BY <1>1, <1>2, JumboGo

\* What it does with files is no part of this script.
LEMMA JumboNoFiles ==
  ASSUME JumboInv
  PROVE  /\ ~remHostFiles /\ ~MakeFile /\ ~CopyTo
         /\ ~CopyBack /\ ~Compare
<1>1. Do \notin {"remHostFiles", "dd", "scpto", "scpback", "cmp"}
  BY JumboNow DEF JumboDos
<1> QED
  BY <1>1 DEF remHostFiles, MakeFile, CopyTo, CopyBack,
              Compare, Running

LEMMA JumboUnchanged ==
  ASSUME JumboInv, UNCHANGED <<inq, buf, shell, k, stage, rr, heard, set>>
  PROVE  JumboInv'
<1>1. JumboPos' /\ FirstConnect' /\ LoggedIn'
  BY DEF JumboInv, JumboPos, FirstConnect, LoggedIn
<1>2. PingInv' /\ MtuInv'
  BY DEF JumboInv, PingInv, MtuInv
<1>3. HeardInv'
  BY DEF JumboInv, HeardInv, Owned
<1> QED
  BY <1>1, <1>2, <1>3 DEF JumboInv

LEMMA JumboVerdict ==
  ASSUME JumboInv, Verdict \/ Exit
  PROVE  JumboInv'
<1>1. CASE Exit
  <2>1. UNCHANGED <<inq, buf, shell, k, stage, rr, heard, set>>
    BY <1>1 DEF Exit, console, trgtnet
  <2> QED
    BY <2>1, JumboUnchanged
<1>2. CASE Verdict
  <2>1. /\ stage = "start" /\ Do \in {"reply", "silence"}
        /\ UNCHANGED <<inq, buf, shell, rr, heard, set>>
        /\ \/ UNCHANGED <<k, stage>>
           \/ /\ k' = k + 1 /\ stage' = "start"
              /\ rr = IF Do = "reply" THEN 1 ELSE 0
    BY <1>2 DEF Verdict, Running, Finish, Fail,
                console, trgtnet
  <2>2. JumboCode[k].do \in {"reply", "silence"} /\ k # 1 /\ Do = JumboCode[k].do
    BY <2>1, JumboNow
  <2>3. CASE UNCHANGED <<k, stage>>
    BY <2>1, <2>3, JumboUnchanged
  <2>4. CASE k' = k + 1 /\ stage' = "start" /\ rr = IF Do = "reply" THEN 1 ELSE 0
    BY <2>1, <2>2, <2>4, JumboGo
  <2> QED
    BY <2>1, <2>3, <2>4
<1> QED
  BY <1>1, <1>2

\* A return is a line.
LEMMA Returns ==
  ASSUME NEW c \in TypedDos \cup {"checkHostPing", "return", "root"}, NEW n \in Nat
  PROVE  Line(c, n) \in JumboLines /\ Line(c, n).cmd = c /\ Line(c, n).tag = n
BY DEF Line, JumboLines

LEMMA JumboTrgtPing ==
  ASSUME JumboInv, checkTrgtPing
  PROVE  JumboInv'
<1>1. /\ k \in Nat /\ JumboPos /\ inq \in Seq(JumboLines) /\ buf \in Seq(JumboTokens)
      /\ Do = JumboCode[k].do /\ (k = 1 <=> JumboCode[k].do = "connect")
  BY JumboNow
<1>2. /\ stage = "start" /\ Do = "checkTrgtPing" /\ stage' = "await"
      /\ inq' = Append(inq, Line("return", k)) /\ UNCHANGED <<buf, shell, k, set>>
      /\ rr' = 0 => heard' = k
  BY DEF checkTrgtPing, Running, rcode, trgtnet
<1>3. JumboCode[k].do = "checkTrgtPing" /\ k # 1
  BY <1>1, <1>2
<1>4. Line("return", k) \in JumboLines /\ Line("return", k).cmd = "return"
  BY <1>1, Returns, Zenon
<1>5. /\ inq' \in Seq(JumboLines) /\ (NoneTyped(inq, "checkHostPing") => NoneTyped(inq', "checkHostPing"))
      /\ \A s, m : MtuOf(inq, s, m) => MtuOf(inq', s, m)
  BY <1>1, <1>2, <1>4, Typed
<1>6. JumboPos' /\ FirstConnect' /\ LoggedIn'
  BY <1>1, <1>2, <1>3, <1>5 DEF JumboInv, JumboPos, FirstConnect, LoggedIn, PingDos
<1>7. PingInv'
  BY <1>2, <1>5, Zenon DEF JumboInv, PingInv
<1>8. MtuInv'
  <2>1. MtuOf(inq, set, LastMtu(k))
    BY <1>2 DEF JumboInv, MtuInv
  <2> QED
    BY <1>2, <1>3, <1>5, <2>1 DEF MtuInv
<1>9. HeardInv'
  BY <1>2, <1>3 DEF HeardInv, Owned
<1> QED
  BY <1>6, <1>7, <1>8, <1>9 DEF JumboInv

LEMMA JumboType ==
  ASSUME JumboInv, Type
  PROVE  JumboInv'
<1> DEFINE do == JumboCode[k].do
<1>1. /\ k \in Nat /\ JumboPos /\ inq \in Seq(JumboLines) /\ buf \in Seq(JumboTokens)
      /\ Do = do /\ (k = 1 <=> do = "connect")
  BY JumboNow
<1>2. /\ stage = "start" /\ stage' = "await" /\ do \in TypedDos \cup {"connect"}
      /\ inq' = (IF do = "connect" THEN inq ELSE Append(inq, Line(do, k))) \o <<Line("return", k)>>
      /\ UNCHANGED <<buf, shell, k, set>>
  BY <1>1 DEF Type, Running, Silent, TypedDos,
     trgtnet
<1> DEFINE r == Line("return", k)
           q == IF do = "connect" THEN inq ELSE Append(inq, Line(do, k))
<1>3. r \in JumboLines /\ r.cmd = "return"
  BY <1>1, Returns, Zenon
<1>4. do # "connect" => Line(do, k) \in JumboLines /\ Line(do, k).cmd = do /\ Line(do, k).tag = k
  BY <1>1, <1>2, Returns
<1>5. MtuOf(inq, set, LastMtu(k)) /\ NoneTyped(inq, "checkHostPing") /\ NoSummary(buf)
  BY <1>2 DEF JumboInv, MtuInv, PingInv
<1>6. /\ q \in Seq(JumboLines) /\ NoneTyped(q, "checkHostPing")
      /\ MtuOf(q, set, IF do = "mtu" THEN k ELSE LastMtu(k))
  <2>1. CASE do = "connect"
    BY <1>1, <1>5, <2>1
  <2>2. CASE do # "connect"
    <3>1. do # "checkHostPing" /\ q = Append(inq, Line(do, k))
      BY <1>2, <2>2 DEF TypedDos
    <3> QED
      BY <1>1, <1>4, <1>5, <2>2, <3>1, Typed
  <2> QED
    BY <2>1, <2>2
<1>7. inq' = Append(q, r)
  <2> HIDE DEF q, r
  <2>1. q \o <<r>> = Append(q, r)
    BY <1>3, <1>6
  <2> QED
    BY <1>2, <2>1 DEF q, r
<1> HIDE DEF q
<1>8. /\ inq' \in Seq(JumboLines) /\ NoneTyped(inq', "checkHostPing")
      /\ MtuOf(inq', set, IF do = "mtu" THEN k ELSE LastMtu(k))
  BY <1>3, <1>6, <1>7, Typed
<1>9. FirstConnect'
  <2>1. CASE k = 1
    <3>1. inq = <<>> /\ buf = <<>> /\ do = "connect"
      BY <1>1, <1>2, <2>1 DEF JumboInv, FirstConnect
    <3>2. inq' = <<Line("return", 1)>>
      BY <1>2, <2>1, <3>1
    <3> QED
      BY <1>2, <3>1, <3>2 DEF FirstConnect
  <2>2. CASE k # 1
    BY <1>2, <2>2 DEF FirstConnect
  <2> QED
    BY <2>1, <2>2
<1>10. JumboPos' /\ LoggedIn' /\ PingInv' /\ MtuInv'
  BY <1>1, <1>2, <1>5, <1>8, Zenon DEF JumboInv, JumboPos, LoggedIn, PingInv, MtuInv
<1>11. HeardInv'
  <2>1. do \notin PingDos
    BY <1>2 DEF TypedDos, PingDos
  <2> QED
    BY <1>2, <2>1 DEF HeardInv
<1> QED
  BY <1>9, <1>10, <1>11 DEF JumboInv

LEMMA JumboSend ==
  ASSUME JumboInv, Send
  PROVE  JumboInv'
<1>1. /\ k \in Nat /\ JumboPos /\ inq \in Seq(JumboLines) /\ buf \in Seq(JumboTokens)
      /\ Do = JumboCode[k].do /\ (k = 1 <=> JumboCode[k].do = "connect")
      /\ JumboCode[k].do \in JumboDos \cup {"connect", "exit"}
  BY JumboNow
<1>2. /\ stage = "start" /\ stage' = "expect" /\ JumboCode[k].do \in {"checkHostPing", "remTrgtFile"}
      /\ inq' = Append(inq, Line(JumboCode[k].do, k)) /\ UNCHANGED <<buf, shell, k, set>>
  BY <1>1 DEF Send, Running, Asked, trgtnet
<1>3. JumboCode[k].do = "checkHostPing" /\ k # 1
  BY <1>1, <1>2 DEF JumboDos
<1> DEFINE l == Line("checkHostPing", k)
<1>4. l \in JumboLines /\ l.cmd = "checkHostPing"
  BY <1>1, Returns, Zenon
<1>5. MtuOf(inq, set, LastMtu(k)) /\ NoneTyped(inq, "checkHostPing") /\ NoSummary(buf)
  BY <1>2 DEF JumboInv, MtuInv, PingInv
<1>6. /\ inq' \in Seq(JumboLines) /\ Len(inq') = Len(inq) + 1 /\ inq'[Len(inq) + 1] = l
      /\ \A i \in 1..Len(inq) : inq'[i] = inq[i]
      /\ MtuOf(inq', set, LastMtu(k))
  BY <1>1, <1>2, <1>3, <1>4, <1>5, Typed
<1>7. PingInv'
  <2>1. Len(inq) \in Nat /\ inq' # <<>> /\ Len(inq') - 1 = Len(inq)
    BY <1>1, <1>6
  <2>2. \A i \in 1..(Len(inq') - 1) : inq'[i].cmd # "checkHostPing"
    BY <1>5, <1>6, <2>1 DEF NoneTyped
  <2>3. inq'[Len(inq')] = Line("checkHostPing", k')
    BY <1>2, <1>6
  <2>4. NoSummary(buf')
    BY <1>2, <1>5
  <2> QED
    BY <1>2, <2>1, <2>2, <2>3, <2>4 DEF PingInv
<1>8. JumboPos' /\ FirstConnect' /\ LoggedIn' /\ MtuInv'
  BY <1>1, <1>2, <1>3, <1>6 DEF JumboInv, JumboPos, FirstConnect, LoggedIn, MtuInv
<1>9. HeardInv'
  BY <1>2 DEF HeardInv
<1> QED
  BY <1>7, <1>8, <1>9 DEF JumboInv

\* Where it asks the board for a ping.
LEMMA JumboExpects ==
  ASSUME JumboInv, stage = "expect"
  PROVE  /\ Do = "checkHostPing" /\ k # 1 /\ JumboCode[k].do = "checkHostPing"
         /\ Patterns = << {<<"ping", 0>>}, {<<"ping", 2>>} >>
         /\ MtuOf(inq, set, LastMtu(k))
         /\ \/ inq # <<>> /\ NoSummary(buf)
            \/ /\ inq = <<>>
               /\ \A j \in 1..Len(buf) : Summary(buf[j]) => buf[j].tag = k
               /\ \A i, j \in 1..Len(buf) : Summary(buf[i]) /\ Summary(buf[j]) => i = j
<1>1. Do = "checkHostPing" /\ k # 1 /\ JumboCode[k].do = "checkHostPing"
  BY JumboNow DEF JumboPos
<1>2. Patterns = << {<<"ping", 0>>}, {<<"ping", 2>>} >>
  BY <1>1 DEF Patterns
<1>3. MtuOf(inq, set, LastMtu(k))
  BY DEF JumboInv, MtuInv
<1> QED
  BY <1>1, <1>2, <1>3, Zenon DEF JumboInv, PingInv

LEMMA JumboExpectMatch ==
  ASSUME JumboInv, ExpectMatch
  PROVE  JumboInv'
<1> DEFINE pats == Patterns
           i == FirstHit(FirstMatching(pats), pats)
<1>1. /\ k \in Nat /\ JumboPos /\ inq \in Seq(JumboLines) /\ buf \in Seq(JumboTokens)
  BY JumboNow
<1>2. stage = "expect"
  BY DEF ExpectMatch, Running
<1>3. Do = "checkHostPing" /\ k # 1 /\ JumboCode[k].do = "checkHostPing"
  BY <1>2, JumboExpects
<1>4. /\ stage' = "await" /\ Matching(pats) # {} /\ heard' = buf[i].tag
      /\ buf' = SubSeq(buf, i + 1, Len(buf))
      /\ inq' = Append(inq, Line("return", k)) /\ UNCHANGED <<shell, k, set>>
  BY <1>3 DEF ExpectMatch, Dropped, trgtnet
<1>5. i \in 1..Len(buf) /\ Summary(buf[i])
  <2>1. pats = << {<<"ping", 0>>}, {<<"ping", 2>>} >>
    BY <1>2, JumboExpects
  <2>2. Len(pats) = 2 /\ pats[1] = {<<"ping", 0>>} /\ pats[2] = {<<"ping", 2>>}
    BY <2>1
  <2> HIDE DEF pats
  <2> DEFINE p == FirstMatching(pats)
  <2>3. p \in 1..Len(pats) /\ Hits(pats[p]) # {}
    <3>1. Len(pats) \in Nat /\ Matching(pats) # {}
      BY <1>4, <2>2
    <3> QED
      BY <3>1, FoundFirst
  <2>4. p = 1 \/ p = 2
    BY <2>2, <2>3
  <2> HIDE DEF p
  <2>5. FirstHit(p, pats) \in 1..Len(buf) /\ <<buf[FirstHit(p, pats)].text, buf[FirstHit(p, pats)].val>> \in pats[p]
    BY <2>3, Found, Zenon
  <2>6. pats[p] \subseteq { <<"ping", 0>>, <<"ping", 2>> }
    BY <2>2, <2>4
  <2> QED
    BY <2>5, <2>6 DEF Summary, p
<1> HIDE DEF i, pats
<1>6. /\ inq = <<>> /\ buf[i].tag = k
      /\ \A j \in 1..Len(buf) : Summary(buf[j]) => j = i
  BY <1>2, <1>5, JumboExpects DEF NoSummary
<1>7. set = LastMtu(k) /\ MtuOf(inq, set, LastMtu(k)) /\ NoneTyped(inq, "mtu")
      /\ NoneTyped(inq, "checkHostPing")
  <2>1. MtuOf(inq, set, LastMtu(k))
    BY <1>2, JumboExpects
  <2>2. NoneTyped(inq, "mtu") /\ NoneTyped(inq, "checkHostPing")
    BY <1>6 DEF NoneTyped
  <2> QED
    BY <2>1, <2>2 DEF MtuOf
<1>8. /\ inq' \in Seq(JumboLines) /\ NoneTyped(inq', "mtu") /\ NoneTyped(inq', "checkHostPing")
      /\ MtuOf(inq', set, LastMtu(k))
  <2>1. Line("return", k) \in JumboLines /\ Line("return", k).cmd = "return"
    BY <1>1, Returns, Zenon
  <2> QED
    BY <1>1, <1>4, <1>7, <2>1, Typed
<1>9. /\ buf' \in Seq(JumboTokens) /\ NoSummary(buf')
      /\ NotPrinted(buf, "login:") => NotPrinted(buf', "login:")
  <2>1. /\ buf' \in Seq(JumboTokens)
        /\ \A j \in 1..Len(buf') : j + i \in 1..Len(buf) /\ j + i # i /\ buf'[j] = buf[j + i]
        /\ NotPrinted(buf, "login:") => NotPrinted(buf', "login:")
    BY <1>1, <1>4, <1>5, Read, Zenon
  <2> QED
    BY <1>6, <2>1 DEF NoSummary
<1>10. JumboPos' /\ FirstConnect' /\ LoggedIn'
  BY <1>1, <1>3, <1>4, <1>8, <1>9, Zenon DEF JumboInv, JumboPos, FirstConnect, LoggedIn, PingDos
<1>11. PingInv' /\ MtuInv'
  BY <1>3, <1>4, <1>8, <1>9, Zenon DEF PingInv, MtuInv
<1>12. HeardInv'
  BY <1>3, <1>4, <1>6, <1>7, <1>8, Zenon DEF HeardInv, Owned
<1> QED
  BY <1>10, <1>11, <1>12 DEF JumboInv

LEMMA JumboExpectTimeout ==
  ASSUME JumboInv, ExpectTimeout
  PROVE  JumboInv'
<1> DEFINE pats == Patterns
<1>1. /\ k \in Nat /\ JumboPos /\ inq \in Seq(JumboLines) /\ buf \in Seq(JumboTokens)
  BY JumboNow
<1>2. stage = "expect"
  BY DEF ExpectTimeout, Running
<1>3. Do = "checkHostPing" /\ k # 1 /\ JumboCode[k].do = "checkHostPing"
  BY <1>2, JumboExpects
<1>4. /\ stage' = "await" /\ Matching(pats) = {} /\ inq = <<>> /\ rr' = 1
      /\ inq' = Append(inq, Line("return", k)) /\ UNCHANGED <<buf, shell, k, set>>
  BY <1>3, JumboNow DEF ExpectTimeout, TimesOut, trgtnet
<1>5. NoSummary(buf)
  <2>1. pats = << {<<"ping", 0>>}, {<<"ping", 2>>} >>
    BY <1>2, JumboExpects
  <2>2. 1 \in 1..Len(pats) /\ 2 \in 1..Len(pats) /\ pats[1] = {<<"ping", 0>>} /\ pats[2] = {<<"ping", 2>>}
    BY <2>1
  <2> HIDE DEF pats
  <2>3. Hits(pats[1]) = {} /\ Hits(pats[2]) = {}
    BY <1>4, <2>2, Zenon DEF Matching
  <2> QED
    BY <2>2, <2>3 DEF NoSummary, Summary, Hits
<1>6. MtuOf(inq, set, LastMtu(k)) /\ NoneTyped(inq, "checkHostPing")
  <2>1. MtuOf(inq, set, LastMtu(k))
    BY <1>2, JumboExpects, Zenon
  <2>2. Len(inq) = 0
    BY <1>4
  <2>3. NoneTyped(inq, "checkHostPing")
    BY <2>2 DEF NoneTyped
  <2> QED
    BY <2>1, <2>3
<1>7. /\ inq' \in Seq(JumboLines) /\ NoneTyped(inq', "checkHostPing")
      /\ MtuOf(inq', set, LastMtu(k))
  <2>1. Line("return", k) \in JumboLines /\ Line("return", k).cmd = "return"
    BY <1>1, Returns, Zenon
  <2> QED
    BY <1>1, <1>4, <1>6, <2>1, Typed, Zenon
<1>8. JumboPos' /\ FirstConnect' /\ LoggedIn'
  BY <1>1, <1>3, <1>4, <1>7 DEF JumboInv, JumboPos, FirstConnect, LoggedIn, PingDos
<1>9. /\ stage' = "await" /\ rr' = 1 /\ k' = k /\ set' = set /\ buf' = buf
      /\ JumboCode[k].do # "mtu"
  BY <1>3, <1>4
<1>10. PingInv' /\ MtuInv' /\ HeardInv'
  <2>1. PingInv'
    BY <1>5, <1>7, <1>9 DEF PingInv
  <2>2. MtuInv'
    BY <1>7, <1>9 DEF MtuInv
  <2>3. HeardInv'
    BY <1>9 DEF HeardInv
  <2> QED
    BY <2>1, <2>2, <2>3
<1> QED
  BY <1>8, <1>10 DEF JumboInv

\* What it waits for after a return.
LEMMA JumboAwaits ==
  /\ ConnectPatterns[1] = {<<"login:", 0>>} /\ ConnectPatterns[2] = {<<"prompt", 0>>}
  /\ Len(ConnectPatterns) = 2
  /\ 1 \in 1..Len(ConnectPatterns) /\ 2 \in 1..Len(ConnectPatterns)
BY DEF ConnectPatterns, LoginPattern, PromptPattern

LEMMA JumboConnectLogin ==
  ASSUME JumboInv, ConnectLogin
  PROVE  JumboInv'
<1> DEFINE pats == ConnectPatterns
           i == FirstHit(1, pats)
<1>1. /\ stage = "await" /\ Matching(pats) # {} /\ FirstMatching(pats) = 1
      /\ buf' = SubSeq(buf, i + 1, Len(buf))
      /\ inq' = inq \o <<Line("root", k), Line("return", k)>>
      /\ UNCHANGED <<shell, k, stage, rr, heard, set>>
  BY DEF ConnectLogin, Waiting, Dropped,
     script, trgtnet
<1>2. i \in 1..Len(buf) /\ buf[i].text = "login:"
  <2>1. Len(pats) \in Nat /\ 1 \in 1..Len(pats) /\ pats[1] = {<<"login:", 0>>}
    BY JumboAwaits
  <2> HIDE DEF pats
  <2>2. Hits(pats[1]) # {}
    BY <1>1, <2>1, FoundFirst, Zenon
  <2>3. FirstHit(1, pats) \in 1..Len(buf) /\ <<buf[FirstHit(1, pats)].text, buf[FirstHit(1, pats)].val>> \in pats[1]
    BY <2>1, <2>2, Found, Zenon
  <2> QED
    BY <2>1, <2>3
<1> HIDE DEF pats, i
<1>3. k = 1
  <2>1. k \in Nat /\ k >= 1
    BY JumboNow
  <2> QED
    BY <1>2, <2>1 DEF JumboInv, LoggedIn, NotPrinted
<1>4. inq = <<>> /\ buf = <<LoginPrompt>> /\ shell = "login"
  <2>1. Prompt.text # "login:"
    BY Prompts
  <2>2. \/ buf = <<>> \/ buf = <<Prompt>> \/ buf = <<Prompt, Prompt>>
        \/ (inq = <<>> /\ buf = <<LoginPrompt>> /\ shell = "login")
    BY <1>1, <1>3 DEF JumboInv, FirstConnect
  <2>3. buf # <<>> /\ buf # <<Prompt>> /\ buf # <<Prompt, Prompt>>
    BY <1>2, <2>1
  <2> QED
    BY <2>2, <2>3
<1>5. inq' = <<Line("root", 1), Line("return", 1)>> /\ buf' = <<>>
  <2>1. Len(buf) = 1 /\ i = 1
    BY <1>2, <1>4
  <2>2. SubSeq(buf, 2, 1) = <<>>
    BY <1>4, SubSeqEmpty DEF LoginPrompt
  <2> QED
    BY <1>1, <1>3, <1>4, <2>1, <2>2
<1>6. /\ inq' \in Seq(JumboLines) /\ NoneTyped(inq', "checkHostPing") /\ NoneTyped(inq', "mtu")
      /\ buf' \in Seq(JumboTokens) /\ NoSummary(buf')
  <2>1. /\ Line("root", 1) \in JumboLines /\ Line("return", 1) \in JumboLines
        /\ Line("root", 1).cmd = "root" /\ Line("return", 1).cmd = "return"
    BY Returns
  <2>2. inq' \in Seq(JumboLines)
    BY <1>5, <2>1
  <2>3. Len(inq') = 2 /\ inq'[1].cmd = "root" /\ inq'[2].cmd = "return"
    BY <1>5, <2>1
  <2>4. NoneTyped(inq', "checkHostPing") /\ NoneTyped(inq', "mtu")
    BY <2>3 DEF NoneTyped
  <2>5. buf' \in Seq(JumboTokens) /\ NoSummary(buf')
    BY <1>5 DEF NoSummary
  <2> QED
    BY <2>2, <2>4, <2>5
<1>7. JumboPos' /\ LoggedIn'
  <2>1. UNCHANGED <<k, stage, shell>>
    BY <1>1
  <2>2. LoggedIn'
    BY <1>3, <2>1 DEF LoggedIn
  <2>3. JumboPos
    BY DEF JumboInv
  <2>4. JumboPos'
    BY <1>6, <2>1, <2>3 DEF JumboPos
  <2> QED
    BY <2>2, <2>4
<1>8. FirstConnect'
  BY <1>1, <1>3, <1>4, <1>5 DEF FirstConnect
<1>9. PingInv'
  BY <1>1, <1>6 DEF PingInv
<1>10. JumboCode[1].do = "connect"
  BY JumboNow, JumboCodeIs
<1>11. MtuInv'
  <2>1. MtuOf(inq, set, LastMtu(k))
    BY <1>1, <1>3, <1>10 DEF JumboInv, MtuInv
  <2>2. set = LastMtu(k)
    BY <1>4, <2>1 DEF MtuOf, NoneTyped
  <2>3. MtuOf(inq', set, LastMtu(k))
    BY <1>6, <2>2 DEF MtuOf, NoneTyped
  <2> QED
    BY <1>1, <1>3, <1>10, <2>3 DEF MtuInv
<1>12. HeardInv'
  BY <1>1, <1>3, <1>10 DEF HeardInv, PingDos
<1> QED
  BY <1>7, <1>8, <1>9, <1>11, <1>12 DEF JumboInv

LEMMA JumboConnectPrompt ==
  ASSUME JumboInv, ConnectPrompt
  PROVE  JumboInv'
<1> DEFINE pats == ConnectPatterns
           i == FirstHit(2, pats)
<1>1. /\ stage = "await" /\ Matching(pats) # {} /\ FirstMatching(pats) = 2
      /\ buf' = SubSeq(buf, i + 1, Len(buf))
      /\ k' = k + 1 /\ stage' = "start"
      /\ UNCHANGED <<inq, shell, rr, heard, set>>
  BY DEF ConnectPrompt, Waiting, Dropped,
     Finish, trgtnet
<1>2. i \in 1..Len(buf) /\ buf[i].text = "prompt"
  <2>1. Len(pats) \in Nat /\ 2 \in 1..Len(pats) /\ pats[2] = {<<"prompt", 0>>}
    BY JumboAwaits
  <2> HIDE DEF pats
  <2>2. Hits(pats[2]) # {}
    BY <1>1, <2>1, FoundFirst, Zenon
  <2>3. FirstHit(2, pats) \in 1..Len(buf) /\ <<buf[FirstHit(2, pats)].text, buf[FirstHit(2, pats)].val>> \in pats[2]
    BY <2>1, <2>2, Found, Zenon
  <2> QED
    BY <2>1, <2>3
<1> HIDE DEF pats, i
<1>3. ASSUME k = 1 PROVE shell = "shell" /\ NotPrinted(buf', "login:")
  <2>1. Prompt.text = "prompt" /\ LoginPrompt.text = "login:"
    BY Prompts
  <2>2. buf # <<>> /\ buf # <<LoginPrompt>>
    BY <1>2, <2>1
  <2>3. (buf = <<Prompt>> \/ buf = <<Prompt, Prompt>>) /\ shell = "shell"
    BY <1>1, <1>3, <2>2 DEF JumboInv, FirstConnect
  <2>4. \A j \in 1..Len(buf) : buf[j] = Prompt
    BY <2>3
  <2>5. NotPrinted(buf, "login:")
    BY <2>1, <2>4 DEF NotPrinted
  <2>6. buf \in Seq(JumboTokens)
    BY JumboNow
  <2> QED
    BY <1>1, <1>2, <2>3, <2>5, <2>6, Read
<1>4. JumboCode[k].do # "silence"
  BY <1>1, JumboNow DEF JumboPos, TypedDos, PingDos
<1> QED
  BY <1>1, <1>2, <1>3, <1>4, JumboGo

LEMMA JumboConnectTimeout ==
  ASSUME JumboInv, ConnectTimeout
  PROVE  JumboInv'
<1> DEFINE pats == ConnectPatterns
<1>1. /\ stage = "await" /\ Matching(pats) = {} /\ inq = <<>>
      /\ k' = k + 1 /\ stage' = "start"
      /\ UNCHANGED <<inq, buf, shell, rr, heard, set>>
  BY JumboNow DEF ConnectTimeout, Waiting, TimesOut,
     Finish, trgtnet, console
<1>2. k # 1
  <2> SUFFICES ASSUME k = 1 PROVE FALSE
    OBVIOUS
  <2>1. /\ 1 \in 1..Len(pats) /\ 2 \in 1..Len(pats)
        /\ pats[1] = {<<"login:", 0>>} /\ pats[2] = {<<"prompt", 0>>}
    BY JumboAwaits
  <2> HIDE DEF pats
  <2>2. Hits(pats[1]) = {} /\ Hits(pats[2]) = {}
    BY <1>1, <2>1, Zenon DEF Matching
  <2>3. buf = <<LoginPrompt>> \/ buf = <<Prompt, Prompt>> \/ buf = <<Prompt>>
    BY <1>1 DEF JumboInv, FirstConnect
  <2>4. 1 \in 1..Len(buf) /\ (buf[1] = LoginPrompt \/ buf[1] = Prompt)
    BY <2>3
  <2>5. <<buf[1].text, buf[1].val>> \in {<<"login:", 0>>, <<"prompt", 0>>}
    BY <2>4 DEF LoginPrompt, Prompt, Token
  <2> QED
    BY <2>1, <2>2, <2>4, <2>5 DEF Hits
<1>3. JumboCode[k].do # "silence"
  BY <1>1, JumboNow DEF JumboPos, TypedDos, PingDos
<1> QED
  BY <1>1, <1>2, <1>3, JumboGo

\* Something is printed twice.
LEMMA Twice ==
  ASSUME NEW x \in JumboTokens
  PROVE  Append(<<x>>, x) = <<x, x>>
<1> DEFINE a == <<x>>  b == Append(a, x)  c == <<x, x>>
<1>1. a \in Seq(JumboTokens) /\ Len(a) = 1 /\ a[1] = x
  OBVIOUS
<1>2. c \in Seq(JumboTokens) /\ Len(c) = 2 /\ c[1] = x /\ c[2] = x
  OBVIOUS
<1> HIDE DEF a, c
<1>3. b \in Seq(JumboTokens) /\ Len(b) = 2 /\ b[1] = x /\ b[2] = x
  <2>1. b \in Seq(JumboTokens) /\ Len(b) = Len(a) + 1 /\ b[Len(a) + 1] = x
        /\ (\A i \in 1..Len(a) : b[i] = a[i])
    BY <1>1, Printed
  <2> QED
    BY <1>1, <2>1
<1> HIDE DEF b
<1>4. \A i \in 1..Len(b) : b[i] = c[i]
  BY <1>2, <1>3
<1>5. b = c
  BY <1>2, <1>3, <1>4, SeqEqual
<1> QED
  BY <1>5 DEF a, b, c

\* The board executes a line, as far as the properties see it.
LEMMA JumboBoard ==
  ASSUME JumboInv, BoardRun
  PROVE  LET line == Head(inq) IN
         /\ inq # <<>> /\ inq' = Tail(inq) /\ UNCHANGED <<k, stage, rr, heard>>
         /\ set' = IF line.cmd = "mtu" /\ shell = "shell" THEN line.tag ELSE set
         /\ shell = "login" => IF line.cmd = "root" THEN shell' = "shell" /\ buf' = Append(buf, Prompt)
                               ELSE shell' = shell /\ buf' = Append(buf, LoginPrompt)
         /\ shell = "shell" =>
              /\ shell' = shell
              /\ \/ buf' = Append(buf, Prompt)
                 \/ /\ line.cmd = "checkHostPing"
                    /\ \E loss \in {0, 1, 2} :
                         buf' = Append(Append(buf, Token("ping", loss, line.tag)), Prompt)
<1> DEFINE line == Head(inq)
<1>1. buf \in Seq(JumboTokens)
  BY JumboNow
<1>2. inq # <<>> /\ UNCHANGED <<k, stage, rr, heard>> /\ Effect(line)
  BY DEF BoardRun, script
<1>3. set' = IF line.cmd = "mtu" /\ shell = "shell" THEN line.tag ELSE set
  BY <1>2 DEF Effect
<1>4. \/ BoardExec(<<>>)
      \/ /\ line.cmd = "checkHostPing"
         /\ \E loss \in {0, 1, 2} : BoardExec(<<Token("ping", loss, line.tag)>>)
  <2>1. \A size, mtu : Summaries(size, mtu) \subseteq {0, 1, 2, 3}
    BY DEF Summaries
  <2>2. CASE line.cmd # "checkHostPing"
    BY <2>2 DEF BoardRun
  <2>3. CASE line.cmd = "checkHostPing"
    <3>1. PICK loss \in Summaries(Code[line.tag].n, trgtmtu) :
            BoardExec(IF loss = 3 THEN <<>> ELSE <<Token("ping", loss, line.tag)>>)
      BY <2>3 DEF BoardRun
    <3>2. loss = 3 \/ loss \in {0, 1, 2}
      BY <2>1, <3>1
    <3>3. CASE loss = 3
      BY <3>1, <3>3
    <3>4. CASE loss \in {0, 1, 2}
      BY <2>3, <3>1, <3>4
    <3> QED
      BY <3>2, <3>3, <3>4
  <2> QED
    BY <2>2, <2>3
<1>5. CASE BoardExec(<<>>)
  <2>1. buf \o <<>> = buf
    BY <1>1
  <2> QED
    BY <1>2, <1>3, <1>5, <2>1 DEF BoardExec
<1>6. ASSUME line.cmd = "checkHostPing", NEW loss \in {0, 1, 2},
             BoardExec(<<Token("ping", loss, line.tag)>>)
      PROVE  /\ inq' = Tail(inq)
             /\ shell = "login" => shell' = shell /\ buf' = Append(buf, LoginPrompt)
             /\ shell = "shell" =>
                  shell' = shell /\ buf' = Append(Append(buf, Token("ping", loss, line.tag)), Prompt)
  <2> DEFINE t == Token("ping", loss, line.tag)
  <2>1. buf \o <<t>> = Append(buf, t)
    BY <1>1
  <2> HIDE DEF t
  <2>2. BoardExec(<<t>>)
    BY <1>6 DEF t
  <2>3. /\ inq' = Tail(inq)
        /\ shell = "login" => shell' = shell /\ buf' = Append(buf, LoginPrompt)
        /\ shell = "shell" => shell' = shell /\ buf' = Append(Append(buf, t), Prompt)
    BY <1>6, <2>1, <2>2 DEF BoardExec
  <2> QED
    BY <2>3 DEF t
<1>7. CASE /\ line.cmd = "checkHostPing"
           /\ \E loss \in {0, 1, 2} : BoardExec(<<Token("ping", loss, line.tag)>>)
  <2>1. PICK loss \in {0, 1, 2} : BoardExec(<<Token("ping", loss, line.tag)>>)
    BY <1>7
  <2> QED
    BY <1>2, <1>3, <1>6, <1>7, <2>1, Zenon
<1> QED
  BY <1>4, <1>5, <1>7, Zenon

\* What is executed is read from the front of the queue.
LEMMA JumboQueue ==
  ASSUME JumboInv, inq # <<>>
  PROVE  /\ Len(inq) \in Nat /\ Len(inq) >= 1 /\ Head(inq) = inq[1] /\ Head(inq) \in JumboLines
         /\ Head(inq).tag \in Nat
<1>1. inq \in Seq(JumboLines)
  BY JumboNow
<1>2. Len(inq) \in Nat /\ Len(inq) >= 1 /\ Head(inq) = inq[1] /\ Head(inq) \in JumboLines
  BY <1>1
<1> QED
  BY <1>2 DEF JumboLines

LEMMA JumboBoardFirst ==
  ASSUME JumboInv, BoardRun, k = 1
  PROVE  JumboInv'
<1> DEFINE line == Head(inq)
<1>1. /\ k \in Nat /\ JumboPos /\ inq \in Seq(JumboLines) /\ buf \in Seq(JumboTokens)
  BY JumboNow
<1>2. /\ inq # <<>> /\ inq' = Tail(inq) /\ UNCHANGED <<k, stage, rr, heard>>
      /\ set' = IF line.cmd = "mtu" /\ shell = "shell" THEN line.tag ELSE set
      /\ shell = "login" => IF line.cmd = "root" THEN shell' = "shell" /\ buf' = Append(buf, Prompt)
                            ELSE shell' = shell /\ buf' = Append(buf, LoginPrompt)
      /\ shell = "shell" =>
           shell' = shell /\ (line.cmd # "checkHostPing" => buf' = Append(buf, Prompt))
  BY JumboBoard
<1>3. shell \in {"login", "shell"} /\ stage = "await" /\ JumboCode[k].do = "connect"
  BY <1>1, <1>2, JumboNow, JumboCodeIs, Zenon DEF JumboInv, JumboPos, FirstConnect
<1>4. /\ Line("root", 1).cmd = "root" /\ Line("return", 1).cmd = "return"
  BY Returns
<1>5. \/ inq = <<Line("return", 1)>> /\ buf = <<>>
      \/ inq = <<Line("root", 1), Line("return", 1)>> /\ buf = <<>> /\ shell = "login"
      \/ inq = <<Line("return", 1)>> /\ buf = <<Prompt>> /\ shell = "shell"
  BY <1>2 DEF JumboInv, FirstConnect
<1>6. line.cmd \in {"root", "return"}
  BY <1>4, <1>5
<1>7. \/ inq' = <<>> /\ buf' = <<LoginPrompt>> /\ shell' = "login"
      \/ inq' = <<Line("return", 1)>> /\ buf' = <<Prompt>> /\ shell' = "shell"
      \/ inq' = <<>> /\ buf' = <<Prompt, Prompt>> /\ shell' = "shell"
      \/ inq' = <<>> /\ buf' = <<Prompt>> /\ shell' = "shell"
  <2>1. CASE inq = <<Line("return", 1)>> /\ buf = <<>>
    <3>1. inq' = <<>> /\ line.cmd = "return"
      BY <1>2, <1>4, <2>1
    <3>2. Append(buf, Prompt) = <<Prompt>> /\ Append(buf, LoginPrompt) = <<LoginPrompt>>
      BY <2>1
    <3> QED
      BY <1>2, <1>3, <3>1, <3>2, Zenon
  <2>2. CASE inq = <<Line("root", 1), Line("return", 1)>> /\ buf = <<>> /\ shell = "login"
    <3>1. inq' = <<Line("return", 1)>> /\ line.cmd = "root"
      BY <1>2, <1>4, <2>2
    <3>2. Append(buf, Prompt) = <<Prompt>>
      BY <2>2
    <3> QED
      BY <1>2, <2>2, <3>1, <3>2
  <2>3. CASE inq = <<Line("return", 1)>> /\ buf = <<Prompt>> /\ shell = "shell"
    <3>1. inq' = <<>> /\ line.cmd = "return"
      BY <1>2, <1>4, <2>3
    <3>2. Append(buf, Prompt) = <<Prompt, Prompt>>
      BY <2>3, Prompts, Twice, Zenon
    <3> QED
      BY <1>2, <2>3, <3>1, <3>2
  <2> QED
    BY <1>5, <2>1, <2>2, <2>3
<1>8. FirstConnect'
  BY <1>2, <1>3, <1>7 DEF FirstConnect
<1>9. MtuOf(inq, set, LastMtu(k)) /\ NoneTyped(inq, "checkHostPing") /\ NoSummary(buf)
  BY <1>3, Zenon DEF JumboInv, MtuInv, PingInv
<1>10. /\ inq' \in Seq(JumboLines) /\ NoneTyped(inq', "checkHostPing") /\ MtuOf(inq', set', LastMtu(k))
  <2>1. set' = IF line.cmd = "mtu" THEN line.tag ELSE set
    BY <1>2, <1>6
  <2> QED
    BY <1>1, <1>2, <1>9, <2>1, Executed
<1>11. buf' \in Seq(JumboTokens) /\ NoSummary(buf')
  <2>1. buf' = Append(buf, Prompt) \/ buf' = Append(buf, LoginPrompt)
    BY <1>2, <1>3, <1>6
  <2>2. PICK t \in {Prompt, LoginPrompt} : buf' = Append(buf, t)
    BY <2>1, Zenon
  <2>3. t \in JumboTokens /\ ~Summary(t)
    BY Prompts, Zenon
  <2> QED
    BY <1>1, <1>9, <2>2, <2>3, Printed
<1>12. JumboPos' /\ LoggedIn'
  <2>1. shell' \in {"login", "shell"}
    BY <1>7, Zenon
  <2> QED
    BY <1>1, <1>2, <1>10, <1>11, <2>1 DEF JumboPos, LoggedIn
<1>13. PingInv' /\ MtuInv'
  BY <1>2, <1>3, <1>10, <1>11 DEF PingInv, MtuInv
<1>14. HeardInv'
  BY <1>2, <1>3 DEF HeardInv, PingDos
<1> QED
  BY <1>8, <1>12, <1>13, <1>14 DEF JumboInv

LEMMA JumboBoardPing ==
  ASSUME JumboInv, BoardRun, k > 1
  PROVE  PingInv' /\ LoggedIn' /\ buf' \in Seq(JumboTokens)
<1> DEFINE line == Head(inq)
<1>1. /\ k \in Nat /\ JumboPos /\ inq \in Seq(JumboLines) /\ buf \in Seq(JumboTokens)
  BY JumboNow
<1>2. shell = "shell" /\ NotPrinted(buf, "login:")
  BY DEF JumboInv, LoggedIn
<1>3. /\ inq # <<>> /\ inq' = Tail(inq) /\ UNCHANGED <<k, stage, shell>>
      /\ \/ buf' = Append(buf, Prompt)
         \/ /\ line.cmd = "checkHostPing"
            /\ \E loss \in {0, 1, 2} :
                 buf' = Append(Append(buf, Token("ping", loss, line.tag)), Prompt)
  BY <1>2, JumboBoard
<1>4. /\ Len(inq) \in Nat /\ Len(inq) >= 1 /\ line = inq[1] /\ line.tag \in Nat
  BY <1>3, JumboQueue
<1>5. /\ inq' \in Seq(JumboLines) /\ Len(inq') = Len(inq) - 1
      /\ \A i \in 1..Len(inq') : i + 1 \in 1..Len(inq) /\ inq'[i] = inq[i + 1]
  BY <1>1, <1>3, <1>4
<1>6. ASSUME buf' = Append(buf, Prompt)
      PROVE  /\ buf' \in Seq(JumboTokens) /\ NotPrinted(buf', "login:")
             /\ NoSummary(buf) => NoSummary(buf')
  <2>1. Prompt \in JumboTokens /\ Prompt.text # "login:" /\ ~Summary(Prompt)
    BY Prompts
  <2> QED
    BY <1>1, <1>2, <1>6, <2>1, Printed
<1>7. ASSUME NEW loss \in {0, 1, 2},
             buf' = Append(Append(buf, Token("ping", loss, line.tag)), Prompt)
      PROVE  /\ buf' \in Seq(JumboTokens) /\ NotPrinted(buf', "login:")
             /\ NoSummary(buf) => \A j \in 1..Len(buf') :
                  Summary(buf'[j]) => j = Len(buf) + 1 /\ buf'[j].tag = line.tag
  <2> DEFINE t == Token("ping", loss, line.tag)
             b == Append(buf, t)
  <2>1. t \in JumboTokens /\ t.text = "ping" /\ t.tag = line.tag
    BY <1>4 DEF Token, JumboTokens
  <2> HIDE DEF t
  <2>2. /\ b \in Seq(JumboTokens) /\ Len(b) = Len(buf) + 1 /\ b[Len(buf) + 1] = t
        /\ \A j \in 1..Len(buf) : b[j] = buf[j]
        /\ NotPrinted(b, "login:")
    BY <1>1, <1>2, <2>1, Printed
  <2>3. Prompt \in JumboTokens /\ Prompt.text # "login:" /\ ~Summary(Prompt)
    BY Prompts
  <2>4. buf' = Append(b, Prompt)
    BY <1>7 DEF t
  <2> HIDE DEF b
  <2>5. /\ buf' \in Seq(JumboTokens) /\ Len(buf') = Len(b) + 1 /\ buf'[Len(b) + 1] = Prompt
        /\ \A j \in 1..Len(b) : buf'[j] = b[j]
        /\ NotPrinted(buf', "login:")
    BY <2>2, <2>3, <2>4, Printed
  <2>6. ASSUME NoSummary(buf), NEW j \in 1..Len(buf'), Summary(buf'[j])
        PROVE  j = Len(buf) + 1 /\ buf'[j].tag = line.tag
    <3>1. Len(buf) \in Nat
      BY <1>1
    <3>2. j \in 1..Len(buf) \/ j = Len(buf) + 1 \/ j = Len(b) + 1
      BY <2>2, <2>5, <3>1
    <3>3. j # Len(b) + 1
      BY <2>3, <2>5, <2>6
    <3>4. j \notin 1..Len(buf)
      <4>1. j \in 1..Len(buf) => j \in 1..Len(b) /\ buf'[j] = buf[j]
        BY <2>2, <2>5, <3>1
      <4> QED
        BY <2>6, <4>1 DEF NoSummary
    <3>5. j = Len(buf) + 1 /\ j \in 1..Len(b)
      BY <2>2, <3>1, <3>2, <3>3, <3>4
    <3> QED
      BY <2>1, <2>2, <2>5, <3>5
  <2> QED
    BY <2>5, <2>6
<1>8. buf' \in Seq(JumboTokens) /\ NotPrinted(buf', "login:")
  BY <1>3, <1>6, <1>7
<1>9. LoggedIn'
  BY <1>2, <1>3, <1>8 DEF LoggedIn
<1>10. CASE stage # "expect"
  <2>1. NoneTyped(inq, "checkHostPing") /\ NoSummary(buf)
    BY <1>10 DEF JumboInv, PingInv
  <2>2. line.cmd # "checkHostPing"
    BY <1>4, <2>1 DEF NoneTyped
  <2>3. NoSummary(buf')
    BY <1>3, <1>6, <2>1, <2>2
  <2>4. NoneTyped(inq', "checkHostPing")
    BY <1>5, <2>1, Zenon DEF NoneTyped
  <2>5. PingInv'
    BY <1>3, <1>10, <2>3, <2>4 DEF PingInv
  <2> QED
    BY <1>8, <1>9, <2>5
<1>11. CASE stage = "expect"
  <2>1. /\ inq[Len(inq)] = Line("checkHostPing", k) /\ NoSummary(buf)
        /\ \A i \in 1..(Len(inq) - 1) : inq[i].cmd # "checkHostPing"
    BY <1>3, <1>11 DEF JumboInv, PingInv
  <2>2. CASE Len(inq) = 1
    <3>1. inq' = <<>> /\ line.tag = k
      <4>1. Len(inq') = 0
        BY <1>5, <2>2
      <4>2. inq' = <<>>
        BY <1>5, <4>1
      <4> QED
        BY <1>4, <2>1, <2>2, <4>2 DEF Line
    <3>2. \A j \in 1..Len(buf') : Summary(buf'[j]) => j = Len(buf) + 1 /\ buf'[j].tag = k
      <4>1. CASE buf' = Append(buf, Prompt)
        BY <1>6, <2>1, <4>1 DEF NoSummary
      <4>2. CASE \E loss \in {0, 1, 2} :
                   buf' = Append(Append(buf, Token("ping", loss, line.tag)), Prompt)
        BY <1>7, <2>1, <3>1, <4>2, Zenon
      <4> QED
        BY <1>3, <4>1, <4>2, Zenon
    <3>3. PingInv'
      BY <1>3, <1>11, <3>1, <3>2, Zenon DEF PingInv
    <3> QED
      BY <1>8, <1>9, <3>3
  <2>3. CASE Len(inq) > 1
    <3>1. 1 \in 1..(Len(inq) - 1) /\ Len(inq') \in Nat /\ Len(inq') + 1 = Len(inq)
          /\ Len(inq') \in 1..Len(inq')
      BY <1>4, <1>5, <2>3
    <3>2. line.cmd # "checkHostPing"
      BY <1>4, <2>1, <3>1
    <3>3. NoSummary(buf')
      BY <1>3, <1>6, <2>1, <3>2
    <3>4. inq' # <<>> /\ inq'[Len(inq')] = Line("checkHostPing", k)
      BY <1>5, <2>1, <3>1
    <3>5. \A i \in 1..(Len(inq') - 1) : i \in 1..Len(inq') /\ i + 1 \in 1..(Len(inq) - 1)
      BY <3>1
    <3>6. \A i \in 1..(Len(inq') - 1) : inq'[i].cmd # "checkHostPing"
      BY <1>5, <2>1, <3>5, Zenon
    <3>7. PingInv'
      BY <1>3, <1>11, <3>3, <3>4, <3>6 DEF PingInv
    <3> QED
      BY <1>8, <1>9, <3>7
  <2>4. Len(inq) = 1 \/ Len(inq) > 1
    <3>1. \A m \in Nat : m >= 1 => m = 1 \/ m > 1
      OBVIOUS
    <3>2. Len(inq) \in Nat /\ Len(inq) >= 1
      BY <1>4
    <3> HIDE DEF line
    <3> QED
      BY <3>1, <3>2
  <2> QED
    BY <2>2, <2>3, <2>4, Zenon
<1> QED
  BY <1>10, <1>11

LEMMA JumboBoardRun ==
  ASSUME JumboInv, BoardRun
  PROVE  JumboInv'
<1> DEFINE line == Head(inq)
<1>1. /\ k \in Nat /\ k >= 1 /\ JumboPos /\ inq \in Seq(JumboLines) /\ buf \in Seq(JumboTokens)
  BY JumboNow
<1>2. CASE k = 1
  BY <1>2, JumboBoardFirst
<1>3. CASE k > 1
  <2>1. PingInv' /\ LoggedIn' /\ buf' \in Seq(JumboTokens)
    BY <1>3, JumboBoardPing
  <2>2. shell = "shell"
    BY <1>3 DEF JumboInv, LoggedIn
  <2>3. /\ inq # <<>> /\ inq' = Tail(inq) /\ UNCHANGED <<k, stage, rr, heard, shell>>
        /\ set' = IF line.cmd = "mtu" THEN line.tag ELSE set
    BY <2>2, JumboBoard
  <2> DEFINE m == IF stage = "await" /\ JumboCode[k].do = "mtu" THEN k ELSE LastMtu(k)
  <2>4. MtuOf(inq, set, m)
    BY DEF JumboInv, MtuInv
  <2> HIDE DEF m
  <2>5. /\ inq' \in Seq(JumboLines) /\ MtuOf(inq', set', m)
        /\ NoneTyped(inq, "mtu") => NoneTyped(inq', "mtu")
    BY <1>1, <2>3, <2>4, Executed
  <2>6. MtuInv'
    BY <2>3, <2>5, Zenon DEF MtuInv, m
  <2>7. JumboPos'
    BY <1>1, <2>1, <2>3, <2>5 DEF JumboPos
  <2>8. FirstConnect'
    BY <1>3, <2>3 DEF FirstConnect
  <2>9. HeardInv'
    <3>1. NoneTyped(inq, "mtu") => set' = set
      <4>1. Len(inq) >= 1 /\ Len(inq) \in Nat /\ line = inq[1]
        BY <2>3, JumboQueue
      <4> QED
        BY <2>3, <4>1 DEF NoneTyped
    <3>2. \A p : Owned(p) => Owned(p)'
      BY <2>3, <2>5, <3>1 DEF Owned
    <3> QED
      BY <2>3, <3>2 DEF JumboInv, HeardInv, Owned
  <2> QED
    BY <2>1, <2>6, <2>7, <2>8, <2>9 DEF JumboInv
<1> QED
  BY <1>1, <1>2, <1>3

LEMMA JumboStep ==
  ASSUME JumboInv, Next
  PROVE  JumboInv'
BY JumboHostGo, JumboNoFiles, JumboVerdict, JumboTrgtPing, JumboType, JumboSend,
   JumboExpectMatch, JumboExpectTimeout, JumboConnectLogin, JumboConnectPrompt,
   JumboConnectTimeout, JumboBoardRun
   DEF Next

LEMMA JumboStart ==
  ASSUME Test = "jumbo", Prompt30 = TRUE, Init
  PROVE  JumboInv
<1>1. /\ inq = <<>> /\ buf = <<>> /\ shell \in {"login", "shell"} /\ k = 1 /\ stage = "start"
      /\ set = 0
  BY DEF Init
<1>2. JumboPos /\ FirstConnect /\ LoggedIn
  BY <1>1, JumboCodeIs DEF JumboPos, FirstConnect, LoggedIn
<1>3. LastMtu(1) = 0
  BY DEF LastMtu, LastBefore
<1>4. PingInv /\ MtuInv /\ HeardInv
  BY <1>1, <1>3 DEF PingInv, MtuInv, MtuOf, NoneTyped, NoSummary, HeardInv
<1> QED
  BY <1>2, <1>4 DEF JumboInv

LEMMA JumboKept ==
  ASSUME JumboInv, [Next]_vars
  PROVE  JumboInv'
<1>1. CASE UNCHANGED vars
  <2>1. UNCHANGED <<inq, buf, shell, k, stage, rr, heard, set>>
    BY <1>1 DEF vars, console, script, trgtnet
  <2> QED
    BY <2>1, JumboUnchanged
<1> QED
  BY <1>1, JumboStep

LEMMA JumboRefused ==
  ASSUME JumboInv
  PROVE  RefusalOfThisPing
<1> SUFFICES ASSUME Past("silence")
             PROVE  /\ heard = k - 2
                    /\ Code[k - 2].do = "checkHostPing" => set = LastBefore("mtu", k)
  BY DEF RefusalOfThisPing
<1>1. k > 1 /\ stage = "start" /\ JumboCode[k - 1].do = "silence"
  BY DEF Past, JumboCode
<1>2. Owned(k - 2)
  BY <1>1 DEF JumboInv, HeardInv
<1>3. k \in 1..Len(JumboCode) /\ Len(JumboCode) \in Nat
  BY JumboNow
<1>4. k - 1 \in 1..Len(JumboCode) /\ k - 1 > 2 /\ (k - 1) - 1 = k - 2 /\ (k - 1) + 1 = k
      /\ (k - 2) + 1 = k - 1 /\ k - 2 \in 1..Len(JumboCode) /\ k - 1 \in Nat /\ k - 2 \in Nat
  <2>1. k - 1 \in 1..Len(JumboCode)
    BY <1>1, <1>3
  <2>2. k - 1 > 2
    BY <1>1, <2>1, JumboNow, JumboCodeIs
  <2> QED
    BY <1>3, <2>1, <2>2
<1>5. LastMtu(k) = LastMtu(k - 1)
  <2> DEFINE n == k - 1
  <2>1. n \in Nat /\ n >= 1 /\ JumboCode[n].do # "mtu"
    BY <1>1, <1>4
  <2>2. n + 1 = k
    BY <1>4
  <2> HIDE DEF n
  <2>3. LastMtu(n + 1) = LastMtu(n)
    BY <2>1, LastMtuNext
  <2> QED
    BY <2>2, <2>3 DEF n
<1>6. JumboCode[k - 2].do = "checkHostPing" => LastMtu(k - 1) = LastMtu(k - 2)
  <2> DEFINE n == k - 2
  <2>1. n \in Nat /\ n >= 1 /\ n + 1 = k - 1
    BY <1>4
  <2> HIDE DEF n
  <2>2. JumboCode[n].do = "checkHostPing" => LastMtu(n + 1) = LastMtu(n)
    BY <2>1, LastMtuNext
  <2> QED
    BY <2>1, <2>2 DEF n
<1> QED
  BY <1>2, <1>5, <1>6 DEF Owned, LastMtu, JumboCode

\* On a board that executes what was typed within the timeout, for one address
\* family or two, a refusal that the jumbo test accepts is that of this very
\* ping, and a ping of the board was made under the mtu command of its own part
\* of the test: no summary is left in expect's buffer for a later ping, and
\* the console executes the mtu command before the ping that was typed after
\* it (emactestjumbo.exp:44-66 and 127-169).
THEOREM RefusalOfThisPingThm ==
  ASSUME Test = "jumbo", Prompt30 = TRUE
  PROVE  Spec => []RefusalOfThisPing
<1>1. Init => JumboInv
  BY JumboStart
<1>2. JumboInv /\ [Next]_vars => JumboInv'
  BY JumboKept
<1>3. JumboInv => RefusalOfThisPing
  BY JumboRefused
<1> QED
  BY <1>1, <1>2, <1>3, PTL DEF Spec
=============================================================================
