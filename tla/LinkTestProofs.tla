--------------------------- MODULE LinkTestProofs ---------------------------
(***************************************************************************)
(* The link tests of LinkTest for any rows, with a board that may be        *)
(* arbitrarily late: what AdvTrgt and ForceTrgt accept of a row.            *)
(***************************************************************************)
EXTENDS LinkTest, SequenceTheorems, WellFoundedInduction, TLAPS

-----------------------------------------------------------------------------
(* A question typed on the console and its answer: at most one is on its    *)
(* way, as a line the board has not executed or as text expect has not read. *)

Lines == [cmd : {"settrgtLinkAuto", "gettrgtSpeed", "gettrgtDuplex", "checkHostPingv4", "return",
                 "root"},
          tag : Nat]
Tokens == [text : {"prompt", "login:", "Mbps", "d", "ping"}, val : Int, tag : Nat]

NoneOut(q, b, c, x) ==
  /\ \A i \in 1..Len(q) : q[i].cmd # c
  /\ \A j \in 1..Len(b) : b[j].text # x
OneOut(q, b, c, x) ==
  /\ \A i, j \in 1..Len(q) : q[i].cmd = c /\ q[j].cmd = c => i = j
  /\ \A i, j \in 1..Len(b) : b[i].text = x /\ b[j].text = x => i = j
  /\ \A i \in 1..Len(q), j \in 1..Len(b) : q[i].cmd = c => b[j].text # x
TaggedBy(b, x, r) == \A j \in 1..Len(b) : b[j].text = x => b[j].tag = r

\* Where the script is with the question c of its row r, whose answer is the
\* text x: before it, waiting for the answer, after it with what it took in a,
\* past the verdict, or done with it for good.
AnswerInv(c, x, ph, r, a, q, b) ==
  /\ q \in Seq(Lines) /\ b \in Seq(Tokens)
  /\ ph \in {"before", "accepted"} => NoneOut(q, b, c, x)
  /\ ph = "asking" => OneOut(q, b, c, x) /\ TaggedBy(b, x, r)
  /\ ph = "after" => \/ a.val = -1 /\ OneOut(q, b, c, x)
                     \/ a.tag = r /\ NoneOut(q, b, c, x)
  /\ ph = "accepted" => a.tag = r

\* The script goes on, past the verdict only with an answer.
Moved(ph, r, a, ph2, r2) ==
  \/ ph2 = ph /\ r2 = r
  \/ ph \in {"before", "accepted"} /\ ph2 = "before"
  \/ ph = "after" /\ ph2 = "accepted" /\ r2 = r /\ a.val # -1
  \/ ph2 = "done"

\* Nothing happens on the console.
LEMMA MoveOnly ==
  ASSUME NEW c, NEW x, NEW ph, NEW r, NEW a, NEW q, NEW b, NEW ph2, NEW r2,
         AnswerInv(c, x, ph, r, a, q, b), Moved(ph, r, a, ph2, r2)
  PROVE  AnswerInv(c, x, ph2, r2, a, q, b)
BY DEF AnswerInv, Moved

\* Another line is typed.
LEMMA MoveType ==
  ASSUME NEW c, NEW x, NEW ph, NEW r, NEW a, NEW q, NEW b, NEW l \in Lines,
         AnswerInv(c, x, ph, r, a, q, b), l.cmd # c
  PROVE  AnswerInv(c, x, ph, r, a, Append(q, l), b)
<1> DEFINE q2 == Append(q, l)
<1>1. q \in Seq(Lines) /\ Len(q) \in Nat
  BY DEF AnswerInv
<1>2. /\ q2 \in Seq(Lines) /\ Len(q2) = Len(q) + 1
      /\ \A i \in 1..Len(q) : q2[i] = q[i]
      /\ q2[Len(q) + 1] = l
  BY <1>1, AppendProperties
<1> HIDE DEF q2
<1>3. \A i \in 1..Len(q2) : q2[i].cmd = c => i \in 1..Len(q) /\ q[i].cmd = c
  BY <1>1, <1>2
<1>4. NoneOut(q, b, c, x) => NoneOut(q2, b, c, x)
  BY <1>3 DEF NoneOut
<1>5. OneOut(q, b, c, x) => OneOut(q2, b, c, x)
  BY <1>3 DEF OneOut
<1>6. AnswerInv(c, x, ph, r, a, q2, b)
  BY <1>2, <1>4, <1>5, Zenon DEF AnswerInv
<1> QED
  BY <1>6 DEF q2

\* What is left of a sequence behind the place i.
LEMMA CutSeq ==
  ASSUME NEW S, NEW b \in Seq(S), NEW i \in 1..Len(b)
  PROVE  /\ SubSeq(b, i + 1, Len(b)) \in Seq(S)
         /\ Len(SubSeq(b, i + 1, Len(b))) = Len(b) - i
         /\ \A j \in 1..Len(SubSeq(b, i + 1, Len(b))) :
              j + i \in 1..Len(b) /\ SubSeq(b, i + 1, Len(b))[j] = b[j + i]
<1>1. Len(b) \in Nat /\ i \in Nat /\ i + 1 \in Int /\ i <= Len(b)
  BY LenProperties
<1>2. \A j \in (i + 1)..Len(b) : b[j] \in S
  BY <1>1, ElementOfSeq
<1>3. /\ SubSeq(b, i + 1, Len(b)) \in Seq(S)
      /\ Len(SubSeq(b, i + 1, Len(b))) = IF i + 1 <= Len(b) THEN Len(b) - (i + 1) + 1 ELSE 0
      /\ \A j \in 1..(Len(b) - (i + 1) + 1) : SubSeq(b, i + 1, Len(b))[j] = b[(i + 1) + j - 1]
  BY <1>1, <1>2, SubSeqProperties
<1>4. Len(SubSeq(b, i + 1, Len(b))) = Len(b) - i /\ Len(b) - (i + 1) + 1 = Len(b) - i
  BY <1>1, <1>3
<1>5. \A j \in 1..(Len(b) - i) : j + i \in 1..Len(b) /\ (i + 1) + j - 1 = j + i
  BY <1>1
<1> QED
  BY <1>3, <1>4, <1>5, Zenon

\* expect reads up to the place i, for something else or for the answer.
LEMMA MoveCut ==
  ASSUME NEW c, NEW x, NEW ph, NEW r, NEW a, NEW q, NEW b, NEW i \in 1..Len(b),
         AnswerInv(c, x, ph, r, a, q, b)
  PROVE  AnswerInv(c, x, ph, r, a, q, SubSeq(b, i + 1, Len(b)))
<1> DEFINE b2 == SubSeq(b, i + 1, Len(b))
<1>1. b \in Seq(Tokens) /\ Len(b) \in Nat /\ i \in Nat
  BY DEF AnswerInv
<1>2. /\ b2 \in Seq(Tokens) /\ Len(b2) = Len(b) - i
      /\ \A j \in 1..Len(b2) : j + i \in 1..Len(b) /\ b2[j] = b[j + i]
  BY <1>1, CutSeq, Zenon
<1> HIDE DEF b2
<1>3. NoneOut(q, b, c, x) => NoneOut(q, b2, c, x)
  BY <1>2 DEF NoneOut
<1>4. OneOut(q, b, c, x) => OneOut(q, b2, c, x)
  <2> SUFFICES ASSUME OneOut(q, b, c, x) PROVE OneOut(q, b2, c, x)
    OBVIOUS
  <2>1. ASSUME NEW j \in 1..Len(b2), NEW m \in 1..Len(b2), b2[j].text = x, b2[m].text = x
        PROVE  j = m
    <3>1. j + i = m + i
      BY <1>2, <2>1, Zenon DEF OneOut
    <3> QED
      BY <1>1, <1>2, <3>1
  <2>2. \A m \in 1..Len(q), j \in 1..Len(b2) : q[m].cmd = c => b2[j].text # x
    BY <1>2, Zenon DEF OneOut
  <2> QED
    BY <2>1, <2>2, Zenon DEF OneOut
<1>5. TaggedBy(b, x, r) => TaggedBy(b2, x, r)
  BY <1>2 DEF TaggedBy
<1>6. AnswerInv(c, x, ph, r, a, q, b2)
  BY <1>2, <1>3, <1>4, <1>5 DEF AnswerInv
<1> QED
  BY <1>6 DEF b2

\* The question is typed.
LEMMA AskStep ==
  ASSUME NEW c, NEW x, NEW r, NEW a, NEW q, NEW b, NEW l \in Lines,
         AnswerInv(c, x, "before", r, a, q, b), l.cmd = c
  PROVE  AnswerInv(c, x, "asking", r, a, Append(q, l), b)
<1> DEFINE q2 == Append(q, l)
<1>1. q \in Seq(Lines) /\ b \in Seq(Tokens) /\ Len(q) \in Nat /\ NoneOut(q, b, c, x)
  BY DEF AnswerInv
<1>2. /\ q2 \in Seq(Lines) /\ Len(q2) = Len(q) + 1
      /\ \A i \in 1..Len(q) : q2[i] = q[i]
  BY <1>1, AppendProperties
<1> HIDE DEF q2
<1>3. \A i \in 1..Len(q2) : q2[i].cmd = c => i = Len(q) + 1
  BY <1>1, <1>2 DEF NoneOut
<1>4. OneOut(q2, b, c, x) /\ TaggedBy(b, x, r)
  BY <1>1, <1>3 DEF OneOut, NoneOut, TaggedBy
<1>5. AnswerInv(c, x, "asking", r, a, q2, b)
  BY <1>1, <1>2, <1>4 DEF AnswerInv
<1> QED
  BY <1>5 DEF q2

\* What is left of the buffer after its i-th token.
LEMMA After ==
  ASSUME NEW b \in Seq(Tokens), NEW i \in 1..Len(b)
  PROVE  LET b2 == SubSeq(b, i + 1, Len(b))
         IN  /\ b2 \in Seq(Tokens) /\ Len(b2) = Len(b) - i
             /\ \A j \in 1..Len(b2) : j + i \in 1..Len(b) /\ b2[j] = b[j + i]
<1> HIDE DEF Tokens
<1>1. Len(b) \in Nat /\ i \in Nat /\ \A m \in 1..Len(b) : b[m] \in Tokens
  OBVIOUS
<1> DEFINE b2 == SubSeq(b, i + 1, Len(b))
<1>2. /\ b2 \in Seq(Tokens)
      /\ Len(b2) = IF i + 1 <= Len(b) THEN Len(b) - (i + 1) + 1 ELSE 0
      /\ \A j \in 1..(Len(b) - (i + 1) + 1) : b2[j] = b[i + 1 + j - 1]
  BY <1>1, SubSeqProperties
<1> HIDE DEF b2
<1>3. Len(b2) = Len(b) - i
  BY <1>1, <1>2
<1>4. ASSUME NEW j \in 1..Len(b2)
      PROVE  j + i \in 1..Len(b) /\ b2[j] = b[j + i]
  <2>1. j \in 1..(Len(b) - (i + 1) + 1) /\ i + 1 + j - 1 = j + i
    BY <1>1, <1>3
  <2> QED
    BY <1>1, <1>2, <1>3, <2>1
<1> QED
  BY <1>2, <1>3, <1>4, Zenon DEF b2

\* The answer is taken: it is the only one, and of this row.
LEMMA MatchStep ==
  ASSUME NEW c, NEW x, NEW r, NEW a, NEW a2, NEW q, NEW b, NEW i \in 1..Len(b),
         AnswerInv(c, x, "asking", r, a, q, b), b[i].text = x, a2.tag = b[i].tag
  PROVE  AnswerInv(c, x, "after", r, a2, q, SubSeq(b, i + 1, Len(b)))
<1> DEFINE b2 == SubSeq(b, i + 1, Len(b))
<1>1. /\ q \in Seq(Lines) /\ b \in Seq(Tokens) /\ Len(b) \in Nat /\ i \in Nat
      /\ OneOut(q, b, c, x) /\ TaggedBy(b, x, r)
  BY DEF AnswerInv
<1>b. i \in 1..Len(b) /\ Len(b) \in Nat /\ b \in Seq(Tokens)
  BY <1>1
<1>2. /\ b2 \in Seq(Tokens) /\ Len(b2) = Len(b) - i
      /\ \A j \in 1..Len(b2) : j + i \in 1..Len(b) /\ b2[j] = b[j + i]
  BY <1>b, After, Zenon
<1> HIDE DEF b2
<1>a. \A j \in 1..Len(b2) : j + i # i
  BY <1>1, <1>2
<1>3. NoneOut(q, b2, c, x) /\ a2.tag = r
  BY <1>a, <1>1, <1>2, Zenon DEF OneOut, NoneOut, TaggedBy
<1>4. AnswerInv(c, x, "after", r, a2, q, b2)
  BY <1>1, <1>2, <1>3 DEF AnswerInv
<1> QED
  BY <1>4 DEF b2

\* No answer in time: it may still come.
LEMMA TimeoutStep ==
  ASSUME NEW c, NEW x, NEW r, NEW a, NEW a2, NEW q, NEW b,
         AnswerInv(c, x, "asking", r, a, q, b), a2.val = -1
  PROVE  AnswerInv(c, x, "after", r, a2, q, b)
BY DEF AnswerInv

\* The board executes the oldest line, and prints something else.
LEMMA TailStep ==
  ASSUME NEW c, NEW x, NEW ph, NEW r, NEW a, NEW q, NEW b, q # <<>>,
         AnswerInv(c, x, ph, r, a, q, b)
  PROVE  AnswerInv(c, x, ph, r, a, Tail(q), b)
<1> DEFINE q2 == Tail(q)
<1>1. q \in Seq(Lines) /\ Len(q) \in Nat /\ Len(q) > 0
  BY DEF AnswerInv
<1>2. /\ q2 \in Seq(Lines) /\ Len(q2) = Len(q) - 1
      /\ \A i \in 1..Len(q2) : i + 1 \in 1..Len(q) /\ q2[i] = q[i + 1]
  BY <1>1
<1> HIDE DEF q2
<1>3. NoneOut(q, b, c, x) => NoneOut(q2, b, c, x)
  BY <1>2 DEF NoneOut
<1>4. OneOut(q, b, c, x) => OneOut(q2, b, c, x)
  <2> SUFFICES ASSUME OneOut(q, b, c, x) PROVE OneOut(q2, b, c, x)
    OBVIOUS
  <2>1. ASSUME NEW j \in 1..Len(q2), NEW m \in 1..Len(q2), q2[j].cmd = c, q2[m].cmd = c
        PROVE  j = m
    <3>1. j + 1 = m + 1
      BY <1>2, <2>1, Zenon DEF OneOut
    <3> QED
      BY <1>1, <1>2, <3>1
  <2>2. \A m \in 1..Len(q2), j \in 1..Len(b) : q2[m].cmd = c => b[j].text # x
    BY <1>2, Zenon DEF OneOut
  <2> QED
    BY <2>1, <2>2 DEF OneOut
<1>5. AnswerInv(c, x, ph, r, a, q2, b)
  BY <1>2, <1>3, <1>4 DEF AnswerInv
<1> QED
  BY <1>5 DEF q2

LEMMA PrintStep ==
  ASSUME NEW c, NEW x, NEW ph, NEW r, NEW a, NEW q, NEW b, NEW p \in Tokens,
         AnswerInv(c, x, ph, r, a, q, b), p.text # x
  PROVE  AnswerInv(c, x, ph, r, a, q, Append(b, p))
<1> DEFINE b2 == Append(b, p)
<1>1. b \in Seq(Tokens) /\ Len(b) \in Nat
  BY DEF AnswerInv
<1>2. /\ b2 \in Seq(Tokens) /\ Len(b2) = Len(b) + 1
      /\ \A i \in 1..Len(b) : b2[i] = b[i]
      /\ b2[Len(b) + 1] = p
  BY <1>1, AppendProperties
<1> HIDE DEF b2
<1>3. \A i \in 1..Len(b2) : b2[i].text = x => i \in 1..Len(b) /\ b[i].text = x /\ b2[i] = b[i]
  BY <1>1, <1>2
<1>4. NoneOut(q, b, c, x) => NoneOut(q, b2, c, x)
  BY <1>3 DEF NoneOut
<1>5. OneOut(q, b, c, x) => OneOut(q, b2, c, x)
  BY <1>3 DEF OneOut
<1>6. TaggedBy(b, x, r) => TaggedBy(b2, x, r)
  BY <1>3 DEF TaggedBy
<1>7. AnswerInv(c, x, ph, r, a, q, b2)
  BY <1>2, <1>4, <1>5, <1>6 DEF AnswerInv
<1> QED
  BY <1>7 DEF b2

\* The board executes the question, which makes an answer of a line: before the
\* question and past the verdict there is none.
LEMMA AnswerStep ==
  ASSUME NEW c, NEW x, NEW ph, NEW r, NEW a, NEW q, NEW b, NEW p \in Tokens, q # <<>>,
         AnswerInv(c, x, ph, r, a, q, b), Head(q).cmd = c, p.text = x,
         ph = "asking" => p.tag = r, ph \in {"before", "asking", "after", "accepted", "done"}
  PROVE  AnswerInv(c, x, ph, r, a, Tail(q), Append(b, p))
<1> DEFINE q2 == Tail(q)
           b2 == Append(b, p)
<1>1. q \in Seq(Lines) /\ b \in Seq(Tokens) /\ Len(q) \in Nat /\ Len(q) > 0 /\ Len(b) \in Nat
  BY DEF AnswerInv
<1>2. /\ q2 \in Seq(Lines) /\ Len(q2) = Len(q) - 1
      /\ \A i \in 1..Len(q2) : i + 1 \in 1..Len(q) /\ q2[i] = q[i + 1]
      /\ Head(q) = q[1] /\ 1 \in 1..Len(q)
  BY <1>1
<1>3. /\ b2 \in Seq(Tokens) /\ Len(b2) = Len(b) + 1
      /\ \A i \in 1..Len(b) : b2[i] = b[i]
      /\ b2[Len(b) + 1] = p
  BY <1>1, AppendProperties
<1> HIDE DEF q2, b2
<1>4. q[1].cmd = c
  BY <1>2
<1>5. ~NoneOut(q, b, c, x)
  BY <1>2, <1>4 DEF NoneOut
<1>6. ASSUME OneOut(q, b, c, x)
      PROVE  OneOut(q2, b2, c, x) /\ (p.tag = r => TaggedBy(b2, x, r))
  <2>1. \A i \in 1..Len(q2) : i + 1 # 1
    BY <1>1, <1>2
  <2>2. \A i \in 1..Len(q2) : q2[i].cmd # c
    BY <1>2, <1>4, <1>6, <2>1 DEF OneOut
  <2>3. \A j \in 1..Len(b) : b[j].text # x
    BY <1>2, <1>4, <1>6 DEF OneOut
  <2>4. \A j \in 1..Len(b2) : b2[j].text = x => j = Len(b) + 1
    BY <1>1, <1>3, <2>3
  <2> QED
    BY <1>3, <2>2, <2>4 DEF OneOut, TaggedBy
<1>7. AnswerInv(c, x, ph, r, a, q2, b2)
  BY <1>2, <1>3, <1>5, <1>6 DEF AnswerInv
<1> QED
  BY <1>7 DEF q2, b2

\* The least of a set of numbers.
LEMMA NatMin ==
  ASSUME NEW T \in SUBSET Nat, T # {}
  PROVE  \E x \in T : \A y \in T : x <= y
<1> DEFINE R == OpToRel(<, Nat)
<1>1. IsWellFoundedOn(R, Nat)
  BY NatLessThanWellFounded, Zenon
<1>2. \A x, y \in Nat : <<y, x>> \in R <=> y < x
  BY DEF OpToRel
<1> HIDE DEF R
<1>3. \E x \in T : \A y \in T : ~(<<y, x>> \in R)
  BY <1>1, WFMin, Zenon
<1>4. PICK x \in T : \A y \in T : ~(<<y, x>> \in R)
  BY <1>3
<1>5. ASSUME NEW y \in T PROVE x <= y
  <2>1. x \in Nat /\ y \in Nat
    OBVIOUS
  <2>2. ~(y < x)
    BY <1>2, <1>4, <2>1, Zenon
  <2> QED
    BY <2>1, <2>2
<1> QED
  BY <1>5

\* What expect finds is a place of the buffer at which its pattern matches.
LEMMA Found ==
  ASSUME NEW pats, NEW p \in 1..Len(pats), Hits(pats[p]) # {}, buf \in Seq(Tokens)
  PROVE  /\ FirstHit(p, pats) \in 1..Len(buf)
         /\ <<buf[FirstHit(p, pats)].text, buf[FirstHit(p, pats)].val>> \in pats[p]
<1>1. Hits(pats[p]) \in SUBSET Nat
  BY DEF Hits
<1>2. FirstHit(p, pats) \in Hits(pats[p])
  BY <1>1, NatMin DEF FirstHit
<1> QED
  BY <1>2 DEF Hits

LEMMA FoundFirst ==
  ASSUME NEW pats, Len(pats) \in Nat, Matching(pats) # {}
  PROVE  FirstMatching(pats) \in 1..Len(pats) /\ Hits(pats[FirstMatching(pats)]) # {}
<1>1. Matching(pats) \in SUBSET Nat
  BY DEF Matching
<1>2. FirstMatching(pats) \in Matching(pats)
  BY <1>1, NatMin DEF FirstMatching
<1> QED
  BY <1>2 DEF Matching

\* The board executes the oldest line, and prints at most an answer before
\* its prompt.
LEMMA BoardStep ==
  ASSUME NEW c, NEW x, NEW ph, NEW r, NEW a, NEW q, NEW b, NEW q2, NEW b2, NEW out,
         AnswerInv(c, x, ph, r, a, q, b), q # <<>>, q2 = Tail(q), x \notin {"prompt", "login:"},
         ph \in {"before", "asking", "after", "accepted", "done"},
         \/ out = <<>>
         \/ \E p \in Tokens : /\ out = <<p>> /\ (p.text = x <=> Head(q).cmd = c)
                              /\ p.text = x /\ ph = "asking" => p.tag = r,
         b2 \in {Append(b, Prompt), Append(b, LoginPrompt), Append(b \o out, Prompt)}
  PROVE  AnswerInv(c, x, ph, r, a, q2, b2)
<1>1. Prompt \in Tokens /\ Prompt.text # x /\ LoginPrompt \in Tokens /\ LoginPrompt.text # x
  BY DEF Prompt, LoginPrompt, Token, Tokens
<1>2. AnswerInv(c, x, ph, r, a, q2, b)
  BY TailStep
<1>3. b \in Seq(Tokens)
  BY DEF AnswerInv
<1>4. CASE b2 = Append(b, Prompt)
  BY <1>1, <1>2, <1>4, PrintStep
<1>5. CASE b2 = Append(b, LoginPrompt)
  BY <1>1, <1>2, <1>5, PrintStep
<1>6. CASE b2 = Append(b \o out, Prompt)
  <2>1. CASE out = <<>>
    <3>1. b \o out = b
      BY <1>3, <2>1
    <3> QED
      BY <1>1, <1>2, <1>6, <3>1, PrintStep
  <2>2. CASE \E p \in Tokens : /\ out = <<p>> /\ (p.text = x <=> Head(q).cmd = c)
                               /\ p.text = x /\ ph = "asking" => p.tag = r
    <3>1. PICK p \in Tokens : /\ out = <<p>> /\ (p.text = x <=> Head(q).cmd = c)
                              /\ p.text = x /\ ph = "asking" => p.tag = r
      BY <2>2
    <3>2. b \o out = Append(b, p)
      BY <1>3, <3>1
    <3>3. AnswerInv(c, x, ph, r, a, q2, Append(b, p))
      <4>1. CASE p.text = x
        BY <3>1, <4>1, AnswerStep, Zenon
      <4>2. CASE p.text # x
        BY <1>2, <4>2, PrintStep
      <4> QED
        BY <4>1, <4>2
    <3> QED
      BY <1>1, <1>6, <3>2, <3>3, PrintStep
  <2> QED
    BY <2>1, <2>2
<1> QED
  BY <1>4, <1>5, <1>6

\* connect sees a login prompt: two more lines are typed.
LEMMA LoginStep ==
  ASSUME NEW c, NEW x, NEW ph, NEW r, NEW a, NEW q, NEW b, NEW i \in 1..Len(b), NEW n \in Nat,
         AnswerInv(c, x, ph, r, a, q, b), c \notin {"root", "return"}
  PROVE  AnswerInv(c, x, ph, r, a, q \o <<Line("root", n), Line("return", n)>>,
                   SubSeq(b, i + 1, Len(b)))
<1> DEFINE u == Line("root", n)
           v == Line("return", n)
<1>1. u \in Lines /\ v \in Lines /\ u.cmd # c /\ v.cmd # c
  BY DEF Line, Lines
<1> HIDE DEF u, v
<1>2. q \in Seq(Lines)
  BY DEF AnswerInv
<1>3. q \o <<u, v>> = Append(Append(q, u), v)
  BY <1>1, <1>2
<1>4. AnswerInv(c, x, ph, r, a, Append(Append(q, u), v), b)
  BY <1>1, MoveType
<1>5. AnswerInv(c, x, ph, r, a, q \o <<u, v>>, SubSeq(b, i + 1, Len(b)))
  BY <1>3, <1>4, MoveCut, Zenon
<1> QED
  BY <1>5 DEF u, v
-----------------------------------------------------------------------------
(* emactestllinkAdvTrgt.exp.                                                *)

InRow == row \in 1..Len(Rows)
AdvPos ==
  /\ row \in 0..(Len(Rows) + 1) /\ k \in 1..Len(Code(row))
  /\ stage \in {"start", "expect", "connect", "await"}

\* The place in the row relative to its gettrgtDuplex, and in the first row
\* relative to its gettrgtSpeed.
DuplexPh ==
  IF ~InRow \/ k < 3 \/ (k = 3 /\ stage = "start") THEN "before"
  ELSE IF k = 3 /\ stage = "expect" THEN "asking"
  ELSE IF k <= 4 THEN "after" ELSE "accepted"
SpeedPh ==
  IF row > 1 \/ Len(Rows) = 0 THEN "done"
  ELSE IF row = 0 \/ k < 2 \/ (k = 2 /\ stage = "start") THEN "before"
  ELSE IF k = 2 /\ stage = "expect" THEN "asking" ELSE "after"

DuplexInv == AnswerInv("gettrgtDuplex", "d", DuplexPh, row, tduplex, inq, buf)
SpeedInv == AnswerInv("gettrgtSpeed", "Mbps", SpeedPh, row, tspeed, inq, buf)

\* What the verdict on a row is based on, once it was accepted.
RowInv ==
  InRow /\ k > 4 =>
    /\ tduplex.val = Rows[row].duplex
    /\ row = 1 /\ Rows[1].speed = 1000 /\ s1000Support = 1 => tspeed.val = 1000

AdvInv ==
  /\ AdvPos /\ applied \in Nat /\ link.speed \in Int /\ link.duplex \in Int
  /\ InRow /\ k >= 2 => applied = row
  /\ tduplex.val = -1 \/ tduplex.val = DuplexSeen(tduplex.raw)
  /\ DuplexInv /\ SpeedInv /\ RowInv

\* The operations of each row, before and after the rows.
LEMMA AdvCode ==
  ASSUME Script = "AdvTrgt", AdvPos
  PROVE  /\ Len(Rows) \in Nat
         /\ InRow => /\ Len(Code(row)) = 8 /\ Code(row)[1] = "sethostAdv"
                     /\ Code(row)[2] = "gettrgtSpeed" /\ Code(row)[3] = "gettrgtDuplex"
                     /\ Code(row)[4] = "verdict" /\ Code(row)[5] = "checkHostPingv4"
                     /\ Code(row)[6] = "checkrr" /\ Code(row)[7] = "checkTrgtPingv4"
                     /\ Code(row)[8] = "checkrr"
         /\ row = 0 => /\ Len(Code(row)) = 3 /\ Code(row)[1] = "connect"
                       /\ Code(row)[2] = "sethostLinkAuto" /\ Code(row)[3] = "settrgtLinkAuto"
         /\ row = Len(Rows) + 1 =>
              /\ Len(Code(row)) = 3 /\ Code(row)[1] = "sethostLinkAuto"
              /\ Code(row)[2] = "settrgtLinkAuto" /\ Code(row)[3] = "exit"
<1>1. Len(Rows) \in Nat
  BY LinkTestAssumption
<1>2. ASSUME InRow PROVE Code(row) = <<"sethostAdv", "gettrgtSpeed", "gettrgtDuplex", "verdict">>
                                     \o <<"checkHostPingv4", "checkrr", "checkTrgtPingv4", "checkrr">>
  <2>1. Code(row) = Body(Rows[row])
    BY <1>1, <1>2 DEF Code, InRow
  <2>2. ~Forces
    BY DEF Forces
  <2> QED
    BY <2>1, <2>2 DEF Body, Pings
<1>3. row = 0 => Code(row) = <<"connect">> \o <<"sethostLinkAuto", "settrgtLinkAuto">>
  BY DEF Code, LinkAuto
<1>4. row = Len(Rows) + 1 => Code(row) = <<"sethostLinkAuto", "settrgtLinkAuto">> \o <<"exit">>
  BY <1>1 DEF Code, LinkAuto
<1>5. ASSUME InRow PROVE /\ Len(Code(row)) = 8 /\ Code(row)[1] = "sethostAdv"
                     /\ Code(row)[2] = "gettrgtSpeed" /\ Code(row)[3] = "gettrgtDuplex"
                     /\ Code(row)[4] = "verdict" /\ Code(row)[5] = "checkHostPingv4"
                     /\ Code(row)[6] = "checkrr" /\ Code(row)[7] = "checkTrgtPingv4"
                     /\ Code(row)[8] = "checkrr"
  BY <1>2, <1>5
<1>6. row = 0 => /\ Len(Code(row)) = 3 /\ Code(row)[1] = "connect"
                 /\ Code(row)[2] = "sethostLinkAuto" /\ Code(row)[3] = "settrgtLinkAuto"
  BY <1>3
<1>7. row = Len(Rows) + 1 => /\ Len(Code(row)) = 3 /\ Code(row)[1] = "sethostLinkAuto"
                             /\ Code(row)[2] = "settrgtLinkAuto" /\ Code(row)[3] = "exit"
  BY <1>4
<1> QED
  BY <1>1, <1>5, <1>6, <1>7

\* Where each of them stands.
LEMMA AdvOps ==
  ASSUME Script = "AdvTrgt", AdvPos
  PROVE  /\ Op = "sethostAdv" <=> InRow /\ k = 1
         /\ Op = "gettrgtSpeed" <=> InRow /\ k = 2
         /\ Op = "gettrgtDuplex" <=> InRow /\ k = 3
         /\ Op = "verdict" <=> InRow /\ k = 4
         /\ Op = "exit" <=> row = Len(Rows) + 1 /\ k = 3
         /\ Op \in {"sethostAdv", "gettrgtSpeed", "gettrgtDuplex", "verdict", "checkHostPingv4",
                    "checkrr", "checkTrgtPingv4", "connect", "sethostLinkAuto", "settrgtLinkAuto",
                    "exit"}
<1>1. Len(Rows) \in Nat /\ k \in 1..Len(Code(row)) /\ row \in 0..(Len(Rows) + 1)
  BY AdvCode DEF AdvPos
<1>2. CASE InRow
  <2>1. k \in 1..8 /\ row # Len(Rows) + 1
    BY <1>1, <1>2, AdvCode, Zenon DEF InRow
  <2> QED
    BY <1>2, <2>1, AdvCode DEF Op
<1>3. CASE row = 0
  <2>1. k \in 1..3 /\ ~InRow /\ row # Len(Rows) + 1
    BY <1>1, <1>3, AdvCode, Zenon DEF InRow
  <2> QED
    BY <1>3, <2>1, AdvCode DEF Op
<1>4. CASE row = Len(Rows) + 1
  <2>1. k \in 1..3 /\ ~InRow
    BY <1>1, <1>4, AdvCode, Zenon DEF InRow
  <2> QED
    BY <1>4, <2>1, AdvCode DEF Op
<1> QED
  BY <1>1, <1>2, <1>3, <1>4 DEF InRow

LEMMA RowTypes ==
  ASSUME NEW i \in 1..Len(Rows)
  PROVE  Rows[i].duplex \in {0, 1} /\ Rows[i].speed \in {10, 100, 1000}
<1> DEFINE R == [speed : {10, 100, 1000}, duplex : {0, 1}]
<1>1. Rows \in Seq(R)
  BY LinkTestAssumption
<1> HIDE DEF R
<1>2. Rows[i] \in R
  BY <1>1, ElementOfSeq
<1> QED
  BY <1>2 DEF R

\* Finish goes to the next place.
LEMMA AdvFinish ==
  ASSUME Script = "AdvTrgt", AdvPos, Finish, Op # "exit"
  PROVE  /\ AdvPos' /\ Len(Rows) \in Nat /\ k \in Nat /\ row \in Nat
         /\ k' \in Nat /\ row' \in Nat /\ stage' = "start"
         /\ \/ row' = row /\ k' = k + 1 /\ (InRow => k < 8)
            \/ row' = row + 1 /\ k' = 1 /\ (InRow => k = 8)
<1>1. /\ Len(Rows) \in Nat /\ k \in 1..Len(Code(row)) /\ row \in 0..(Len(Rows) + 1)
      /\ Len(Code(row)) \in Nat
  <2>1. InRow \/ row = 0 \/ row = Len(Rows) + 1
    BY AdvCode DEF AdvPos, InRow
  <2> QED
    BY <2>1, AdvCode DEF AdvPos
<1>2. CASE k < Len(Code(row))
  <2>1. row' = row /\ k' = k + 1 /\ stage' = "start"
    BY <1>2 DEF Finish
  <2>2. k' \in 1..Len(Code(row'))
    BY <1>1, <1>2, <2>1
  <2>3. AdvPos'
    BY <1>1, <2>1, <2>2 DEF AdvPos
  <2>4. InRow => k < 8
    BY <1>2, AdvCode, Zenon
  <2>5. k \in Nat /\ row \in Nat /\ k' \in Nat /\ row' \in Nat
    BY <1>1, <2>1
  <2> QED
    BY <1>1, <2>1, <2>3, <2>4, <2>5
<1>3. CASE ~(k < Len(Code(row)))
  <2>1. row' = row + 1 /\ k' = 1 /\ stage' = "start" /\ k = Len(Code(row))
    BY <1>1, <1>3 DEF Finish
  <2>2. row # Len(Rows) + 1
    BY <2>1, AdvCode, AdvOps
  <2>3. row' \in 0..(Len(Rows) + 1)
    BY <1>1, <2>1, <2>2
  <2>4. k' \in 1..Len(Code(row'))
    <3>1. PICK r : r = row'
      OBVIOUS
    <3>2. r \in 1..Len(Rows) \/ r = Len(Rows) + 1
      BY <1>1, <2>1, <2>3, <3>1
    <3>3. r \in 1..Len(Rows) => Len(Code(r)) = 8
      <4>1. ASSUME r \in 1..Len(Rows)
            PROVE  Code(r) = <<"sethostAdv", "gettrgtSpeed", "gettrgtDuplex", "verdict">>
                             \o <<"checkHostPingv4", "checkrr", "checkTrgtPingv4", "checkrr">>
        <5>1. Code(r) = Body(Rows[r])
          BY <1>1, <4>1 DEF Code
        <5>2. ~Forces
          BY DEF Forces
        <5> QED
          BY <5>1, <5>2 DEF Body, Pings
      <4> QED
        BY <4>1
    <3>4. r = Len(Rows) + 1 => Len(Code(r)) = 3
      <4>1. r = Len(Rows) + 1 => Code(r) = <<"sethostLinkAuto", "settrgtLinkAuto">> \o <<"exit">>
        BY <1>1 DEF Code, LinkAuto
      <4> QED
        BY <4>1
    <3>5. 1 \in 1..Len(Code(r))
      BY <3>2, <3>3, <3>4
    <3> QED
      BY <2>1, <3>1, <3>5
  <2>5. AdvPos'
    BY <2>1, <2>3, <2>4 DEF AdvPos
  <2> QED
    BY <1>1, <2>1, <2>5, AdvCode
<1> QED
  BY <1>2, <1>3

\* A phase is one of five.
LEMMA Phases ==
  /\ DuplexPh \in {"before", "asking", "after", "accepted"}
  /\ SpeedPh \in {"done", "before", "asking", "after"}
BY DEF DuplexPh, SpeedPh

\* A step that does not go on, and after which both questions stand as they do.
LEMMA StayStep ==
  ASSUME Script = "AdvTrgt", AdvInv, UNCHANGED <<row, k, applied, tduplex, tspeed>>,
         stage' \in {"start", "expect", "connect", "await"},
         \/ stage' = stage
         \/ Op \notin {"gettrgtDuplex", "gettrgtSpeed"}
         \/ stage \in {"connect", "await"} /\ stage' \in {"connect", "await"},
         link'.speed \in Int, link'.duplex \in Int,
         AnswerInv("gettrgtDuplex", "d", DuplexPh, row, tduplex, inq', buf'),
         AnswerInv("gettrgtSpeed", "Mbps", SpeedPh, row, tspeed, inq', buf')
  PROVE  AdvInv'
<1>1. AdvPos /\ AdvPos' /\ InRow' = InRow
  BY DEF AdvInv, AdvPos, InRow
<1>2. DuplexPh' = DuplexPh
  <2>1. stage' = stage \/ ~(InRow /\ k = 3) \/ (stage \in {"connect", "await"} /\ stage' \in {"connect", "await"})
    BY <1>1, AdvOps
  <2> QED
    BY <1>1, <2>1 DEF DuplexPh, InRow
<1>3. SpeedPh' = SpeedPh
  <2>1. stage' = stage \/ ~(InRow /\ k = 2) \/ (stage \in {"connect", "await"} /\ stage' \in {"connect", "await"})
    BY <1>1, AdvOps
  <2>2. Len(Rows) \in Nat /\ row \in Nat
    BY <1>1, AdvCode DEF AdvPos
  <2>3. row = 1 /\ Len(Rows) # 0 => InRow
    BY <2>2 DEF InRow
  <2>4. CASE row > 1 \/ Len(Rows) = 0 \/ row = 0
    BY <2>2, <2>4 DEF SpeedPh
  <2>5. CASE row = 1 /\ Len(Rows) # 0
    BY <2>1, <2>2, <2>3, <2>5 DEF SpeedPh
  <2> QED
    BY <2>2, <2>4, <2>5
<1>4. DuplexInv' /\ SpeedInv'
  BY <1>2, <1>3 DEF DuplexInv, SpeedInv
<1>5. RowInv'
  BY <1>1 DEF AdvInv, RowInv
<1> QED
  BY <1>1, <1>4, <1>5 DEF AdvInv

\* A step to the next place, perhaps after reading a prompt.
LEMMA FinishStep ==
  ASSUME Script = "AdvTrgt", AdvInv, Finish, Op # "exit", UNCHANGED <<inq, tduplex, tspeed>>,
         Op \in {"gettrgtDuplex", "gettrgtSpeed"} => stage \in {"connect", "await"},
         Op = "verdict" => /\ tduplex.val = Rows[row].duplex
                           /\ row = 1 /\ Rows[1].speed = 1000 /\ s1000Support = 1 =>
                                tspeed.val = 1000,
         buf' = buf \/ \E i \in 1..Len(buf) : buf' = SubSeq(buf, i + 1, Len(buf)),
         applied' = IF Op = "sethostAdv" THEN row ELSE applied,
         link'.speed \in Int, link'.duplex \in Int
  PROVE  AdvInv'
<1>1. AdvPos /\ applied \in Nat
  BY DEF AdvInv
<1>2. /\ AdvPos' /\ Len(Rows) \in Nat /\ k \in Nat /\ row \in Nat /\ k' \in Nat /\ row' \in Nat
      /\ stage' = "start"
      /\ \/ row' = row /\ k' = k + 1 /\ (InRow => k < 8)
         \/ row' = row + 1 /\ k' = 1 /\ (InRow => k = 8)
  BY <1>1, AdvFinish
<1>3. /\ InRow /\ k = 2 => stage \in {"connect", "await"}
      /\ InRow /\ k = 3 => stage \in {"connect", "await"}
  BY <1>1, AdvOps
<1>4. ASSUME InRow, k = 4
      PROVE  /\ tduplex.val = Rows[row].duplex /\ tduplex.val # -1
             /\ row = 1 /\ Rows[1].speed = 1000 /\ s1000Support = 1 => tspeed.val = 1000
  <2>1. Op = "verdict"
    BY <1>1, <1>4, AdvOps
  <2>2. Rows[row].duplex \in {0, 1}
    BY <1>4, RowTypes DEF InRow
  <2> QED
    BY <2>1, <2>2
<1>5. k >= 1
  BY <1>1 DEF AdvPos
<1>6. Moved(DuplexPh, row, tduplex, DuplexPh', row')
  <2>1. CASE ~InRow
    <3>1. DuplexPh = "before" /\ DuplexPh' = "before"
      BY <1>2, <2>1 DEF DuplexPh, InRow
    <3> QED
      BY <3>1 DEF Moved
  <2>2. CASE InRow /\ k = 8 /\ k' = 1
    <3>1. DuplexPh = "accepted" /\ DuplexPh' = "before"
      BY <1>2, <2>2 DEF DuplexPh
    <3> QED
      BY <3>1 DEF Moved
  <2>3. CASE InRow /\ k < 8 /\ row' = row /\ k' = k + 1
    <3>1. InRow'
      BY <2>3 DEF InRow
    <3>2. CASE k < 3
      <4>1. DuplexPh = "before" /\ DuplexPh' = "before"
        BY <1>2, <2>3, <3>1, <3>2 DEF DuplexPh
      <4> QED
        BY <4>1 DEF Moved
    <3>3. CASE k = 3
      <4>1. DuplexPh = "after" /\ DuplexPh' = "after"
        BY <1>2, <1>3, <2>3, <3>1, <3>3 DEF DuplexPh
      <4> QED
        BY <2>3, <4>1 DEF Moved
    <3>4. CASE k = 4
      <4>1. DuplexPh = "after" /\ DuplexPh' = "accepted"
        BY <1>2, <2>3, <3>1, <3>4 DEF DuplexPh
      <4> QED
        BY <1>4, <2>3, <3>4, <4>1 DEF Moved
    <3>5. CASE k > 4
      <4>1. DuplexPh = "accepted" /\ DuplexPh' = "accepted"
        BY <1>2, <2>3, <3>1, <3>5 DEF DuplexPh
      <4> QED
        BY <2>3, <4>1 DEF Moved
    <3> QED
      BY <1>2, <3>2, <3>3, <3>4, <3>5
  <2> QED
    BY <1>2, <2>1, <2>2, <2>3
<1>7. Moved(SpeedPh, row, tspeed, SpeedPh', row')
  <2>1. CASE row' > 1 \/ Len(Rows) = 0
    <3>1. SpeedPh' = "done"
      BY <1>2, <2>1 DEF SpeedPh
    <3> QED
      BY <3>1 DEF Moved
  <2>2. CASE row = 0 /\ Len(Rows) # 0
    <3>1. SpeedPh = "before" /\ SpeedPh' = "before"
      BY <1>2, <2>2 DEF SpeedPh
    <3> QED
      BY <3>1 DEF Moved
  <2>3. CASE row = 1 /\ row' = 1 /\ k' = k + 1 /\ Len(Rows) # 0
    <3>1. InRow
      BY <1>2, <2>3 DEF InRow
    <3>2. CASE k < 2
      <4>1. SpeedPh = "before" /\ SpeedPh' = "before"
        BY <1>2, <2>3, <3>2 DEF SpeedPh
      <4> QED
        BY <4>1 DEF Moved
    <3>3. CASE k >= 2
      <4>1. SpeedPh = "after" /\ SpeedPh' = "after"
        BY <1>2, <1>3, <2>3, <3>1, <3>3 DEF SpeedPh
      <4> QED
        BY <2>3, <4>1 DEF Moved
    <3> QED
      BY <1>2, <3>2, <3>3
  <2> QED
    BY <1>2, <2>1, <2>2, <2>3
<1>8. DuplexInv /\ SpeedInv
  BY DEF AdvInv
<1>9. /\ AnswerInv("gettrgtDuplex", "d", DuplexPh, row, tduplex, inq, buf')
      /\ AnswerInv("gettrgtSpeed", "Mbps", SpeedPh, row, tspeed, inq, buf')
  BY <1>8, MoveCut, Zenon DEF DuplexInv, SpeedInv
<1>10. /\ AnswerInv("gettrgtDuplex", "d", DuplexPh', row', tduplex, inq, buf')
       /\ AnswerInv("gettrgtSpeed", "Mbps", SpeedPh', row', tspeed, inq, buf')
  BY <1>6, <1>7, <1>9, MoveOnly
<1>11. DuplexInv' /\ SpeedInv'
  BY <1>10 DEF DuplexInv, SpeedInv
<1>12. RowInv'
  <2> SUFFICES ASSUME InRow', k' > 4
               PROVE  /\ tduplex'.val = Rows[row'].duplex
                      /\ row' = 1 /\ Rows[1].speed = 1000 /\ s1000Support = 1 =>
                           tspeed'.val = 1000
    BY DEF RowInv
  <2>1. row' = row /\ k >= 4 /\ InRow
    BY <1>2 DEF InRow
  <2>2. CASE k = 4
    BY <1>4, <2>1, <2>2
  <2>3. CASE k > 4
    BY <2>1, <2>3 DEF AdvInv, RowInv
  <2> QED
    BY <1>2, <2>1, <2>2, <2>3
<1>13. InRow' /\ k' >= 2 => applied' = row'
  <2> SUFFICES ASSUME InRow', k' >= 2 PROVE applied' = row'
    OBVIOUS
  <2>1. row' = row /\ InRow /\ k' = k + 1
    BY <1>2 DEF InRow
  <2>2. k = 1 => Op = "sethostAdv"
    BY <1>1, <2>1, AdvOps
  <2>3. k >= 2 => applied = row
    BY <2>1 DEF AdvInv
  <2> QED
    BY <1>2, <1>5, <2>1, <2>2, <2>3
<1>14. applied' \in Nat
  BY <1>1, <1>2
<1> QED
  BY <1>2, <1>11, <1>12, <1>13, <1>14 DEF AdvInv

\* Both questions, on a console on which nothing of either was typed or read.
LEMMA BothMove ==
  ASSUME AdvInv
  PROVE  /\ AnswerInv("gettrgtDuplex", "d", DuplexPh, row, tduplex, inq, buf)
         /\ AnswerInv("gettrgtSpeed", "Mbps", SpeedPh, row, tspeed, inq, buf)
         /\ AdvPos /\ row \in Nat /\ k \in Nat /\ buf \in Seq(Tokens) /\ inq \in Seq(Lines)
         /\ Len(Rows) \in Nat /\ applied \in Nat /\ link.speed \in Int /\ link.duplex \in Int
         /\ stage \in {"start", "expect", "connect", "await"}
<1>1. Len(Rows) \in Nat
  BY LinkTestAssumption, LenProperties
<1> QED
  BY <1>1 DEF AdvInv, AdvPos, DuplexInv, SpeedInv, AnswerInv

LEMMA AdvSend ==
  ASSUME Script = "AdvTrgt", AdvInv, Send
  PROVE  AdvInv'
<1>1. /\ AnswerInv("gettrgtDuplex", "d", DuplexPh, row, tduplex, inq, buf)
      /\ AnswerInv("gettrgtSpeed", "Mbps", SpeedPh, row, tspeed, inq, buf)
      /\ AdvPos /\ row \in Nat /\ link.speed \in Int /\ link.duplex \in Int
      /\ k \in Nat /\ Len(Rows) \in Nat
  BY BothMove
<1>2. /\ stage = "start" /\ stage' = (IF Op \in Queries THEN "expect" ELSE "connect")
      /\ inq' = Append(inq, Line(Op, row)) /\ Op \in SetCommands \cup Queries
      /\ UNCHANGED <<buf, shell, link, applied, row, k, hspeed, hduplex, tspeed, tduplex, rr>>
  BY DEF Send, Running, answers
<1>3. Line(Op, row) \in Lines /\ Line(Op, row).cmd = Op
  <2>1. Op \in {"settrgtLinkAuto", "gettrgtSpeed", "gettrgtDuplex", "checkHostPingv4"}
    BY <1>1, <1>2, AdvOps DEF SetCommands, Queries
  <2> QED
    BY <1>1, <2>1 DEF Line, Lines
<1>4. Op # "gettrgtDuplex" =>
        AnswerInv("gettrgtDuplex", "d", DuplexPh, row, tduplex, inq', buf')
  BY <1>1, <1>2, <1>3, MoveType
<1>5. Op # "gettrgtSpeed" =>
        AnswerInv("gettrgtSpeed", "Mbps", SpeedPh, row, tspeed, inq', buf')
  BY <1>1, <1>2, <1>3, MoveType
<1>6. stage' \in {"start", "expect", "connect", "await"} /\ link' = link
  BY <1>2
<1>7. CASE Op \notin {"gettrgtDuplex", "gettrgtSpeed"}
  BY <1>1, <1>2, <1>4, <1>5, <1>6, <1>7, StayStep
<1>8. CASE Op = "gettrgtDuplex"
  <2>1. InRow /\ k = 3 /\ stage' = "expect"
    BY <1>1, <1>2, <1>8, AdvOps DEF Queries
  <2>2. DuplexPh = "before" /\ DuplexPh' = "asking"
    BY <1>2, <2>1 DEF DuplexPh, InRow
  <2>3. SpeedPh' = SpeedPh
    BY <1>1, <1>2, <2>1 DEF SpeedPh
  <2>4. AnswerInv("gettrgtDuplex", "d", "asking", row, tduplex, inq', buf')
    BY <1>1, <1>2, <1>3, <1>8, <2>2, AskStep
  <2>5. DuplexInv' /\ SpeedInv'
    BY <1>2, <1>5, <1>8, <2>2, <2>3, <2>4 DEF DuplexInv, SpeedInv
  <2>6. AdvPos' /\ RowInv'
    BY <1>2, <1>6 DEF AdvInv, AdvPos, RowInv, InRow
  <2> QED
    BY <1>2, <2>5, <2>6 DEF AdvInv, InRow
<1>9. CASE Op = "gettrgtSpeed"
  <2>1. InRow /\ k = 2 /\ stage' = "expect"
    BY <1>1, <1>2, <1>9, AdvOps DEF Queries
  <2>2. DuplexPh' = DuplexPh
    BY <1>2, <2>1 DEF DuplexPh, InRow
  <2>3. AnswerInv("gettrgtSpeed", "Mbps", SpeedPh', row, tspeed, inq', buf')
    <3>1. CASE row = 1
      <4>1. SpeedPh = "before" /\ SpeedPh' = "asking"
        BY <1>1, <1>2, <2>1, <3>1 DEF SpeedPh, InRow
      <4> QED
        BY <1>1, <1>2, <1>3, <1>9, <4>1, AskStep
    <3>2. CASE row # 1
      <4>1. SpeedPh' = "done"
        BY <1>1, <1>2, <2>1, <3>2 DEF SpeedPh, InRow
      <4>2. inq' \in Seq(Lines) /\ buf' \in Seq(Tokens)
        BY <1>2, <1>4, <1>9 DEF AnswerInv
      <4> QED
        BY <4>1, <4>2 DEF AnswerInv
    <3> QED
      BY <3>1, <3>2
  <2>4. DuplexInv' /\ SpeedInv'
    BY <1>2, <1>4, <1>9, <2>2, <2>3 DEF DuplexInv, SpeedInv
  <2>5. AdvPos' /\ RowInv'
    BY <1>2, <1>6 DEF AdvInv, AdvPos, RowInv, InRow
  <2> QED
    BY <1>2, <2>4, <2>5 DEF AdvInv, InRow
<1> QED
  BY <1>7, <1>8, <1>9

\* The patterns of an answer are read off that answer's text.
LEMMA PatternTexts ==
  /\ Patterns("gettrgtDuplex") = << {<<"d", 1>>, <<"d", -1>>}, {<<"d", 0>>} >>
  /\ Patterns("gettrgtSpeed") = << {<<"Mbps", 10>>}, {<<"Mbps", 100>>}, {<<"Mbps", 1000>>} >>
  /\ Patterns("checkHostPingv4") = << {<<"ping", 0>>}, {<<"ping", 2>>} >>
BY DEF Patterns

LEMMA ReadDuplex ==
  ASSUME Matching(Patterns("gettrgtDuplex")) # {}, buf \in Seq(Tokens)
  PROVE  LET i == FirstHit(FirstMatching(Patterns("gettrgtDuplex")), Patterns("gettrgtDuplex"))
         IN  i \in 1..Len(buf) /\ buf[i].text = "d"
<1> DEFINE pats == Patterns("gettrgtDuplex")
           p == FirstMatching(pats)
<1>1. Len(pats) = 2 /\ \A j \in 1..2 : \A z \in pats[j] : z[1] = "d"
  BY PatternTexts
<1> HIDE DEF pats
<1>2. p \in 1..2 /\ Hits(pats[p]) # {}
  BY <1>1, FoundFirst DEF pats
<1> HIDE DEF p
<1>3. /\ FirstHit(p, pats) \in 1..Len(buf)
      /\ <<buf[FirstHit(p, pats)].text, buf[FirstHit(p, pats)].val>> \in pats[p]
  BY <1>1, <1>2, Found, Zenon
<1>4. buf[FirstHit(p, pats)].text = "d"
  BY <1>1, <1>2, <1>3
<1> QED
  BY <1>3, <1>4 DEF pats, p

LEMMA ReadSpeed ==
  ASSUME Matching(Patterns("gettrgtSpeed")) # {}, buf \in Seq(Tokens)
  PROVE  LET i == FirstHit(FirstMatching(Patterns("gettrgtSpeed")), Patterns("gettrgtSpeed"))
         IN  i \in 1..Len(buf) /\ buf[i].text = "Mbps"
<1> DEFINE pats == Patterns("gettrgtSpeed")
           p == FirstMatching(pats)
<1>1. Len(pats) = 3 /\ \A j \in 1..3 : \A z \in pats[j] : z[1] = "Mbps"
  BY PatternTexts
<1> HIDE DEF pats
<1>2. p \in 1..3 /\ Hits(pats[p]) # {}
  BY <1>1, FoundFirst DEF pats
<1> HIDE DEF p
<1>3. /\ FirstHit(p, pats) \in 1..Len(buf)
      /\ <<buf[FirstHit(p, pats)].text, buf[FirstHit(p, pats)].val>> \in pats[p]
  BY <1>1, <1>2, Found, Zenon
<1>4. buf[FirstHit(p, pats)].text = "Mbps"
  BY <1>1, <1>2, <1>3
<1> QED
  BY <1>3, <1>4 DEF pats, p

\* Whatever expect matches lies in the buffer.
LEMMA ReadAny ==
  ASSUME NEW pats, Len(pats) \in Nat, Matching(pats) # {}, buf \in Seq(Tokens)
  PROVE  FirstHit(FirstMatching(pats), pats) \in 1..Len(buf)
BY FoundFirst, Found, Zenon

\* An answer leaves the other question alone, and what was concluded before.
LEMMA TakenStep ==
  ASSUME Script = "AdvTrgt", AdvInv, stage = "expect", stage' = "connect",
         UNCHANGED <<row, k, applied, link>>,
         \/ /\ Op = "gettrgtDuplex" /\ UNCHANGED tspeed
            /\ tduplex'.val \in {-1, DuplexSeen(tduplex'.raw)}
            /\ AnswerInv("gettrgtDuplex", "d", "after", row, tduplex', inq', buf')
            /\ AnswerInv("gettrgtSpeed", "Mbps", SpeedPh, row, tspeed, inq', buf')
         \/ /\ Op = "gettrgtSpeed" /\ UNCHANGED tduplex
            /\ AnswerInv("gettrgtDuplex", "d", DuplexPh, row, tduplex, inq', buf')
            /\ row = 1 => AnswerInv("gettrgtSpeed", "Mbps", "after", row, tspeed', inq', buf')
  PROVE  AdvInv'
<1>1. AdvPos /\ row \in Nat /\ k \in Nat /\ Len(Rows) \in Nat /\ AdvPos' /\ InRow' = InRow
  BY BothMove DEF AdvInv, AdvPos, InRow
<1>2. CASE Op = "gettrgtDuplex"
  <2>1. InRow /\ k = 3
    BY <1>1, <1>2, AdvOps
  <2>2. DuplexPh' = "after" /\ SpeedPh' = SpeedPh
    BY <1>1, <2>1 DEF DuplexPh, SpeedPh
  <2>3. DuplexInv' /\ SpeedInv'
    BY <1>2, <2>2 DEF DuplexInv, SpeedInv
  <2>4. RowInv'
    BY <2>1 DEF RowInv
  <2> QED
    BY <1>1, <1>2, <2>3, <2>4 DEF AdvInv, DuplexSeen
<1>3. CASE Op = "gettrgtSpeed"
  <2>1. InRow /\ k = 2
    BY <1>1, <1>3, AdvOps
  <2>2. DuplexPh' = DuplexPh
    BY <1>1, <2>1 DEF DuplexPh
  <2>3. AnswerInv("gettrgtSpeed", "Mbps", SpeedPh', row, tspeed', inq', buf')
    <3>1. CASE row = 1
      <4>1. SpeedPh' = "after"
        BY <1>1, <2>1, <3>1 DEF SpeedPh, InRow
      <4> QED
        BY <1>3, <3>1, <4>1
    <3>2. CASE row # 1
      <4>1. SpeedPh' = "done"
        BY <1>1, <2>1, <3>2 DEF SpeedPh, InRow
      <4>2. inq' \in Seq(Lines) /\ buf' \in Seq(Tokens)
        BY <1>3 DEF AnswerInv
      <4> QED
        BY <4>1, <4>2 DEF AnswerInv
    <3> QED
      BY <3>1, <3>2
  <2>4. DuplexInv' /\ SpeedInv'
    BY <1>3, <2>2, <2>3, Zenon DEF DuplexInv, SpeedInv
  <2>5. RowInv'
    BY <2>1 DEF RowInv
  <2> QED
    BY <1>1, <1>3, <2>4, <2>5 DEF AdvInv
<1> QED
  BY <1>2, <1>3

LEMMA AdvExpectMatch ==
  ASSUME Script = "AdvTrgt", AdvInv, ExpectMatch
  PROVE  AdvInv'
<1> DEFINE i == FirstHit(FirstMatching(Patterns(Op)), Patterns(Op))
<1>1. /\ AnswerInv("gettrgtDuplex", "d", DuplexPh, row, tduplex, inq, buf)
      /\ AnswerInv("gettrgtSpeed", "Mbps", SpeedPh, row, tspeed, inq, buf)
      /\ AdvPos /\ row \in Nat /\ link.speed \in Int /\ link.duplex \in Int
      /\ k \in Nat /\ Len(Rows) \in Nat /\ buf \in Seq(Tokens)
  BY BothMove
<1>2. /\ stage = "expect" /\ stage' = "connect" /\ Op \in Queries
      /\ Matching(Patterns(Op)) # {}
      /\ Take(Op, buf[i].val, buf[i].tag)
      /\ UNCHANGED <<inq, shell, link, applied, row, k>>
      /\ buf' = SubSeq(buf, i + 1, Len(buf))
  BY DEF ExpectMatch, Running, Dropped
<1>3. i \in 1..Len(buf)
  <2>1. Len(Patterns(Op)) \in Nat
    BY <1>2, PatternTexts DEF Queries
  <2> QED
    BY <1>1, <1>2, <2>1, ReadAny
<1>4. /\ Op = "gettrgtDuplex" => buf[i].text = "d"
      /\ Op = "gettrgtSpeed" => buf[i].text = "Mbps"
  BY <1>1, <1>2, ReadDuplex, ReadSpeed, Zenon
<1> HIDE DEF i
<1>5. /\ AnswerInv("gettrgtDuplex", "d", DuplexPh, row, tduplex, inq', buf')
      /\ AnswerInv("gettrgtSpeed", "Mbps", SpeedPh, row, tspeed, inq', buf')
  BY <1>1, <1>2, <1>3, MoveCut
<1>6. CASE Op = "checkHostPingv4"
  <2>1. UNCHANGED <<tspeed, tduplex>>
    BY <1>2, <1>6 DEF Take
  <2> QED
    BY <1>1, <1>2, <1>5, <1>6, <2>1, StayStep
<1>7. CASE Op = "gettrgtDuplex"
  <2>1. InRow /\ k = 3
    BY <1>1, <1>7, AdvOps
  <2>2. DuplexPh = "asking"
    BY <1>2, <2>1 DEF DuplexPh
  <2>3. tduplex' = Answer(DuplexSeen(buf[i].val), buf[i].val, buf[i].tag) /\ UNCHANGED tspeed
    BY <1>2, <1>7 DEF Take
  <2>4. /\ tduplex'.tag = buf[i].tag
        /\ tduplex'.val \in {-1, DuplexSeen(tduplex'.raw)}
    BY <2>3 DEF Answer
  <2>5. AnswerInv("gettrgtDuplex", "d", "after", row, tduplex', inq', buf')
    BY <1>1, <1>2, <1>3, <1>4, <1>7, <2>2, <2>4, MatchStep, Zenon
  <2> QED
    BY <1>2, <1>5, <1>7, <2>3, <2>4, <2>5, TakenStep, Zenon
<1>8. CASE Op = "gettrgtSpeed"
  <2>1. InRow /\ k = 2
    BY <1>1, <1>8, AdvOps
  <2>2. row = 1 => SpeedPh = "asking"
    BY <1>1, <1>2, <2>1 DEF SpeedPh, InRow
  <2>3. tspeed' = Answer(buf[i].val, buf[i].val, buf[i].tag) /\ UNCHANGED tduplex
    BY <1>2, <1>8 DEF Take
  <2>4. tspeed'.tag = buf[i].tag
    BY <2>3 DEF Answer
  <2>5. row = 1 => AnswerInv("gettrgtSpeed", "Mbps", "after", row, tspeed', inq', buf')
    BY <1>1, <1>2, <1>3, <1>4, <1>8, <2>2, <2>4, MatchStep, Zenon
  <2> QED
    BY <1>2, <1>5, <1>8, <2>3, <2>5, TakenStep
<1> QED
  BY <1>2, <1>6, <1>7, <1>8 DEF Queries

LEMMA AdvExpectTimeout ==
  ASSUME Script = "AdvTrgt", AdvInv, ExpectTimeout
  PROVE  AdvInv'
<1>1. /\ AnswerInv("gettrgtDuplex", "d", DuplexPh, row, tduplex, inq, buf)
      /\ AnswerInv("gettrgtSpeed", "Mbps", SpeedPh, row, tspeed, inq, buf)
      /\ AdvPos /\ row \in Nat /\ link.speed \in Int /\ link.duplex \in Int
      /\ k \in Nat /\ Len(Rows) \in Nat
  BY BothMove
<1>2. /\ stage = "expect" /\ stage' = "connect" /\ Op \in Queries /\ TakeNothing(Op)
      /\ UNCHANGED <<inq, buf, shell, link, applied, row, k>>
  BY DEF ExpectTimeout, Running, console
<1>3. CASE Op = "checkHostPingv4"
  <2>1. UNCHANGED <<tspeed, tduplex>>
    BY <1>2, <1>3 DEF TakeNothing
  <2> QED
    BY <1>1, <1>2, <1>3, <2>1, StayStep
<1>4. CASE Op = "gettrgtDuplex"
  <2>1. InRow /\ k = 3
    BY <1>1, <1>4, AdvOps
  <2>2. DuplexPh = "asking"
    BY <1>2, <2>1 DEF DuplexPh
  <2>3. tduplex'.val = -1 /\ UNCHANGED tspeed
    BY <1>2, <1>4 DEF TakeNothing, NoAnswer, Answer
  <2>4. AnswerInv("gettrgtDuplex", "d", "after", row, tduplex', inq, buf)
    BY <1>1, <2>2, <2>3, TimeoutStep
  <2> QED
    BY <1>1, <1>2, <1>4, <2>3, <2>4, TakenStep
<1>5. CASE Op = "gettrgtSpeed"
  <2>1. InRow /\ k = 2
    BY <1>1, <1>5, AdvOps
  <2>2. row = 1 => SpeedPh = "asking"
    BY <1>1, <1>2, <2>1 DEF SpeedPh, InRow
  <2>3. tspeed'.val = -1 /\ UNCHANGED tduplex
    BY <1>2, <1>5 DEF TakeNothing, NoAnswer, Answer
  <2>4. row = 1 => AnswerInv("gettrgtSpeed", "Mbps", "after", row, tspeed', inq, buf)
    BY <1>1, <2>2, <2>3, TimeoutStep
  <2> QED
    BY <1>1, <1>2, <1>5, <2>3, <2>4, TakenStep
<1> QED
  BY <1>2, <1>3, <1>4, <1>5 DEF Queries

LEMMA AdvHostSet ==
  ASSUME Script = "AdvTrgt", AdvInv, HostSet
  PROVE  AdvInv'
<1>1. AdvPos
  BY BothMove
<1>2. /\ Op \in {"sethostAdv", "sethostLink", "sethostLinkAuto"} /\ link' = Down /\ Finish
      /\ applied' = (IF Op = "sethostLinkAuto" THEN applied ELSE row)
      /\ UNCHANGED <<inq, buf, tspeed, tduplex>>
  BY DEF HostSet, Running, console, answers
<1>3. Op \in {"sethostAdv", "sethostLinkAuto"}
  BY <1>1, <1>2, AdvOps
<1>4. link'.speed \in Int /\ link'.duplex \in Int
  BY <1>2 DEF Down
<1>5. applied' = IF Op = "sethostAdv" THEN row ELSE applied
  BY <1>2, <1>3
<1>6. Op # "exit" /\ Op # "verdict" /\ Op \notin {"gettrgtDuplex", "gettrgtSpeed"}
  BY <1>3
<1> QED
  BY <1>2, <1>4, <1>5, <1>6, FinishStep

\* Neither answer of the host is asked for.
LEMMA AdvNoHostQuery ==
  ASSUME Script = "AdvTrgt", AdvInv
  PROVE  ~GetHostSpeed /\ ~GetHostDuplex
<1>1. AdvPos
  BY BothMove
<1>2. Op # "gethostSpeed" /\ Op # "gethostDuplex"
  BY <1>1, AdvOps
<1> QED
  BY <1>2 DEF GetHostSpeed, GetHostDuplex, Running

LEMMA AdvHostPing ==
  ASSUME Script = "AdvTrgt", AdvInv, HostPing
  PROVE  AdvInv'
<1>1. /\ Op = "checkTrgtPingv4" /\ stage' = "connect"
      /\ UNCHANGED <<inq, buf, link, applied, row, k, tspeed, tduplex>>
  BY DEF HostPing, Running, console
<1> QED
  BY <1>1, BothMove, StayStep

LEMMA AdvConnect ==
  ASSUME Script = "AdvTrgt", AdvInv, Connect
  PROVE  AdvInv'
<1>1. /\ stage = "connect" \/ Op = "connect"
      /\ stage' = "await" /\ inq' = Append(inq, Line("return", row))
      /\ UNCHANGED <<buf, link, applied, row, k, tspeed, tduplex>>
  BY DEF Connect, Running, answers
<1>2. Line("return", row) \in Lines /\ Line("return", row).cmd = "return"
  BY BothMove DEF Line, Lines
<1>3. /\ AnswerInv("gettrgtDuplex", "d", DuplexPh, row, tduplex, inq', buf')
      /\ AnswerInv("gettrgtSpeed", "Mbps", SpeedPh, row, tspeed, inq', buf')
  BY <1>1, <1>2, BothMove, MoveType
<1> QED
  BY <1>1, <1>3, BothMove, StayStep

LEMMA AdvConnectLogin ==
  ASSUME Script = "AdvTrgt", AdvInv, ConnectLogin
  PROVE  AdvInv'
<1> DEFINE i == FirstHit(FirstMatching(ConnectPatterns), ConnectPatterns)
<1>1. /\ stage = "await" /\ stage' = "await" /\ Matching(ConnectPatterns) # {}
      /\ inq' = inq \o <<Line("root", row), Line("return", row)>>
      /\ buf' = SubSeq(buf, i + 1, Len(buf))
      /\ UNCHANGED <<link, applied, row, k, tspeed, tduplex>>
  BY DEF ConnectLogin, Running, Dropped, script, answers
<1>2. i \in 1..Len(buf)
  <2>1. Len(ConnectPatterns) \in Nat
    BY DEF ConnectPatterns
  <2> QED
    BY <1>1, <2>1, BothMove, ReadAny, Zenon
<1> HIDE DEF i
<1>3. /\ AnswerInv("gettrgtDuplex", "d", DuplexPh, row, tduplex, inq', buf')
      /\ AnswerInv("gettrgtSpeed", "Mbps", SpeedPh, row, tspeed, inq', buf')
  BY <1>1, <1>2, BothMove, LoginStep, Zenon
<1> QED
  BY <1>1, <1>3, BothMove, StayStep

LEMMA AdvConnectPrompt ==
  ASSUME Script = "AdvTrgt", AdvInv, ConnectPrompt
  PROVE  AdvInv'
<1> DEFINE i == FirstHit(FirstMatching(ConnectPatterns), ConnectPatterns)
<1>1. /\ stage = "await" /\ Matching(ConnectPatterns) # {} /\ Finish /\ Op \in ConnectOps
      /\ buf' = SubSeq(buf, i + 1, Len(buf))
      /\ UNCHANGED <<inq, link, applied, tspeed, tduplex>>
  BY DEF ConnectPrompt, Running, Dropped, answers
<1>2. i \in 1..Len(buf)
  <2>1. Len(ConnectPatterns) \in Nat
    BY DEF ConnectPatterns
  <2> QED
    BY <1>1, <2>1, BothMove, ReadAny
<1> HIDE DEF i
<1>3. Op \notin {"exit", "verdict", "sethostAdv"}
  BY <1>1 DEF ConnectOps, SetCommands, Queries
<1> QED
  BY <1>1, <1>2, <1>3, BothMove, FinishStep

LEMMA AdvConnectTimeout ==
  ASSUME Script = "AdvTrgt", AdvInv, ConnectTimeout
  PROVE  AdvInv'
<1>1. /\ stage = "await" /\ Finish /\ Op \in ConnectOps
      /\ UNCHANGED <<inq, buf, link, applied, tspeed, tduplex>>
  BY DEF ConnectTimeout, Running, console, answers
<1>2. Op \notin {"exit", "verdict", "sethostAdv"}
  BY <1>1 DEF ConnectOps, SetCommands, Queries
<1> QED
  BY <1>1, <1>2, BothMove, FinishStep

LEMMA AdvVerdict ==
  ASSUME Script = "AdvTrgt", AdvInv, Verdict
  PROVE  AdvInv'
<1>1. /\ Op = "verdict" /\ ExitIf(AdvFails(Rows[row]))
      /\ UNCHANGED <<inq, buf, link, applied, tspeed, tduplex>>
  BY DEF Verdict, Running, console, answers, Forces
<1>2. CASE AdvFails(Rows[row])
  <2>1. UNCHANGED <<row, k, stage>>
    BY <1>1, <1>2 DEF ExitIf
  <2> QED
    BY <1>1, <2>1, BothMove, StayStep
<1>3. CASE ~AdvFails(Rows[row])
  <2>1. Finish
    BY <1>1, <1>3 DEF ExitIf
  <2>2. /\ tduplex.val = Rows[row].duplex
        /\ row = 1 /\ Rows[1].speed = 1000 /\ s1000Support = 1 => tspeed.val = 1000
    <3>1. Seen.duplex = tduplex /\ Seen.speed = tspeed
      BY DEF Seen
    <3>2. /\ tduplex.val = Rows[row].duplex
          /\ ~(tspeed.val # Rows[row].speed /\ Rows[row].speed = 1000 /\ s1000Support = 1)
      BY <1>3, <3>1 DEF AdvFails
    <3> QED
      BY <3>2
  <2> QED
    BY <1>1, <2>1, <2>2, BothMove, FinishStep, Zenon
<1> QED
  BY <1>2, <1>3

LEMMA AdvCheckPing ==
  ASSUME Script = "AdvTrgt", AdvInv, CheckPing
  PROVE  AdvInv'
<1>1. /\ Op = "checkrr" /\ ExitIf(rr = 0)
      /\ UNCHANGED <<inq, buf, link, applied, tspeed, tduplex>>
  BY DEF CheckPing, Running, console, answers
<1>2. CASE rr = 0
  <2>1. UNCHANGED <<row, k, stage>>
    BY <1>1, <1>2 DEF ExitIf
  <2> QED
    BY <1>1, <2>1, BothMove, StayStep
<1>3. CASE rr # 0
  <2>1. Finish
    BY <1>1, <1>3 DEF ExitIf
  <2> QED
    BY <1>1, <2>1, BothMove, FinishStep
<1> QED
  BY <1>2, <1>3

\* What the link may be.
LEMMA LinkTypes ==
  ASSUME NEW l \in Links
  PROVE  l.speed \in Int /\ l.duplex \in Int
<1>1. CASE l = Down
  BY <1>1 DEF Down
<1>2. CASE l \in [speed : Speeds, duplex : {0, 1}]
  <2>1. l.speed \in Speeds
    BY <1>2
  <2>2. l.duplex \in {0, 1}
    BY <1>2
  <2>3. Speeds \subseteq Int
    BY LinkTestAssumption
  <2>4. l.speed \in Int
    BY <2>1, <2>3, Zenon
  <2>5. l.duplex \in Int
    BY <2>2
  <2> QED
    BY <2>4, <2>5
<1> QED
  BY <1>1, <1>2 DEF Links

LEMMA AdvRest ==
  ASSUME Script = "AdvTrgt", AdvInv, Exit \/ LinkChange
  PROVE  AdvInv'
<1>1. /\ UNCHANGED <<inq, buf, applied, row, k, stage, tspeed, tduplex>>
      /\ link' = link \/ link' \in Links
  BY DEF Exit, LinkChange, console, script, answers
<1>2. link'.speed \in Int /\ link'.duplex \in Int
  BY <1>1, LinkTypes, BothMove
<1> QED
  BY <1>1, <1>2, BothMove, StayStep

\* An answer the board prints is tagged by the row in force.
LEMMA AdvBoardRun ==
  ASSUME Script = "AdvTrgt", AdvInv, BoardRun
  PROVE  AdvInv'
<1>1. /\ AnswerInv("gettrgtDuplex", "d", DuplexPh, row, tduplex, inq, buf)
      /\ AnswerInv("gettrgtSpeed", "Mbps", SpeedPh, row, tspeed, inq, buf)
      /\ AdvPos /\ row \in Nat /\ link.speed \in Int /\ link.duplex \in Int
      /\ applied \in Nat /\ k \in Nat /\ Len(Rows) \in Nat
      /\ inq \in Seq(Lines) /\ buf \in Seq(Tokens)
  BY BothMove
<1> DEFINE cmd == Head(inq).cmd
<1>2. inq # <<>> /\ UNCHANGED <<row, k, stage, tspeed, tduplex>>
  BY DEF BoardRun, script, answers
<1>3. cmd \in {"settrgtLinkAuto", "gettrgtSpeed", "gettrgtDuplex", "checkHostPingv4", "return",
               "root"}
  <2>1. Head(inq) \in Lines
    BY <1>1, <1>2
  <2> QED
    BY <2>1 DEF Lines
<1>4. link' \in {Down, link} /\ applied' = applied
  BY <1>3 DEF BoardRun, SetCommands
<1>5. link'.speed \in Int /\ link'.duplex \in Int
  BY <1>1, <1>4 DEF Down
<1>6. PICK loss \in {0, 1, 2} : BoardExec(
        CASE cmd = "gettrgtSpeed" -> <<Token("Mbps", link.speed, applied)>>
          [] cmd = "gettrgtDuplex" -> <<Token("d", link.duplex, applied)>>
          [] cmd = "checkHostPingv4" -> <<Token("ping", loss, applied)>>
          [] OTHER -> <<>>)
  BY DEF BoardRun
<1> DEFINE out == CASE cmd = "gettrgtSpeed" -> <<Token("Mbps", link.speed, applied)>>
                    [] cmd = "gettrgtDuplex" -> <<Token("d", link.duplex, applied)>>
                    [] cmd = "checkHostPingv4" -> <<Token("ping", loss, applied)>>
                    [] OTHER -> <<>>
<1>7. /\ inq' = Tail(inq)
      /\ buf' \in {Append(buf, Prompt), Append(buf, LoginPrompt), Append(buf \o out, Prompt)}
  BY <1>6 DEF BoardExec
<1>8. /\ DuplexPh = "asking" => applied = row
      /\ SpeedPh = "asking" => applied = row
  BY <1>1, AdvCode DEF AdvInv, DuplexPh, SpeedPh, InRow
<1>9. \/ out = <<>>
      \/ \E p \in Tokens : /\ out = <<p>> /\ p.tag = applied
                           /\ p.text = "d" <=> cmd = "gettrgtDuplex"
                           /\ p.text = "Mbps" <=> cmd = "gettrgtSpeed"
  <2>1. /\ Token("Mbps", link.speed, applied) \in Tokens
        /\ Token("d", link.duplex, applied) \in Tokens
        /\ Token("ping", loss, applied) \in Tokens
    <3>1. link.speed \in Int /\ link.duplex \in Int /\ loss \in Int /\ applied \in Nat
      BY <1>1
    <3> HIDE DEF out
    <3>2. ASSUME NEW t \in {"Mbps", "d", "ping"}, NEW v \in Int, NEW g \in Nat
          PROVE  Token(t, v, g) \in Tokens
      BY DEF Token, Tokens
    <3> QED
      BY <3>1, <3>2
  <2>2. CASE cmd = "gettrgtSpeed"
    <3>1. out = <<Token("Mbps", link.speed, applied)>>
      BY <2>2
    <3> QED
      BY <2>1, <2>2, <3>1 DEF Token
  <2>3. CASE cmd = "gettrgtDuplex"
    <3>1. out = <<Token("d", link.duplex, applied)>>
      BY <2>3
    <3> QED
      BY <2>1, <2>3, <3>1 DEF Token
  <2>4. CASE cmd = "checkHostPingv4"
    <3>1. out = <<Token("ping", loss, applied)>>
      BY <2>4
    <3> QED
      BY <2>1, <2>4, <3>1 DEF Token
  <2>5. CASE cmd \notin {"gettrgtSpeed", "gettrgtDuplex", "checkHostPingv4"}
    BY <2>5
  <2> QED
    BY <2>2, <2>3, <2>4, <2>5
<1> HIDE DEF out
<1>10. AnswerInv("gettrgtDuplex", "d", DuplexPh, row, tduplex, inq', buf')
  <2>1. \/ out = <<>>
        \/ \E p \in Tokens : /\ out = <<p>> /\ (p.text = "d" <=> Head(inq).cmd = "gettrgtDuplex")
                             /\ p.text = "d" /\ DuplexPh = "asking" => p.tag = row
    BY <1>8, <1>9
  <2>2. DuplexPh \in {"before", "asking", "after", "accepted", "done"}
    BY Phases
  <2> QED
    BY <1>1, <1>2, <1>7, <2>1, <2>2, BoardStep, Zenon
<1>11. AnswerInv("gettrgtSpeed", "Mbps", SpeedPh, row, tspeed, inq', buf')
  <2>1. \/ out = <<>>
        \/ \E p \in Tokens : /\ out = <<p>> /\ (p.text = "Mbps" <=> Head(inq).cmd = "gettrgtSpeed")
                             /\ p.text = "Mbps" /\ SpeedPh = "asking" => p.tag = row
    BY <1>8, <1>9
  <2>2. SpeedPh \in {"before", "asking", "after", "accepted", "done"}
    BY Phases
  <2> QED
    BY <1>1, <1>2, <1>7, <2>1, <2>2, BoardStep, Zenon
<1>12. stage' \in {"start", "expect", "connect", "await"}
  BY <1>2, BothMove
<1> QED
  BY <1>2, <1>4, <1>5, <1>10, <1>11, <1>12, StayStep

LEMMA AdvUnchanged ==
  ASSUME AdvInv, UNCHANGED vars
  PROVE  AdvInv'
<1>1. UNCHANGED <<inq, buf, link, applied, row, k, stage, tspeed, tduplex>>
  BY DEF vars, console, script, answers
<1>2. AdvPos' = AdvPos /\ InRow' = InRow /\ DuplexPh' = DuplexPh /\ SpeedPh' = SpeedPh
  BY <1>1 DEF AdvPos, InRow, DuplexPh, SpeedPh
<1>3. DuplexInv' = DuplexInv /\ SpeedInv' = SpeedInv
  BY <1>1, <1>2 DEF DuplexInv, SpeedInv
<1>4. RowInv' = RowInv
  BY <1>1, <1>2 DEF RowInv
<1> QED
  BY <1>1, <1>2, <1>3, <1>4 DEF AdvInv

LEMMA AdvStep ==
  ASSUME Script = "AdvTrgt", AdvInv, Next
  PROVE  AdvInv'
BY AdvSend, AdvExpectMatch, AdvExpectTimeout, AdvHostSet, AdvNoHostQuery, AdvHostPing, AdvConnect,
   AdvConnectLogin, AdvConnectPrompt, AdvConnectTimeout, AdvVerdict, AdvCheckPing, AdvRest,
   AdvBoardRun
   DEF Next, Host

LEMMA AdvStart ==
  ASSUME Script = "AdvTrgt", Init
  PROVE  AdvInv
<1>1. /\ inq = <<>> /\ buf = <<>> /\ link \in Links /\ applied = 0 /\ row = 0 /\ k = 1
      /\ stage = "start" /\ tspeed = NoAnswer /\ tduplex = NoAnswer
  BY DEF Init
<1>a. Len(Rows) \in Nat /\ Len(Code(0)) = 3
  BY LinkTestAssumption DEF Code, LinkAuto
<1>2. AdvPos /\ ~InRow
  BY <1>1, <1>a DEF AdvPos, InRow
<1>3. DuplexPh = "before" /\ SpeedPh \in {"before", "done"}
  BY <1>1, <1>2 DEF DuplexPh, SpeedPh
<1>4. DuplexInv /\ SpeedInv
  BY <1>1, <1>3 DEF DuplexInv, SpeedInv, AnswerInv, NoneOut
<1>5. tduplex.val = -1
  BY <1>1 DEF NoAnswer, Answer
<1>6. link.speed \in Int /\ link.duplex \in Int
  BY <1>1, LinkTypes
<1> QED
  BY <1>1, <1>2, <1>4, <1>5, <1>6 DEF AdvInv, RowInv

\* Past the verdict.
LEMMA AdvAccepted ==
  ASSUME Script = "AdvTrgt", AdvInv, NEW i \in 1..Len(Rows), Accepted(i)
  PROVE  row = i /\ InRow /\ k > 4 /\ DuplexPh = "accepted"
<1>1. AdvPos /\ k \in Nat /\ row \in Nat /\ Len(Rows) \in Nat
  BY BothMove
<1>2. PICK v \in 1..(k - 1) : Code(i)[v] = "verdict"
  BY DEF Accepted
<1>3. row = i /\ InRow
  BY DEF Accepted, InRow
<1>4. Len(Code(row)) = 8 /\ k \in 1..8
  BY <1>1, <1>3, AdvCode, Zenon DEF AdvPos
<1>5. v \in 1..8
  BY <1>4
<1>6. v = 4
  BY <1>1, <1>2, <1>3, <1>5, AdvCode
<1>7. k > 4
  BY <1>1, <1>6
<1> QED
  BY <1>1, <1>3, <1>7 DEF DuplexPh

LEMMA AdvRowDuplex ==
  ASSUME Script = "AdvTrgt", AdvInv
  PROVE  DuplexOfThisRow
<1> SUFFICES ASSUME NEW i \in 1..Len(Rows), Accepted(i)
             PROVE  Seen.duplex.tag = i /\ Seen.duplex.val = Rows[i].duplex
  BY DEF DuplexOfThisRow
<1>1. row = i /\ InRow /\ k > 4 /\ DuplexPh = "accepted"
  BY AdvAccepted
<1>2. tduplex.tag = i /\ tduplex.val = Rows[i].duplex
  BY <1>1 DEF AdvInv, DuplexInv, AnswerInv, RowInv
<1> QED
  BY <1>2 DEF Seen

LEMMA AdvReadsGigabit ==
  ASSUME Script = "AdvTrgt", AdvInv, \A i \in 2..Len(Rows) : Rows[i].speed # 1000
  PROVE  GigabitIsRead
<1> SUFFICES ASSUME NEW i \in 1..Len(Rows), Accepted(i)
             PROVE  /\ Rows[i].speed = 1000 /\ s1000Support = 1 =>
                         Seen.speed.val = 1000 /\ Seen.speed.tag = i
                    /\ Seen.duplex.raw = -1 => Rows[i].duplex = 1
  BY DEF GigabitIsRead
<1>1. row = i /\ InRow /\ k > 4 /\ Len(Rows) \in Nat /\ k \in Nat
  BY AdvAccepted, BothMove
<1>2. ASSUME Rows[i].speed = 1000, s1000Support = 1
      PROVE  tspeed.val = 1000 /\ tspeed.tag = i
  <2>1. i = 1
    BY <1>1, <1>2
  <2>2. tspeed.val = 1000
    BY <1>1, <1>2, <2>1 DEF AdvInv, RowInv
  <2>3. SpeedPh = "after"
    BY <1>1, <2>1 DEF SpeedPh
  <2>4. tspeed.val = -1 \/ tspeed.tag = row
    BY <2>3 DEF AdvInv, SpeedInv, AnswerInv
  <2> QED
    BY <1>1, <2>2, <2>4
<1>3. ASSUME tduplex.raw = -1
      PROVE  Rows[i].duplex = 1
  <2>1. Rows[i].duplex \in {0, 1}
    BY RowTypes
  <2>2. tduplex.val = Rows[i].duplex
    BY <1>1 DEF AdvInv, RowInv
  <2>3. tduplex.val = -1 \/ tduplex.val = 1
    BY <1>3 DEF AdvInv, DuplexSeen
  <2> QED
    BY <2>1, <2>2, <2>3
<1> QED
  BY <1>2, <1>3 DEF Seen

\* Whatever the rows, an accepted duplex of AdvTrgt was found while the row's
\* own setting was in force, and is the row's: a board that answers late, or
\* a link that goes up and down, cannot make the script take the answer of
\* another row (emactestllinkAdvTrgt.exp:57-62).
THEOREM DuplexOfThisRowThm ==
  ASSUME Script = "AdvTrgt"
  PROVE  Spec => []DuplexOfThisRow
<1>1. Init => AdvInv
  BY AdvStart
<1>2. AdvInv /\ [Next]_vars => AdvInv'
  BY AdvUnchanged, AdvStep
<1>3. AdvInv => DuplexOfThisRow
  BY AdvRowDuplex
<1> QED
  BY <1>1, <1>2, <1>3, PTL DEF Spec

\* Where only the first row expects 1000Mbps, as in the list of the script,
\* AdvTrgt accepts that row on a board that supports it only with the 1000Mbps
\* it read under the row's own setting, and takes a link that is down for full
\* duplex only (emactestllinkAdvTrgt.exp:59-71).
THEOREM GigabitIsReadThm ==
  ASSUME Script = "AdvTrgt", \A i \in 2..Len(Rows) : Rows[i].speed # 1000
  PROVE  Spec => []GigabitIsRead
<1>1. Init => AdvInv
  BY AdvStart
<1>2. AdvInv /\ [Next]_vars => AdvInv'
  BY AdvUnchanged, AdvStep
<1>3. AdvInv => GigabitIsRead
  BY AdvReadsGigabit
<1> QED
  BY <1>1, <1>2, <1>3, PTL DEF Spec
-----------------------------------------------------------------------------
(* emactestllinkForceTrgt.exp.                                              *)

ForcePos ==
  /\ Script = "ForceTrgt" /\ row \in 0..(Len(Rows) + 1) /\ k \in 1..Len(Code(row))
  /\ stage \in {"start", "expect", "connect", "await"}
Tried == row \in 1..Len(Rows) /\ ~Skipped(Rows[row])

\* The place in a row that is tried relative to its gettrgtSpeed.
ForcePh ==
  IF ~Tried \/ k < 6 \/ (k = 6 /\ stage = "start") THEN "before"
  ELSE IF k = 6 /\ stage = "expect" THEN "asking"
  ELSE IF k <= 8 THEN "after" ELSE "accepted"

ForceInv ==
  /\ ForcePos /\ applied \in Nat /\ link.speed \in Int /\ link.duplex \in Int
  /\ Tried /\ k >= 4 => applied = row
  /\ Tried /\ k > 8 => tspeed.val = Rows[row].speed
  /\ AnswerInv("gettrgtSpeed", "Mbps", ForcePh, row, tspeed, inq, buf)

LEMMA ForceCode ==
  ASSUME ForcePos
  PROVE  LET c == Code(row) IN
         /\ Len(Rows) \in Nat
         /\ Tried => /\ Len(c) = 12 /\ c[1] = "sethostLinkAuto" /\ c[2] = "settrgtLinkAuto"
                     /\ c[3] = "sethostLink" /\ c[4] = "gethostSpeed" /\ c[5] = "gethostDuplex"
                     /\ c[6] = "gettrgtSpeed" /\ c[7] = "gettrgtDuplex" /\ c[8] = "verdict"
                     /\ c[9] = "checkHostPingv4" /\ c[10] = "checkrr"
                     /\ c[11] = "checkTrgtPingv4" /\ c[12] = "checkrr"
         /\ row \in 1..Len(Rows) /\ ~Tried =>
              Len(c) = 2 /\ c[1] = "sethostLinkAuto" /\ c[2] = "settrgtLinkAuto"
         /\ row = 0 => /\ Len(c) = 3 /\ c[1] = "connect"
                       /\ c[2] = "sethostLinkAuto" /\ c[3] = "settrgtLinkAuto"
         /\ row = Len(Rows) + 1 => Len(c) = 1 /\ c[1] = "exit"
<1> DEFINE c == Code(row)
<1>1. Len(Rows) \in Nat
  BY LinkTestAssumption
<1>2. row \in 1..Len(Rows) => c = Body(Rows[row])
  BY <1>1 DEF Code
<1>3. Tried => c = <<"sethostLinkAuto", "settrgtLinkAuto">> \o <<"sethostLink">>
                   \o <<"gethostSpeed", "gethostDuplex", "gettrgtSpeed", "gettrgtDuplex">>
                   \o <<"verdict">>
                   \o <<"checkHostPingv4", "checkrr", "checkTrgtPingv4", "checkrr">>
  BY <1>2, Zenon DEF ForcePos, Tried, Body, LinkAuto, GetBoth, Pings, Forces
<1>4. row \in 1..Len(Rows) /\ ~Tried => c = <<"sethostLinkAuto", "settrgtLinkAuto">>
  BY <1>2 DEF ForcePos, Tried, Body, LinkAuto, Forces
<1>5. row = 0 => c = <<"connect">> \o <<"sethostLinkAuto", "settrgtLinkAuto">>
  BY DEF Code, LinkAuto
<1>6. row = Len(Rows) + 1 => c = <<"exit">>
  BY <1>1 DEF ForcePos, Code
<1> HIDE DEF c
<1>7. Tried => /\ Len(c) = 12 /\ c[1] = "sethostLinkAuto" /\ c[2] = "settrgtLinkAuto"
               /\ c[3] = "sethostLink" /\ c[4] = "gethostSpeed" /\ c[5] = "gethostDuplex"
               /\ c[6] = "gettrgtSpeed" /\ c[7] = "gettrgtDuplex" /\ c[8] = "verdict"
               /\ c[9] = "checkHostPingv4" /\ c[10] = "checkrr"
               /\ c[11] = "checkTrgtPingv4" /\ c[12] = "checkrr"
  BY <1>3
<1>8. row \in 1..Len(Rows) /\ ~Tried =>
        Len(c) = 2 /\ c[1] = "sethostLinkAuto" /\ c[2] = "settrgtLinkAuto"
  BY <1>4
<1>9. row = 0 => /\ Len(c) = 3 /\ c[1] = "connect"
                 /\ c[2] = "sethostLinkAuto" /\ c[3] = "settrgtLinkAuto"
  BY <1>5
<1>10. row = Len(Rows) + 1 => Len(c) = 1 /\ c[1] = "exit"
  BY <1>6
<1> QED
  BY <1>1, <1>7, <1>8, <1>9, <1>10 DEF c

LEMMA ForceOps ==
  ASSUME ForcePos
  PROVE  /\ Op = "sethostLink" <=> Tried /\ k = 3
         /\ Op = "gettrgtSpeed" <=> Tried /\ k = 6
         /\ Op = "verdict" <=> Tried /\ k = 8
         /\ Op = "exit" <=> row = Len(Rows) + 1
         /\ Op \in {"sethostLink", "gethostSpeed", "gethostDuplex", "gettrgtSpeed",
                           "gettrgtDuplex", "verdict", "checkHostPingv4", "checkrr",
                           "checkTrgtPingv4", "connect", "sethostLinkAuto", "settrgtLinkAuto",
                           "exit"}
<1>1. Len(Rows) \in Nat /\ k \in 1..Len(Code(row)) /\ row \in 0..(Len(Rows) + 1)
  BY ForceCode DEF ForcePos
<1>2. CASE Tried
  <2>1. k \in 1..12 /\ row # Len(Rows) + 1
    BY <1>1, <1>2, ForceCode, Zenon DEF Tried
  <2> QED
    BY <1>2, <2>1, ForceCode DEF Op
<1>3. CASE row = 0
  <2>1. k \in 1..3 /\ ~Tried /\ row # Len(Rows) + 1
    BY <1>1, <1>3, ForceCode, Zenon DEF Tried
  <2> QED
    BY <1>3, <2>1, ForceCode DEF Op
<1>4. CASE row = Len(Rows) + 1
  <2>1. k \in 1..1 /\ ~Tried
    BY <1>1, <1>4, ForceCode, Zenon DEF Tried
  <2> QED
    BY <1>4, <2>1, ForceCode DEF Op
<1>5. CASE row \in 1..Len(Rows) /\ ~Tried
  <2>1. k \in 1..2 /\ row # Len(Rows) + 1
    BY <1>1, <1>5, ForceCode, Zenon
  <2> QED
    BY <1>5, <2>1, ForceCode DEF Op
<1> QED
  BY <1>1, <1>2, <1>3, <1>4, <1>5

\* No row is empty.
LEMMA ForceLength ==
  ASSUME Script = "ForceTrgt", NEW r \in 1..(Len(Rows) + 1)
  PROVE  Len(Code(r)) \in Nat /\ Len(Code(r)) >= 1
<1>1. Len(Rows) \in Nat
  BY LinkTestAssumption
<1>2. CASE r = Len(Rows) + 1
  <2>1. Code(r) = <<"exit">>
    BY <1>1, <1>2 DEF Code
  <2> QED
    BY <2>1
<1>3. CASE r # Len(Rows) + 1
  <2>1. Code(r) = Body(Rows[r])
    BY <1>1, <1>3 DEF Code
  <2>2. CASE Skipped(Rows[r])
    <3>1. Code(r) = <<"sethostLinkAuto", "settrgtLinkAuto">>
      BY <2>1, <2>2 DEF Body, LinkAuto, Forces
    <3> QED
      BY <3>1
  <2>3. CASE ~Skipped(Rows[r])
    <3>1. Code(r) = <<"sethostLinkAuto", "settrgtLinkAuto">> \o <<"sethostLink">>
            \o <<"gethostSpeed", "gethostDuplex", "gettrgtSpeed", "gettrgtDuplex">>
            \o <<"verdict">> \o <<"checkHostPingv4", "checkrr", "checkTrgtPingv4", "checkrr">>
      BY <2>1, <2>3 DEF Body, LinkAuto, GetBoth, Pings, Forces
    <3> QED
      BY <3>1
  <2> QED
    BY <2>2, <2>3
<1> QED
  BY <1>2, <1>3

\* Finish goes to the next place.
LEMMA ForceFinish ==
  ASSUME ForcePos, Finish, Op # "exit"
  PROVE  /\ ForcePos' /\ Len(Rows) \in Nat /\ k \in Nat /\ row \in Nat
         /\ k' \in Nat /\ row' \in Nat /\ stage' = "start"
         /\ \/ row' = row /\ k' = k + 1 /\ (Tried => k < 12)
            \/ row' = row + 1 /\ k' = 1 /\ (Tried => k = 12)
<1>1. /\ Len(Rows) \in Nat /\ k \in 1..Len(Code(row))
      /\ row \in 0..(Len(Rows) + 1) /\ Len(Code(row)) \in Nat
      /\ row # Len(Rows) + 1
  <2>1. Tried \/ row = 0 \/ row = Len(Rows) + 1 \/ (row \in 1..Len(Rows) /\ ~Tried)
    BY ForceCode DEF ForcePos
  <2> QED
    BY <2>1, ForceCode, ForceOps DEF ForcePos
<1>2. CASE k < Len(Code(row))
  <2>1. row' = row /\ k' = k + 1 /\ stage' = "start"
    BY <1>2 DEF Finish
  <2>2. k' \in 1..Len(Code(row'))
    BY <1>1, <1>2, <2>1
  <2>3. ForcePos'
    BY <1>1, <2>1, <2>2 DEF ForcePos
  <2>4. Tried => k < 12
    BY <1>2, ForceCode, Zenon
  <2>5. k \in Nat /\ row \in Nat /\ k' \in Nat /\ row' \in Nat
    BY <1>1, <2>1
  <2> QED
    BY <1>1, <2>1, <2>3, <2>4, <2>5
<1>3. CASE ~(k < Len(Code(row)))
  <2>1. row' = row + 1 /\ k' = 1 /\ stage' = "start"
    BY <1>3 DEF Finish
  <2>2. Len(Code(row + 1)) \in Nat /\ Len(Code(row + 1)) >= 1
    BY <1>1, ForceLength DEF ForcePos
  <2>3. ForcePos'
    BY <1>1, <2>1, <2>2 DEF ForcePos
  <2>a. Tried => Len(Code(row)) = 12
    BY ForceCode
  <2>b. k \in 1..Len(Code(row))
    BY DEF ForcePos
  <2>4. ASSUME Tried PROVE k = 12
    <3>1. Len(Code(row)) = 12
      BY <2>4, <2>a
    <3>2. k \in 1..12 /\ ~(k < 12)
      BY <1>3, <2>b, <3>1
    <3> QED
      BY <3>2
  <2>5. k \in Nat /\ row \in Nat /\ k' \in Nat /\ row' \in Nat
    BY <1>1, <2>1
  <2> QED
    BY <1>1, <2>1, <2>3, <2>4, <2>5
<1> QED
  BY <1>2, <1>3

LEMMA ForceNow ==
  ASSUME ForceInv
  PROVE  /\ AnswerInv("gettrgtSpeed", "Mbps", ForcePh, row, tspeed, inq, buf)
         /\ ForcePos /\ row \in Nat /\ k \in Nat /\ buf \in Seq(Tokens) /\ inq \in Seq(Lines)
         /\ Len(Rows) \in Nat /\ applied \in Nat
         /\ link.speed \in Int /\ link.duplex \in Int
         /\ stage \in {"start", "expect", "connect", "await"}
         /\ ForcePh \in {"before", "asking", "after", "accepted", "done"}
<1>1. Len(Rows) \in Nat
  BY LinkTestAssumption, LenProperties
<1>2. ForcePh \in {"before", "asking", "after", "accepted", "done"}
  BY DEF ForcePh
<1>3. /\ ForcePos /\ applied \in Nat /\ link.speed \in Int /\ link.duplex \in Int
      /\ AnswerInv("gettrgtSpeed", "Mbps", ForcePh, row, tspeed, inq, buf)
  BY Zenon DEF ForceInv
<1>4. inq \in Seq(Lines) /\ buf \in Seq(Tokens)
  BY <1>3, Zenon DEF AnswerInv
<1>5. row \in 0..(Len(Rows) + 1) /\ k \in 1..Len(Code(row))
      /\ stage \in {"start", "expect", "connect", "await"}
  BY <1>3, Zenon DEF ForcePos
<1>6. row \in Nat /\ k \in Nat
  BY <1>1, <1>5
<1> QED
  BY <1>1, <1>2, <1>3, <1>4, <1>5, <1>6, Zenon

\* A step that does not go on, and after which the question stands as it does.
LEMMA ForceStay ==
  ASSUME ForceInv, UNCHANGED <<row, k, applied, tspeed>>,
         stage' \in {"start", "expect", "connect", "await"},
         \/ stage' = stage
         \/ Op # "gettrgtSpeed"
         \/ stage \in {"connect", "await"} /\ stage' \in {"connect", "await"},
         link'.speed \in Int, link'.duplex \in Int,
         AnswerInv("gettrgtSpeed", "Mbps", ForcePh, row, tspeed, inq', buf')
  PROVE  ForceInv'
<1>1. ForcePos /\ ForcePos' /\ Tried' = Tried
  BY DEF ForceInv, ForcePos, Tried
<1>2. ForcePh' = ForcePh
  <2>1. stage' = stage \/ ~(Tried /\ k = 6) \/ (stage \in {"connect", "await"} /\ stage' \in {"connect", "await"})
    BY <1>1, ForceOps
  <2> QED
    BY <1>1, <2>1 DEF ForcePh
<1>3. AnswerInv("gettrgtSpeed", "Mbps", ForcePh', row', tspeed', inq', buf')
  BY <1>2, Zenon
<1> QED
  BY <1>1, <1>3, Zenon DEF ForceInv

\* A step to the next place, perhaps after reading a prompt.
LEMMA ForceGo ==
  ASSUME ForceInv, Finish, Op # "exit", UNCHANGED <<inq, tspeed>>,
         Op = "gettrgtSpeed" => stage \in {"connect", "await"},
         Op = "verdict" => tspeed.val = Rows[row].speed,
         buf' = buf \/ \E i \in 1..Len(buf) : buf' = SubSeq(buf, i + 1, Len(buf)),
         applied' = IF Op = "sethostLink" THEN row ELSE applied,
         link'.speed \in Int, link'.duplex \in Int
  PROVE  ForceInv'
<1>1. ForcePos /\ applied \in Nat
  BY DEF ForceInv
<1>2. /\ ForcePos' /\ Len(Rows) \in Nat /\ k \in Nat /\ row \in Nat /\ k' \in Nat
      /\ row' \in Nat /\ stage' = "start"
      /\ \/ row' = row /\ k' = k + 1 /\ (Tried => k < 12)
         \/ row' = row + 1 /\ k' = 1 /\ (Tried => k = 12)
  BY <1>1, ForceFinish
<1>3. Tried /\ k = 6 => stage \in {"connect", "await"}
  BY <1>1, ForceOps
<1>4. ASSUME Tried, k = 8
      PROVE  tspeed.val = Rows[row].speed /\ tspeed.val # -1
  <2>1. Op = "verdict"
    BY <1>1, <1>4, ForceOps
  <2>2. Rows[row].speed \in {10, 100, 1000}
    <3>1. PICK i \in 1..Len(Rows) : i = row
      BY <1>4 DEF Tried
    <3> QED
      BY <3>1, RowTypes
  <2> QED
    BY <2>1, <2>2
<1>5. row' = row => (Tried' <=> Tried)
  BY DEF Tried
<1>6. Moved(ForcePh, row, tspeed, ForcePh', row')
  <2>1. CASE k' = 1
    <3>1. ForcePh' = "before" /\ ForcePh \in {"before", "accepted"}
      BY <1>2, <2>1 DEF ForcePh
    <3> QED
      BY <3>1 DEF Moved
  <2>2. CASE row' = row /\ k' = k + 1 /\ ~Tried
    <3>1. ForcePh = "before" /\ ForcePh' = "before"
      BY <1>5, <2>2, Zenon DEF ForcePh
    <3> QED
      BY <3>1 DEF Moved
  <2>3. CASE row' = row /\ k' = k + 1 /\ Tried
    <3>1. Tried'
      BY <1>5, <2>3
    <3>2. CASE k < 6
      <4>1. ForcePh = "before" /\ ForcePh' = "before"
        BY <1>2, <2>3, <3>1, <3>2 DEF ForcePh
      <4> QED
        BY <4>1 DEF Moved
    <3>3. CASE k = 6 \/ k = 7
      <4>1. ForcePh = "after" /\ ForcePh' = "after"
        BY <1>2, <1>3, <2>3, <3>1, <3>3 DEF ForcePh
      <4> QED
        BY <2>3, <4>1 DEF Moved
    <3>4. CASE k = 8
      <4>1. ForcePh = "after" /\ ForcePh' = "accepted"
        BY <1>2, <2>3, <3>1, <3>4 DEF ForcePh
      <4> QED
        BY <1>4, <2>3, <3>4, <4>1 DEF Moved
    <3>5. CASE k > 8
      <4>1. ForcePh = "accepted" /\ ForcePh' = "accepted"
        BY <1>2, <2>3, <3>1, <3>5 DEF ForcePh
      <4> QED
        BY <2>3, <4>1 DEF Moved
    <3> QED
      BY <1>2, <3>2, <3>3, <3>4, <3>5
  <2> QED
    BY <1>2, <2>1, <2>2, <2>3
<1>7. AnswerInv("gettrgtSpeed", "Mbps", ForcePh, row, tspeed, inq, buf')
  BY ForceNow, MoveCut, Zenon
<1>8. AnswerInv("gettrgtSpeed", "Mbps", ForcePh', row', tspeed', inq', buf')
  BY <1>6, <1>7, MoveOnly, Zenon
<1>9. Tried' /\ k' > 8 => tspeed'.val = Rows[row'].speed
  <2> SUFFICES ASSUME Tried', k' > 8 PROVE tspeed'.val = Rows[row'].speed
    OBVIOUS
  <2>a. row' = row /\ k >= 8
    BY <1>2
  <2>1. row' = row /\ k >= 8 /\ Tried
    BY <1>5, <2>a
  <2>2. CASE k = 8
    BY <1>4, <2>1, <2>2, Zenon
  <2>3. CASE k > 8
    BY <2>1, <2>3 DEF ForceInv
  <2> QED
    BY <1>2, <2>1, <2>2, <2>3
<1>10. Tried' /\ k' >= 4 => applied' = row'
  <2> SUFFICES ASSUME Tried', k' >= 4 PROVE applied' = row'
    OBVIOUS
  <2>a. row' = row /\ k >= 3
    BY <1>2
  <2>1. row' = row /\ k >= 3 /\ Tried
    BY <1>5, <2>a
  <2>2. Op = "sethostLink" <=> k = 3
    BY <1>1, <2>1, ForceOps, Zenon
  <2>3. k >= 4 => applied = row
    BY <2>1 DEF ForceInv
  <2> QED
    BY <1>2, <2>1, <2>2, <2>3
<1>11. applied' \in Nat
  BY <1>1, <1>2
<1> QED
  BY <1>2, <1>8, <1>9, <1>10, <1>11, Zenon DEF ForceInv

LEMMA ForceSend ==
  ASSUME ForceInv, Send
  PROVE  ForceInv'
<1>1. /\ AnswerInv("gettrgtSpeed", "Mbps", ForcePh, row, tspeed, inq, buf)
      /\ ForcePos /\ row \in Nat /\ link.speed \in Int /\ link.duplex \in Int
  BY ForceNow
<1>2. /\ stage = "start" /\ stage' = (IF Op \in Queries THEN "expect" ELSE "connect")
      /\ inq' = Append(inq, Line(Op, row))
      /\ Op \in SetCommands \cup Queries
      /\ UNCHANGED <<buf, link, applied, row, k, tspeed>>
  BY DEF Send, Running, answers
<1>3. Line(Op, row) \in Lines /\ Line(Op, row).cmd = Op
  <2>1. Op \in {"settrgtLinkAuto", "gettrgtSpeed", "gettrgtDuplex", "checkHostPingv4"}
    BY <1>1, <1>2, ForceOps DEF SetCommands, Queries
  <2> QED
    BY <1>1, <2>1 DEF Line, Lines
<1>4. stage' \in {"start", "expect", "connect", "await"} /\ link' = link
  BY <1>2
<1>5. CASE Op # "gettrgtSpeed"
  <2>1. AnswerInv("gettrgtSpeed", "Mbps", ForcePh, row, tspeed, inq', buf')
    BY <1>1, <1>2, <1>3, <1>5, MoveType, Zenon
  <2> QED
    BY <1>1, <1>2, <1>4, <1>5, <2>1, ForceStay, Zenon
<1>6. CASE Op = "gettrgtSpeed"
  <2>1. Tried /\ k = 6 /\ stage' = "expect"
    BY <1>1, <1>2, <1>6, ForceOps, Zenon DEF Queries
  <2>2. Tried'
    BY <1>2, <2>1 DEF Tried
  <2>3. ForcePh = "before" /\ ForcePh' = "asking"
    BY <1>2, <2>1, <2>2 DEF ForcePh
  <2>4. AnswerInv("gettrgtSpeed", "Mbps", "asking", row, tspeed, inq', buf')
    BY <1>1, <1>2, <1>3, <1>6, <2>3, AskStep, Zenon
  <2>5. AnswerInv("gettrgtSpeed", "Mbps", ForcePh', row', tspeed', inq', buf')
    BY <1>2, <2>3, <2>4, Zenon
  <2>6. ForcePos'
    BY <1>2, <1>4, Zenon DEF ForceInv, ForcePos
  <2> QED
    BY <1>2, <2>1, <2>5, <2>6 DEF ForceInv
<1> QED
  BY <1>5, <1>6

\* The answer, or a timeout.
LEMMA ForceTaken ==
  ASSUME ForceInv, stage = "expect", stage' = "connect", UNCHANGED <<row, k, applied, link>>,
         Op = "gettrgtSpeed",
         AnswerInv("gettrgtSpeed", "Mbps", "after", row, tspeed', inq', buf')
  PROVE  ForceInv'
<1>1. ForcePos /\ ForcePos'
  BY ForceNow DEF ForceInv, ForcePos
<1>2. Tried /\ k = 6
  BY <1>1, ForceOps
<1>3. Tried'
  BY <1>2 DEF Tried
<1>4. ForcePh' = "after"
  BY <1>2, <1>3 DEF ForcePh
<1>5. AnswerInv("gettrgtSpeed", "Mbps", ForcePh', row', tspeed', inq', buf')
  BY <1>4
<1> QED
  BY <1>1, <1>2, <1>5 DEF ForceInv

LEMMA ForceExpectMatch ==
  ASSUME ForceInv, ExpectMatch
  PROVE  ForceInv'
<1> DEFINE op == Op
           i == FirstHit(FirstMatching(Patterns(op)), Patterns(op))
<1>1. /\ AnswerInv("gettrgtSpeed", "Mbps", ForcePh, row, tspeed, inq, buf)
      /\ ForcePos /\ row \in Nat /\ link.speed \in Int /\ link.duplex \in Int
      /\ k \in Nat /\ buf \in Seq(Tokens)
  BY ForceNow, Zenon
<1>2. /\ stage = "expect" /\ stage' = "connect" /\ op \in Queries
      /\ Matching(Patterns(op)) # {}
      /\ Take(op, buf[i].val, buf[i].tag)
      /\ UNCHANGED <<inq, link, applied, row, k>>
      /\ buf' = SubSeq(buf, i + 1, Len(buf))
  BY DEF ExpectMatch, Running, Dropped
<1>3. i \in 1..Len(buf)
  <2>1. Len(Patterns(op)) \in Nat
    BY <1>2, PatternTexts DEF Queries
  <2> QED
    BY <1>1, <1>2, <2>1, ReadAny
<1>4. op = "gettrgtSpeed" => buf[i].text = "Mbps"
  BY <1>1, <1>2, ReadSpeed, Zenon
<1> HIDE DEF i
<1>5. CASE op # "gettrgtSpeed"
  <2>1. UNCHANGED tspeed
    BY <1>2, <1>5, Zenon DEF Take, Queries
  <2>2. AnswerInv("gettrgtSpeed", "Mbps", ForcePh, row, tspeed, inq', buf')
    BY <1>1, <1>2, <1>3, MoveCut, Zenon
  <2> QED
    BY <1>1, <1>2, <1>5, <2>1, <2>2, ForceStay
<1>6. CASE op = "gettrgtSpeed"
  <2>1. Tried /\ k = 6
    BY <1>1, <1>6, ForceOps
  <2>2. ForcePh = "asking"
    BY <1>2, <2>1 DEF ForcePh
  <2>3. tspeed'.tag = buf[i].tag
    BY <1>2, <1>6 DEF Take, Answer
  <2>4. AnswerInv("gettrgtSpeed", "Mbps", "after", row, tspeed', inq', buf')
    BY <1>1, <1>2, <1>3, <1>4, <1>6, <2>2, <2>3, MatchStep, Zenon
  <2> QED
    BY <1>2, <1>6, <2>4, ForceTaken
<1> QED
  BY <1>5, <1>6

LEMMA ForceExpectTimeout ==
  ASSUME ForceInv, ExpectTimeout
  PROVE  ForceInv'
<1>1. /\ AnswerInv("gettrgtSpeed", "Mbps", ForcePh, row, tspeed, inq, buf)
      /\ ForcePos /\ link.speed \in Int /\ link.duplex \in Int
  BY ForceNow
<1>2. /\ stage = "expect" /\ stage' = "connect" /\ Op \in Queries
      /\ TakeNothing(Op) /\ UNCHANGED <<inq, buf, link, applied, row, k>>
  BY DEF ExpectTimeout, Running, console
<1>3. CASE Op # "gettrgtSpeed"
  <2>1. UNCHANGED tspeed
    BY <1>2, <1>3, Zenon DEF TakeNothing, Queries
  <2> QED
    BY <1>1, <1>2, <1>3, <2>1, ForceStay
<1>4. CASE Op = "gettrgtSpeed"
  <2>1. Tried /\ k = 6
    BY <1>1, <1>4, ForceOps
  <2>2. ForcePh = "asking"
    BY <1>2, <2>1 DEF ForcePh
  <2>3. tspeed'.val = -1
    BY <1>2, <1>4 DEF TakeNothing, NoAnswer, Answer
  <2>4. AnswerInv("gettrgtSpeed", "Mbps", "after", row, tspeed', inq, buf)
    BY <1>1, <2>2, <2>3, TimeoutStep
  <2> QED
    BY <1>2, <1>4, <2>4, ForceTaken
<1> QED
  BY <1>3, <1>4

LEMMA ForceHost ==
  ASSUME ForceInv, HostSet \/ GetHostSpeed \/ GetHostDuplex
  PROVE  ForceInv'
<1>1. ForcePos /\ link.speed \in Int /\ link.duplex \in Int
  BY ForceNow
<1>2. CASE HostSet
  <2>1. /\ Op \in {"sethostAdv", "sethostLink", "sethostLinkAuto"} /\ link' = Down
        /\ Finish /\ UNCHANGED <<inq, buf, tspeed>>
        /\ applied' = (IF Op = "sethostLinkAuto" THEN applied ELSE row)
    BY <1>2 DEF HostSet, Running, console, answers
  <2>2. Op \in {"sethostLink", "sethostLinkAuto"}
    BY <1>1, <2>1, ForceOps
  <2>3. link'.speed \in Int /\ link'.duplex \in Int
    BY <2>1 DEF Down
  <2>4. applied' = IF Op = "sethostLink" THEN row ELSE applied
    BY <2>1, <2>2
  <2>5. Op # "exit" /\ Op # "verdict" /\ Op # "gettrgtSpeed"
    BY <2>2
  <2> QED
    BY <2>1, <2>3, <2>4, <2>5, ForceGo
<1>3. CASE GetHostSpeed \/ GetHostDuplex
  <2>1. /\ Op \in {"gethostSpeed", "gethostDuplex"} /\ Finish
        /\ UNCHANGED <<inq, buf, link, applied, tspeed>>
    BY <1>3, Zenon DEF GetHostSpeed, GetHostDuplex, Running, console
  <2>2. /\ Op # "exit" /\ Op # "verdict" /\ Op # "gettrgtSpeed"
        /\ Op # "sethostLink"
    BY <2>1
  <2> QED
    BY <1>1, <2>1, <2>2, ForceGo
<1> QED
  BY <1>2, <1>3

LEMMA ForceHostPing ==
  ASSUME ForceInv, HostPing
  PROVE  ForceInv'
<1>1. /\ Op = "checkTrgtPingv4" /\ stage' = "connect"
      /\ UNCHANGED <<inq, buf, link, applied, row, k, tspeed>>
  BY DEF HostPing, Running, console
<1> QED
  BY <1>1, ForceNow, ForceStay

LEMMA ForceConnect ==
  ASSUME ForceInv, Connect
  PROVE  ForceInv'
<1>1. /\ stage = "connect" \/ Op = "connect"
      /\ stage' = "await" /\ inq' = Append(inq, Line("return", row))
      /\ UNCHANGED <<buf, link, applied, row, k, tspeed>>
  BY DEF Connect, Running, answers
<1>2. Line("return", row) \in Lines /\ Line("return", row).cmd = "return"
  BY ForceNow DEF Line, Lines
<1>3. AnswerInv("gettrgtSpeed", "Mbps", ForcePh, row, tspeed, inq', buf')
  BY <1>1, <1>2, ForceNow, MoveType
<1> QED
  BY <1>1, <1>3, ForceNow, ForceStay

LEMMA ForceConnectLogin ==
  ASSUME ForceInv, ConnectLogin
  PROVE  ForceInv'
<1> DEFINE pats == ConnectPatterns
           i == FirstHit(FirstMatching(pats), pats)
<1>1. /\ stage = "await" /\ stage' = "await" /\ Matching(pats) # {}
      /\ inq' = inq \o <<Line("root", row), Line("return", row)>>
      /\ buf' = SubSeq(buf, i + 1, Len(buf))
      /\ UNCHANGED <<link, applied, row, k, tspeed>>
  BY DEF ConnectLogin, Running, Dropped, script,
     answers
<1>2. i \in 1..Len(buf)
  <2>1. Len(pats) \in Nat /\ buf \in Seq(Tokens)
    BY ForceNow DEF ConnectPatterns
  <2> HIDE DEF pats
  <2> QED
    BY <1>1, <2>1, ReadAny
<1> HIDE DEF i
<1>3. AnswerInv("gettrgtSpeed", "Mbps", ForcePh, row, tspeed, inq', buf')
  BY <1>1, <1>2, ForceNow, LoginStep, Zenon
<1> QED
  BY <1>1, <1>3, ForceNow, ForceStay

LEMMA ForceConnectPrompt ==
  ASSUME ForceInv, ConnectPrompt
  PROVE  ForceInv'
<1> DEFINE pats == ConnectPatterns
           i == FirstHit(FirstMatching(pats), pats)
<1>1. /\ stage = "await" /\ Matching(pats) # {} /\ Finish /\ Op \in ConnectOps
      /\ buf' = SubSeq(buf, i + 1, Len(buf))
      /\ UNCHANGED <<inq, link, applied, tspeed>>
  BY DEF ConnectPrompt, Running, Dropped, answers
<1>2. i \in 1..Len(buf)
  <2>1. Len(pats) \in Nat /\ buf \in Seq(Tokens)
    BY ForceNow DEF ConnectPatterns
  <2> HIDE DEF pats
  <2> QED
    BY <1>1, <2>1, ReadAny
<1> HIDE DEF i
<1>3. Op \notin {"exit", "verdict", "sethostLink"}
  BY <1>1 DEF ConnectOps, SetCommands, Queries
<1> QED
  BY <1>1, <1>2, <1>3, ForceNow, ForceGo

LEMMA ForceConnectTimeout ==
  ASSUME ForceInv, ConnectTimeout
  PROVE  ForceInv'
<1>1. /\ stage = "await" /\ Finish /\ Op \in ConnectOps
      /\ UNCHANGED <<inq, buf, link, applied, tspeed>>
  BY DEF ConnectTimeout, Running, console, answers
<1>2. Op \notin {"exit", "verdict", "sethostLink"}
  BY <1>1 DEF ConnectOps, SetCommands, Queries
<1> QED
  BY <1>1, <1>2, ForceNow, ForceGo

LEMMA ForceVerdict ==
  ASSUME ForceInv, Verdict
  PROVE  ForceInv'
<1>1. /\ Op = "verdict" /\ ExitIf(ForceFails(Rows[row]))
      /\ UNCHANGED <<inq, buf, link, applied, tspeed>>
  BY ForceNow DEF ForcePos, Verdict, Running, console, answers, Forces
<1>2. CASE ForceFails(Rows[row])
  <2>1. UNCHANGED <<row, k, stage>>
    BY <1>1, <1>2, Zenon DEF ExitIf
  <2> QED
    BY <1>1, <2>1, ForceNow, ForceStay
<1>3. CASE ~ForceFails(Rows[row])
  <2>1. Finish
    BY <1>1, <1>3 DEF ExitIf
  <2>2. tspeed.val = Rows[row].speed
    BY <1>3 DEF ForceFails
  <2> QED
    BY <1>1, <2>1, <2>2, ForceNow, ForceGo
<1> QED
  BY <1>2, <1>3

LEMMA ForceCheckPing ==
  ASSUME ForceInv, CheckPing
  PROVE  ForceInv'
<1>1. /\ Op = "checkrr" /\ ExitIf(rr = 0)
      /\ UNCHANGED <<inq, buf, link, applied, tspeed>>
  BY DEF CheckPing, Running, console, answers
<1>2. CASE rr = 0
  <2>1. UNCHANGED <<row, k, stage>>
    BY <1>1, <1>2, Zenon DEF ExitIf
  <2> QED
    BY <1>1, <2>1, ForceNow, ForceStay
<1>3. CASE rr # 0
  <2>1. Finish
    BY <1>1, <1>3 DEF ExitIf
  <2> QED
    BY <1>1, <2>1, ForceNow, ForceGo
<1> QED
  BY <1>2, <1>3

LEMMA ForceRest ==
  ASSUME ForceInv, Exit \/ LinkChange
  PROVE  ForceInv'
<1>1. /\ UNCHANGED <<inq, buf, applied, row, k, stage, tspeed>>
      /\ link' = link \/ link' \in Links
  BY DEF Exit, LinkChange, console, script, answers
<1>2. link'.speed \in Int /\ link'.duplex \in Int
  BY <1>1, LinkTypes, ForceNow
<1> QED
  BY <1>1, <1>2, ForceNow, ForceStay

LEMMA ForceBoardRun ==
  ASSUME ForceInv, BoardRun
  PROVE  ForceInv'
<1>1. /\ AnswerInv("gettrgtSpeed", "Mbps", ForcePh, row, tspeed, inq, buf)
      /\ ForcePos /\ row \in Nat /\ link.speed \in Int /\ link.duplex \in Int
      /\ applied \in Nat /\ k \in Nat /\ inq \in Seq(Lines) /\ buf \in Seq(Tokens)
      /\ ForcePh \in {"before", "asking", "after", "accepted", "done"}
      /\ stage \in {"start", "expect", "connect", "await"}
  BY ForceNow
<1> DEFINE cmd == Head(inq).cmd
<1>2. inq # <<>> /\ UNCHANGED <<row, k, stage, tspeed>>
  BY DEF BoardRun, script, answers
<1>3. cmd \in {"settrgtLinkAuto", "gettrgtSpeed", "gettrgtDuplex", "checkHostPingv4", "return",
               "root"}
  <2>1. Head(inq) \in Lines
    BY <1>1, <1>2
  <2> QED
    BY <2>1 DEF Lines
<1>4. link' \in {Down, link} /\ applied' = applied
  BY <1>3 DEF BoardRun, SetCommands
<1>5. link'.speed \in Int /\ link'.duplex \in Int
  BY <1>1, <1>4 DEF Down
<1>6. PICK loss \in {0, 1, 2} : BoardExec(
        CASE cmd = "gettrgtSpeed" -> <<Token("Mbps", link.speed, applied)>>
          [] cmd = "gettrgtDuplex" -> <<Token("d", link.duplex, applied)>>
          [] cmd = "checkHostPingv4" -> <<Token("ping", loss, applied)>>
          [] OTHER -> <<>>)
  BY DEF BoardRun
<1> DEFINE out == CASE cmd = "gettrgtSpeed" -> <<Token("Mbps", link.speed, applied)>>
                    [] cmd = "gettrgtDuplex" -> <<Token("d", link.duplex, applied)>>
                    [] cmd = "checkHostPingv4" -> <<Token("ping", loss, applied)>>
                    [] OTHER -> <<>>
<1>7. /\ inq' = Tail(inq)
      /\ buf' \in {Append(buf, Prompt), Append(buf, LoginPrompt), Append(buf \o out, Prompt)}
  BY <1>6 DEF BoardExec
<1>8. ForcePh = "asking" => applied = row
  BY <1>1 DEF ForceInv, ForcePh
<1>9. \/ out = <<>>
      \/ \E p \in Tokens : /\ out = <<p>> /\ p.tag = applied
                           /\ p.text = "Mbps" <=> cmd = "gettrgtSpeed"
  <2>1. /\ Token("Mbps", link.speed, applied) \in Tokens
        /\ Token("d", link.duplex, applied) \in Tokens
        /\ Token("ping", loss, applied) \in Tokens
    <3>1. link.speed \in Int /\ link.duplex \in Int /\ loss \in Int /\ applied \in Nat
      BY <1>1
    <3> HIDE DEF out
    <3>2. ASSUME NEW t \in {"Mbps", "d", "ping"}, NEW v \in Int, NEW g \in Nat
          PROVE  Token(t, v, g) \in Tokens
      BY DEF Token, Tokens
    <3> QED
      BY <3>1, <3>2
  <2>2. CASE cmd = "gettrgtSpeed"
    <3>1. out = <<Token("Mbps", link.speed, applied)>>
      BY <2>2
    <3> QED
      BY <2>1, <2>2, <3>1 DEF Token
  <2>3. CASE cmd = "gettrgtDuplex"
    <3>1. out = <<Token("d", link.duplex, applied)>>
      BY <2>3
    <3> QED
      BY <2>1, <2>3, <3>1 DEF Token
  <2>4. CASE cmd = "checkHostPingv4"
    <3>1. out = <<Token("ping", loss, applied)>>
      BY <2>4
    <3> QED
      BY <2>1, <2>4, <3>1 DEF Token
  <2>5. CASE cmd \notin {"gettrgtSpeed", "gettrgtDuplex", "checkHostPingv4"}
    BY <2>5
  <2> QED
    BY <2>2, <2>3, <2>4, <2>5
<1> HIDE DEF out
<1>10. AnswerInv("gettrgtSpeed", "Mbps", ForcePh, row, tspeed, inq', buf')
  <2>1. \/ out = <<>>
        \/ \E p \in Tokens : /\ out = <<p>> /\ (p.text = "Mbps" <=> Head(inq).cmd = "gettrgtSpeed")
                             /\ p.text = "Mbps" /\ ForcePh = "asking" => p.tag = row
    BY <1>8, <1>9
  <2> QED
    BY <1>1, <1>2, <1>7, <2>1, BoardStep, Zenon
<1> QED
  BY <1>1, <1>2, <1>4, <1>5, <1>10, ForceStay

LEMMA ForceStep ==
  ASSUME ForceInv, Next
  PROVE  ForceInv'
BY ForceSend, ForceExpectMatch, ForceExpectTimeout, ForceHost, ForceHostPing, ForceConnect,
   ForceConnectLogin, ForceConnectPrompt, ForceConnectTimeout, ForceVerdict, ForceCheckPing,
   ForceRest, ForceBoardRun
   DEF Next, Host

LEMMA ForceStart ==
  ASSUME Script = "ForceTrgt", Init
  PROVE  ForceInv
<1>1. /\ inq = <<>> /\ buf = <<>> /\ link \in Links /\ applied = 0 /\ row = 0 /\ k = 1
      /\ stage = "start"
  BY DEF Init
<1>2. Len(Rows) \in Nat /\ Len(Code(0)) = 3
  BY LinkTestAssumption DEF Code, LinkAuto
<1>3. ForcePos /\ ~Tried
  BY <1>1, <1>2 DEF ForcePos, Tried
<1>4. ForcePh = "before"
  BY <1>3 DEF ForcePh
<1>5. AnswerInv("gettrgtSpeed", "Mbps", ForcePh, row, tspeed, inq, buf)
  BY <1>1, <1>4 DEF AnswerInv, NoneOut
<1>6. link.speed \in Int /\ link.duplex \in Int
  BY <1>1, LinkTypes
<1> QED
  BY <1>1, <1>3, <1>5, <1>6 DEF ForceInv

LEMMA ForceUnchanged ==
  ASSUME ForceInv, UNCHANGED vars
  PROVE  ForceInv'
<1>1. UNCHANGED <<inq, buf, link, applied, row, k, stage, tspeed>>
  BY DEF vars, console, script, answers
<1> QED
  BY <1>1, Zenon DEF ForceInv, ForcePos, Tried, ForcePh

LEMMA ForceSpeedOfThisRow ==
  ASSUME ForceInv
  PROVE  SpeedOfThisRow
<1> SUFFICES ASSUME NEW i \in 1..Len(Rows), Accepted(i)
             PROVE  tspeed.tag = i /\ tspeed.val = Rows[i].speed
  BY DEF SpeedOfThisRow
<1>1. ForcePos /\ k \in Nat /\ row = i
  BY ForceNow DEF Accepted
<1>2. PICK v \in 1..(k - 1) : Code(i)[v] = "verdict"
  BY DEF Accepted
<1>3. k \in 1..Len(Code(row))
  BY <1>1 DEF ForcePos
<1>4. Tried
  <2> SUFFICES ASSUME ~Tried PROVE FALSE
    OBVIOUS
  <2>1. Len(Code(row)) = 2 /\ Code(row)[1] # "verdict"
    BY <1>1, ForceCode
  <2>2. v = 1
    BY <1>3, <2>1
  <2> QED
    BY <1>1, <1>2, <2>1, <2>2
<1>5. Len(Code(row)) = 12
  BY <1>1, <1>4, ForceCode
<1>6. v \in 1..12
  BY <1>3, <1>5
<1>7. v = 8
  BY <1>1, <1>2, <1>4, <1>6, ForceCode
<1>8. k > 8
  BY <1>1, <1>7
<1>9. ForcePh = "accepted"
  BY <1>1, <1>4, <1>8 DEF ForcePh
<1> QED
  BY <1>1, <1>4, <1>8, <1>9 DEF ForceInv, AnswerInv

\* Whatever the rows, an accepted speed of ForceTrgt was found while the row's
\* own setting was in force, and is the row's: a timeout, or the late answer
\* of an earlier row, never equals the forced speed
\* (emactestllinkForceTrgt.exp:65-68).
THEOREM SpeedOfThisRowThm ==
  ASSUME Script = "ForceTrgt"
  PROVE  Spec => []SpeedOfThisRow
<1>1. Init => ForceInv
  BY ForceStart
<1>2. ForceInv /\ [Next]_vars => ForceInv'
  BY ForceUnchanged, ForceStep
<1>3. ForceInv => SpeedOfThisRow
  BY ForceSpeedOfThisRow
<1> QED
  BY <1>1, <1>2, <1>3, PTL DEF Spec
=============================================================================
