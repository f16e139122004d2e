------------------------------ MODULE UiProofs ------------------------------
(***************************************************************************)
(* Theorems about the parts of ui/ that end with the process: what becomes *)
(* of ninja's messages (NinjaReader), of the terminal (SmartStatus) and of *)
(* the files and the result of a build (Session).                          *)
(***************************************************************************)
EXTENDS NinjaReader, SmartStatus, Session, TLAPS
-----------------------------------------------------------------------------
(***************************************************************************)
(* NinjaReader: what the reader passes on, for any edges, any size of the  *)
(* fifo, any unreadable messages and wherever ninja ends.                  *)
(***************************************************************************)

Sent(w) == IF w.ok THEN w.of ELSE Garbled

TypeInv ==
    /\ wrote \in Seq([of : Messages, ok : BOOLEAN])
    /\ pipe \in Seq(Messages \cup {Garbled, Cut})
    /\ calls \in Seq(Messages)

\* What ninja writes: no message twice, the end of an edge after its start,
\* and nothing after the end of the build.
WroteInv ==
    /\ \A i, k \in DOMAIN wrote : wrote[i].of = wrote[k].of => i = k
    /\ \A i \in DOMAIN wrote, e \in Edges : wrote[i].of = Finished(e) =>
          \E k \in 1 .. i - 1 : wrote[k].of = Started(e)
    /\ \A i \in DOMAIN wrote : wrote[i].of = BuildFinished => i = Len(wrote)

\* The reader has read n messages; the fifo has the others, and at its end
\* perhaps the beginning of one that ninja did not complete.
ReadInv(n) ==
    /\ n \in 0 .. Len(wrote)
    /\ Len(pipe) \in {Len(wrote) - n, Len(wrote) - n + 1}
    /\ \A i \in 1 .. Len(wrote) - n : pipe[i] = Sent(wrote[n + i])
    /\ Len(pipe) = Len(wrote) - n + 1 => pipe[Len(pipe)] = Cut /\ ninja = "exited"
    /\ \A i \in 1 .. n : PassedOn(i)
    /\ \A i \in DOMAIN calls : \E k \in 1 .. n : wrote[k].ok /\ wrote[k].of = calls[i]
    /\ run = "done" /\ opener = "returned" => n = Len(wrote)

\* The calls so far, and what the map of running edges knows of them.
CallsInv ==
    /\ IsInjective(calls)
    /\ running \subseteq Edges
    /\ \A e \in Edges : e \in running <=> Started(e) \in Range(calls) /\ Finished(e) \notin Range(calls)
    /\ \A i \in DOMAIN calls, e \in Edges : calls[i] = Finished(e) =>
          \E k \in 1 .. i - 1 : calls[k] = Started(e)
    /\ \A i \in DOMAIN calls : calls[i] = BuildFinished => i = Len(calls)

IInv ==
    /\ TypeInv /\ WroteInv /\ CallsInv
    /\ \E n \in 0 .. Len(wrote) : ReadInv(n)
    /\ closing = "closed" => run = "done"
    /\ run = "select" => opener # "returned"
-----------------------------------------------------------------------------
\* The kinds of messages are different, and a message names its edge.
LEMMA Kinds ==
    /\ Total \in Messages /\ BuildFinished \in Messages /\ Total # BuildFinished
    /\ \A e \in Edges : Started(e) \in Messages /\ Finished(e) \in Messages
    /\ \A e, f \in Edges : Started(e) # Finished(f)
    /\ \A e \in Edges : Started(e) \notin {Total, BuildFinished} /\ Finished(e) \notin {Total, BuildFinished}
    /\ \A e, f \in Edges : Started(e) = Started(f) => e = f
    /\ \A e, f \in Edges : Finished(e) = Finished(f) => e = f
    /\ Garbled \notin Messages /\ Cut \notin Messages /\ Garbled # Cut
    /\ \A e \in Edges : Finished(e).type = "finished" /\ Finished(e).edge = e
    /\ \A m \in Messages : m.type = "finished" => m.edge \in Edges /\ m = Finished(m.edge)
<1>1. \A e, f \in Edges : Started(e) = Started(f) => e = f
  <2> TAKE e, f \in Edges
  <2>1. Started(e).edge = e /\ Started(f).edge = f
    BY Zenon DEF Started
  <2> QED
    BY <2>1, Zenon
<1>2. \A e, f \in Edges : Finished(e) = Finished(f) => e = f
  <2> TAKE e, f \in Edges
  <2>1. Finished(e).edge = e /\ Finished(f).edge = f
    BY Zenon DEF Finished
  <2> QED
    BY <2>1, Zenon
<1>3. /\ \A e \in Edges : Started(e).type = "started" /\ Finished(e).type = "finished"
      /\ \A e \in Edges : Finished(e).edge = e
      /\ Total.type = "total" /\ BuildFinished.type = "buildFinished"
      /\ Garbled.type = "garbled" /\ Cut.type = "cut"
  BY Zenon DEF Started, Finished, Total, BuildFinished, Garbled, Cut
<1>4. /\ Total \in Messages /\ BuildFinished \in Messages
      /\ \A e \in Edges : Started(e) \in Messages /\ Finished(e) \in Messages
  BY Zenon DEF Messages, Started, Finished
<1>5. \A m \in Messages : m.type \in {"started", "finished", "total", "buildFinished"}
  BY <1>3, Zenon DEF Messages
<1>6. \A m \in Messages : m.type = "finished" => m.edge \in Edges /\ m = Finished(m.edge)
  BY <1>3, SMTT(30) DEF Messages, Finished
<1> QED
  BY <1>1, <1>2, <1>3, <1>4, <1>5, <1>6, Zenon

\* A call more, at the end.
LEMMA OneMore ==
    ASSUME NEW S, NEW s \in Seq(S), NEW x \in S
    PROVE  /\ Append(s, x) \in Seq(S)
           /\ Len(Append(s, x)) = Len(s) + 1
           /\ DOMAIN Append(s, x) = 1 .. Len(s) + 1
           /\ \A i \in 1 .. Len(s) : Append(s, x)[i] = s[i]
           /\ Append(s, x)[Len(s) + 1] = x
           /\ Range(Append(s, x)) = Range(s) \cup {x}
<1>1. /\ Append(s, x) \in Seq(S)
      /\ Len(Append(s, x)) = Len(s) + 1
      /\ DOMAIN Append(s, x) = 1 .. Len(s) + 1
      /\ \A i \in 1 .. Len(s) : Append(s, x)[i] = s[i]
      /\ Append(s, x)[Len(s) + 1] = x
  BY SMTT(30)
<1>2. DOMAIN s = 1 .. Len(s) /\ Len(s) \in Nat
  BY SMTT(30)
<1>3. ASSUME NEW y \in Range(Append(s, x)) PROVE y \in Range(s) \cup {x}
  <2>1. PICK i \in 1 .. Len(s) + 1 : y = Append(s, x)[i]
    BY <1>1, <1>3, Zenon DEF Range
  <2>2. CASE i = Len(s) + 1
    BY <1>1, <2>1, <2>2, Zenon
  <2>3. CASE i \in 1 .. Len(s)
    BY <1>1, <1>2, <2>1, <2>3, Zenon DEF Range
  <2> QED
    BY <1>2, <2>2, <2>3, SMTT(30)
<1>4. ASSUME NEW y \in Range(s) \cup {x} PROVE y \in Range(Append(s, x))
  <2>1. CASE y = x
    BY <1>1, <1>2, <2>1, SMTT(30) DEF Range
  <2>2. CASE y \in Range(s)
    <3>1. PICK i \in 1 .. Len(s) : y = s[i]
      BY <1>2, <2>2, Zenon DEF Range
    <3>2. i \in 1 .. Len(s) + 1 /\ y = Append(s, x)[i]
      BY <1>1, <1>2, <3>1, SMTT(30)
    <3> QED
      BY <1>1, <3>2, Zenon DEF Range
  <2> QED
    BY <1>4, <2>1, <2>2, Zenon
<1> QED
  BY <1>1, <1>3, <1>4, Zenon
-----------------------------------------------------------------------------
(* Ninja writes *)

\* A message ninja may write is a new one; an edge has started before it
\* finishes, and the build has not finished.
LEMMA NewMessage ==
    ASSUME TypeInv, NEW m \in Messages, m \in NinjaMessages
    PROVE  /\ \A i \in DOMAIN wrote : wrote[i].of # m /\ wrote[i].of # BuildFinished
           /\ \A e \in Edges : m = Finished(e) => \E k \in DOMAIN wrote : wrote[k].of = Started(e)
<1> DEFINE told == {w.of : w \in Range(wrote)}
<1>1. /\ \A i \in DOMAIN wrote : wrote[i].of \in told
      /\ \A x \in told : \E i \in DOMAIN wrote : wrote[i].of = x
  BY Zenon DEF Range
<1>2. \/ told = {} /\ m = Total
      \/ /\ BuildFinished \notin told
         /\ \/ \E e \in Edges : Started(e) \notin told /\ m = Started(e)
            \/ \E e \in Edges : Started(e) \in told /\ Finished(e) \notin told /\ m = Finished(e)
            \/ m = BuildFinished
  BY Zenon DEF NinjaMessages
<1> HIDE DEF told
<1>3. m \notin told /\ BuildFinished \notin told
  BY <1>2, Zenon
<1>4. \A e \in Edges : m = Finished(e) => Started(e) \in told
  BY <1>2, Kinds, Zenon
<1> QED
  BY <1>1, <1>3, <1>4, Zenon

\* What ninja writes next keeps the order of what it has written.
LEMMA WriteWroteInv ==
    ASSUME TypeInv, WroteInv, NEW m \in Messages, m \in NinjaMessages,
           NEW ok \in BOOLEAN, wrote' = Append(wrote, [of |-> m, ok |-> ok])
    PROVE  WroteInv'
<1> DEFINE w == [of |-> m, ok |-> ok]
           n == Len(wrote)
<1>1. w \in [of : Messages, ok : BOOLEAN] /\ w.of = m
  BY Zenon
<1> HIDE DEF w
<1>2. /\ DOMAIN wrote = 1 .. n /\ n \in Nat
      /\ DOMAIN wrote' = 1 .. n + 1 /\ Len(wrote') = n + 1
      /\ \A i \in 1 .. n : wrote'[i] = wrote[i]
      /\ wrote'[n + 1].of = m
  BY <1>1, OneMore, SMTT(30) DEF TypeInv, w
<1> HIDE DEF n
<1>3. \A i \in 1 .. n + 1 : i \in 1 .. n \/ i = n + 1
  BY <1>2, SMTT(30)
<1>4. \A i, k \in DOMAIN wrote' : wrote'[i].of = wrote'[k].of => i = k
  BY <1>2, <1>3, NewMessage, SMTT(30) DEF WroteInv
<1>5. ASSUME NEW i \in DOMAIN wrote', NEW e \in Edges, wrote'[i].of = Finished(e)
      PROVE  \E k \in 1 .. i - 1 : wrote'[k].of = Started(e)
  <2>1. CASE i \in 1 .. n
    <3>1. PICK k \in 1 .. i - 1 : wrote[k].of = Started(e)
      BY <1>2, <1>5, <2>1, Zenon DEF WroteInv
    <3>2. k \in 1 .. n
      BY <1>2, <2>1, SMTT(30)
    <3> QED
      BY <1>2, <3>1, <3>2, Zenon
  <2>2. CASE i = n + 1
    <3>1. PICK k \in DOMAIN wrote : wrote[k].of = Started(e)
      BY <1>2, <1>5, <2>2, NewMessage, Zenon
    <3>2. k \in 1 .. i - 1 /\ wrote'[k].of = Started(e)
      BY <1>2, <2>2, <3>1, SMTT(30)
    <3> QED
      BY <3>2, Zenon
  <2> QED
    BY <1>2, <1>3, <2>1, <2>2, Zenon
<1>6. \A i \in DOMAIN wrote' : wrote'[i].of = BuildFinished => i = Len(wrote')
  BY <1>2, <1>3, NewMessage, Zenon
<1> QED
  BY <1>4, <1>5, <1>6, Zenon DEF WroteInv

\* What holds of a message that was written holds when more has been
\* written and more calls have been made.
LEMMA StaysPassedOn ==
    ASSUME NEW n \in Nat, \A i \in 1 .. n : wrote'[i] = wrote[i],
           Range(calls) \subseteq Range(calls'),
           NEW i \in 1 .. n, PassedOn(i)
    PROVE  PassedOn(i)'
<1>1. wrote'[i] = wrote[i] /\ \A k \in 1 .. i - 1 : wrote'[k] = wrote[k]
  BY SMTT(30)
<1> QED
  BY <1>1, Zenon DEF PassedOn

\* The reader is where it was, with one more message to read.
LEMMA WriteReadInv ==
    ASSUME TypeInv, NEW n \in 0 .. Len(wrote), ReadInv(n),
           NEW m \in Messages, NinjaWrite(m)
    PROVE  TypeInv' /\ ReadInv(n)'
<1>1. PICK ok \in BOOLEAN : /\ wrote' = Append(wrote, [of |-> m, ok |-> ok])
                            /\ pipe' = Append(pipe, IF ok THEN m ELSE Garbled)
  BY Zenon DEF NinjaWrite
<1> DEFINE w == [of |-> m, ok |-> ok]
           p == IF ok THEN m ELSE Garbled
<1>2. w \in [of : Messages, ok : BOOLEAN] /\ p = Sent(w) /\ p \in Messages \cup {Garbled, Cut}
  BY Zenon DEF Sent
<1>3. wrote' = Append(wrote, w) /\ pipe' = Append(pipe, p)
  BY <1>1, Zenon
<1> HIDE DEF w, p
<1>4. UNCHANGED <<ninja, opener, run, calls>> /\ ninja = "writing" /\ run # "done"
  BY Zenon DEF NinjaWrite
<1>5. /\ wrote' \in Seq([of : Messages, ok : BOOLEAN])
      /\ Len(wrote) \in Nat /\ Len(wrote') = Len(wrote) + 1
      /\ \A i \in 1 .. Len(wrote) : wrote'[i] = wrote[i]
      /\ wrote'[Len(wrote) + 1] = w
  BY <1>2, <1>3, OneMore, SMTT(30) DEF TypeInv
<1>6. /\ pipe' \in Seq(Messages \cup {Garbled, Cut})
      /\ Len(pipe) \in Nat /\ Len(pipe') = Len(pipe) + 1
      /\ \A i \in 1 .. Len(pipe) : pipe'[i] = pipe[i]
      /\ pipe'[Len(pipe) + 1] = p
  BY <1>2, <1>3, OneMore, SMTT(30) DEF TypeInv
<1>7. TypeInv'
  BY <1>4, <1>5, <1>6, Zenon DEF TypeInv
<1>8. Len(pipe) = Len(wrote) - n
  BY <1>4, Zenon DEF ReadInv
<1>9. n \in 0 .. Len(wrote') /\ Len(pipe') = Len(wrote') - n
  BY <1>5, <1>6, <1>8, SMTT(30)
<1>10. ASSUME NEW i \in 1 .. Len(wrote') - n PROVE pipe'[i] = Sent(wrote'[n + i])
  <2>1. CASE i \in 1 .. Len(wrote) - n
    <3>1. n + i \in 1 .. Len(wrote) /\ i \in 1 .. Len(pipe)
      BY <1>5, <1>8, <2>1, SMTT(30)
    <3> QED
      BY <1>5, <1>6, <2>1, <3>1, Zenon DEF ReadInv
  <2>2. CASE i = Len(pipe) + 1
    <3>1. n + i = Len(wrote) + 1
      BY <1>5, <1>6, <1>8, <2>2, SMTT(30)
    <3> QED
      BY <1>2, <1>5, <1>6, <2>2, <3>1, Zenon
  <2> QED
    BY <1>5, <1>6, <1>8, <2>1, <2>2, SMTT(30)
<1>11. \A i \in 1 .. n : PassedOn(i)'
  <2> TAKE i \in 1 .. n
  <2>1. \A k \in 1 .. n : wrote'[k] = wrote[k]
    BY <1>5, SMTT(30)
  <2>2. PassedOn(i)
    BY Zenon DEF ReadInv
  <2> QED
    BY <1>4, <2>1, <2>2, StaysPassedOn, SMTT(30)
<1>12. \A i \in DOMAIN calls' : \E k \in 1 .. n : wrote'[k].ok /\ wrote'[k].of = calls'[i]
  <2>1. \A k \in 1 .. n : wrote'[k] = wrote[k]
    BY <1>5, SMTT(30)
  <2> QED
    BY <1>4, <2>1, ZenonT(40) DEF ReadInv
<1>13. /\ Len(pipe') \in {Len(wrote') - n, Len(wrote') - n + 1}
       /\ Len(pipe') # Len(wrote') - n + 1
       /\ run' # "done"
  BY <1>4, <1>5, <1>9, SMTT(30)
<1> QED
  BY <1>7, <1>9, <1>10, <1>11, <1>12, <1>13, Zenon DEF ReadInv
-----------------------------------------------------------------------------
(* The reader reads *)

\* The head of the fifo is the first message that has not been read.
LEMMA NextToRead ==
    ASSUME TypeInv, NEW n \in 0 .. Len(wrote), ReadInv(n), pipe # <<>>, Head(pipe) # Cut
    PROVE  /\ n + 1 \in 1 .. Len(wrote) /\ n \in Nat /\ Len(wrote) \in Nat
           /\ Head(pipe) = Sent(wrote[n + 1])
           /\ wrote[n + 1].of \in Messages /\ wrote[n + 1].ok \in BOOLEAN
<1>1. Len(wrote) \in Nat /\ Len(pipe) \in Nat /\ Len(pipe) # 0 /\ Head(pipe) = pipe[1]
  BY SMTT(30) DEF TypeInv
<1>2. n < Len(wrote)
  <2> SUFFICES ASSUME n = Len(wrote) PROVE FALSE
    BY <1>1, SMTT(30)
  <2>1. Len(pipe) = 1 /\ Len(pipe) = Len(wrote) - n + 1
    BY <1>1, SMTT(30) DEF ReadInv
  <2> QED
    BY <1>1, <2>1, Zenon DEF ReadInv
<1>3. 1 \in 1 .. Len(wrote) - n
  BY <1>1, <1>2, SMTT(30)
<1>4. n + 1 \in 1 .. Len(wrote)
  BY <1>1, <1>2, SMTT(30)
<1>5. wrote[n + 1] \in [of : Messages, ok : BOOLEAN]
  <2> DEFINE S == [of : Messages, ok : BOOLEAN]
  <2>1. wrote \in Seq(S)
    BY Zenon DEF TypeInv
  <2> HIDE DEF S
  <2>2. wrote[n + 1] \in S
    BY <1>4, <2>1, SMTT(30)
  <2> QED
    BY <2>2, Zenon DEF S
<1> QED
  BY <1>1, <1>3, <1>4, <1>5, SMTT(30) DEF ReadInv

\* It has not been passed on yet, and neither has the end of the build.
LEMMA NotPassedOn ==
    ASSUME TypeInv, WroteInv, NEW n \in 0 .. Len(wrote), ReadInv(n), n + 1 \in 1 .. Len(wrote)
    PROVE  wrote[n + 1].of \notin Range(calls) /\ BuildFinished \notin Range(calls)
<1>1. DOMAIN wrote = 1 .. Len(wrote) /\ Len(wrote) \in Nat
  BY SMTT(30) DEF TypeInv
<1>2. ASSUME NEW c \in Range(calls) PROVE c # wrote[n + 1].of /\ c # BuildFinished
  <2>1. PICK i \in DOMAIN calls : calls[i] = c
    BY <1>2, Zenon DEF Range
  <2>2. PICK k \in 1 .. n : wrote[k].of = c
    BY <2>1, Zenon DEF ReadInv
  <2> DEFINE N == Len(wrote)
  <2> HIDE DEF N
  <2>3. N \in Nat /\ n \in 0 .. N /\ n + 1 \in 1 .. N /\ N = Len(wrote)
    BY <1>1, Zenon DEF N
  <2>4. k \in 1 .. N /\ k # n + 1 /\ k # N
    BY <2>3, SMTT(30)
  <2> QED
    BY <1>1, <2>2, <2>3, <2>4, Zenon DEF WroteInv
<1> QED
  BY <1>2, Zenon

\* One message has been read and dealt with, by one call or by none.
LEMMA Advance ==
    ASSUME TypeInv, NEW n \in 0 .. Len(wrote), ReadInv(n), pipe # <<>>, Head(pipe) # Cut,
           pipe' = Tail(pipe), UNCHANGED <<ninja, wrote, opener, run>>, run = "reading",
           \/ calls' = calls
           \/ wrote[n + 1].ok /\ calls' = Append(calls, wrote[n + 1].of),
           PassedOn(n + 1)'
    PROVE  TypeInv' /\ n + 1 \in 0 .. Len(wrote') /\ ReadInv(n + 1)'
<1> DEFINE x == n + 1
<1>1. /\ x \in 1 .. Len(wrote) /\ n \in Nat /\ Len(wrote) \in Nat /\ wrote[x].of \in Messages
      /\ x = n + 1
  BY NextToRead, Zenon
<1>2. /\ pipe' \in Seq(Messages \cup {Garbled, Cut})
      /\ Len(pipe) \in Nat /\ Len(pipe) # 0 /\ Len(pipe') = Len(pipe) - 1
      /\ \A i \in 1 .. Len(pipe) - 1 : pipe'[i] = pipe[i + 1]
  BY SMTT(30) DEF TypeInv
<1>3. /\ calls' \in Seq(Messages)
      /\ Range(calls) \subseteq Range(calls')
      /\ \A i \in DOMAIN calls' : \/ i \in DOMAIN calls /\ calls'[i] = calls[i]
                                  \/ wrote[x].ok /\ calls'[i] = wrote[x].of
  <2>1. CASE calls' = calls
    BY <2>1, Zenon DEF TypeInv
  <2>2. CASE wrote[x].ok /\ calls' = Append(calls, wrote[x].of)
    <3>1. calls \in Seq(Messages) /\ DOMAIN calls = 1 .. Len(calls) /\ Len(calls) \in Nat
      BY SMTT(30) DEF TypeInv
    <3>2. \A i \in 1 .. Len(calls) + 1 : i \in 1 .. Len(calls) \/ i = Len(calls) + 1
      BY <3>1, SMTT(30)
    <3>3. /\ calls' \in Seq(Messages)
          /\ DOMAIN calls' = 1 .. Len(calls) + 1
          /\ \A i \in 1 .. Len(calls) : calls'[i] = calls[i]
          /\ calls'[Len(calls) + 1] = wrote[x].of
          /\ Range(calls') = Range(calls) \cup {wrote[x].of}
      BY <1>1, <2>2, <3>1, OneMore, SMTT(30)
    <3> HIDE DEF x
    <3> QED
      BY <2>2, <3>1, <3>2, <3>3, Zenon
  <2> QED
    BY <2>1, <2>2, Zenon
<1>4. TypeInv'
  BY <1>2, <1>3, Zenon DEF TypeInv
<1>5. PassedOn(x)'
  BY Zenon
<1> HIDE DEF x
<1>6. x \in 0 .. Len(wrote') /\ Len(pipe') \in {Len(wrote') - x, Len(wrote') - x + 1}
  BY <1>1, <1>2, SMTT(30) DEF ReadInv
<1>7. ASSUME NEW i \in 1 .. Len(wrote') - x PROVE pipe'[i] = Sent(wrote'[x + i])
  <2>1. /\ i + 1 \in 1 .. Len(wrote) - n /\ n + (i + 1) = x + i
        /\ i \in 1 .. Len(pipe) - 1
    BY <1>1, <1>2, <1>6, SMTT(30)
  <2>2. pipe[i + 1] = Sent(wrote[n + (i + 1)])
    BY <2>1, Zenon DEF ReadInv
  <2> QED
    BY <1>2, <2>1, <2>2, Zenon
<1>8. ASSUME Len(pipe') = Len(wrote') - x + 1 PROVE pipe'[Len(pipe')] = Cut /\ ninja' = "exited"
  <2>1. Len(pipe) = Len(wrote) - n + 1
    BY <1>1, <1>2, <1>8, SMTT(30)
  <2>2. pipe[Len(pipe)] = Cut /\ ninja = "exited"
    BY <2>1, Zenon DEF ReadInv
  <2>3. Len(pipe') \in 1 .. Len(pipe) - 1 /\ Len(pipe') + 1 = Len(pipe)
    BY <1>1, <1>2, <1>8, SMTT(30)
  <2>4. pipe'[Len(pipe')] = pipe[Len(pipe') + 1]
    BY <1>2, <2>3, Zenon
  <2> QED
    BY <2>2, <2>3, <2>4, Zenon
<1>9. \A i \in 1 .. x : PassedOn(i)'
  <2> TAKE i \in 1 .. x
  <2>1. CASE i = x
    BY <1>5, <2>1, Zenon
  <2>2. CASE i \in 1 .. n
    <3>1. PassedOn(i)
      BY <2>2, Zenon DEF ReadInv
    <3> QED
      BY <1>1, <1>3, <2>2, <3>1, StaysPassedOn, Zenon
  <2> QED
    BY <1>1, <2>1, <2>2, SMTT(30)
<1>10. ASSUME NEW i \in DOMAIN calls'
       PROVE  \E k \in 1 .. x : wrote'[k].ok /\ wrote'[k].of = calls'[i]
  <2>1. CASE i \in DOMAIN calls /\ calls'[i] = calls[i]
    <3>1. PICK k \in 1 .. n : wrote[k].ok /\ wrote[k].of = calls[i]
      BY <2>1, Zenon DEF ReadInv
    <3>2. k \in 1 .. x
      BY <1>1, SMTT(30)
    <3> QED
      BY <2>1, <3>1, <3>2, Zenon
  <2>2. CASE wrote[x].ok /\ calls'[i] = wrote[x].of
    <3>1. x \in 1 .. x
      BY <1>1, SMTT(30)
    <3> QED
      BY <2>2, <3>1, Zenon
  <2> QED
    BY <1>3, <2>1, <2>2, Zenon
<1>11. run' # "done"
  BY Zenon
<1>12. ReadInv(x)'
  BY <1>6, <1>7, <1>8, <1>9, <1>10, <1>11, Zenon DEF ReadInv
<1> QED
  BY <1>1, <1>4, <1>6, <1>12, Zenon

\* A new call keeps the calls in order, when the map of running edges goes
\* with it.
LEMMA CallMade ==
    ASSUME TypeInv, CallsInv, NEW m \in Messages, calls' = Append(calls, m),
           m \notin Range(calls), BuildFinished \notin Range(calls),
           running' \subseteq Edges,
           \A e \in Edges : e \in running' <=> (e \in running \/ m = Started(e)) /\ m # Finished(e),
           \A e \in Edges : m = Finished(e) => e \in running
    PROVE  CallsInv'
<1> DEFINE n == Len(calls)
<1>1. /\ DOMAIN calls = 1 .. n /\ n \in Nat
      /\ DOMAIN calls' = 1 .. n + 1 /\ Len(calls') = n + 1
      /\ \A i \in 1 .. n : calls'[i] = calls[i]
      /\ calls'[n + 1] = m
      /\ Range(calls') = Range(calls) \cup {m}
  BY OneMore, SMTT(30) DEF TypeInv
<1> HIDE DEF n
<1>2. \A i \in 1 .. n + 1 : i \in 1 .. n \/ i = n + 1
  BY <1>1, SMTT(30)
<1>3. \A i \in 1 .. n : calls[i] \in Range(calls)
  BY <1>1, Zenon DEF Range
<1>4. \A c \in Range(calls) : \E i \in 1 .. n : calls[i] = c
  BY <1>1, Zenon DEF Range
<1>5. IsInjective(calls)'
  BY <1>1, <1>2, <1>3, SMTT(30) DEF CallsInv, IsInjective
<1>6. ASSUME NEW e \in Edges, Finished(e) \in Range(calls) PROVE Started(e) \in Range(calls)
  <2>1. PICK i \in 1 .. n : calls[i] = Finished(e)
    BY <1>4, <1>6, Zenon
  <2>2. PICK k \in 1 .. i - 1 : calls[k] = Started(e)
    BY <1>1, <2>1, Zenon DEF CallsInv
  <2>3. k \in 1 .. n
    BY <1>1, SMTT(30)
  <2> QED
    BY <1>3, <2>2, <2>3, Zenon
<1>7. ASSUME NEW e \in Edges
      PROVE  e \in running' <=> Started(e) \in Range(calls') /\ Finished(e) \notin Range(calls')
  BY <1>1, <1>6, Kinds, SMTT(30) DEF CallsInv
<1>8. ASSUME NEW i \in DOMAIN calls', NEW e \in Edges, calls'[i] = Finished(e)
      PROVE  \E k \in 1 .. i - 1 : calls'[k] = Started(e)
  <2>1. CASE i \in 1 .. n
    <3>1. PICK k \in 1 .. i - 1 : calls[k] = Started(e)
      BY <1>1, <1>8, <2>1, Zenon DEF CallsInv
    <3>2. k \in 1 .. n
      BY <1>1, <2>1, SMTT(30)
    <3> QED
      BY <1>1, <3>1, <3>2, Zenon
  <2>2. CASE i = n + 1
    <3>1. Started(e) \in Range(calls)
      BY <1>1, <1>8, <2>2, Zenon DEF CallsInv
    <3>2. PICK k \in 1 .. n : calls[k] = Started(e)
      BY <1>4, <3>1, Zenon
    <3>3. k \in 1 .. i - 1 /\ calls'[k] = Started(e)
      BY <1>1, <2>2, <3>2, SMTT(30)
    <3> QED
      BY <3>3, Zenon
  <2> QED
    BY <1>1, <1>2, <2>1, <2>2, Zenon
<1>9. \A i \in DOMAIN calls' : calls'[i] = BuildFinished => i = Len(calls')
  BY <1>1, <1>2, <1>3, Zenon
<1> QED
  BY <1>5, <1>7, <1>8, <1>9, Zenon DEF CallsInv

\* A readable message is what its writer meant.
LEMMA Readable ==
    ASSUME TypeInv, NEW n \in 0 .. Len(wrote), ReadInv(n), pipe # <<>>, Head(pipe) \in Messages
    PROVE  Head(pipe) # Cut /\ wrote[n + 1].ok /\ wrote[n + 1].of = Head(pipe)
<1>1. Head(pipe) # Cut /\ Head(pipe) # Garbled
  BY Kinds, Zenon
<1>2. Head(pipe) = Sent(wrote[n + 1])
  BY <1>1, NextToRead, Zenon
<1> QED
  BY <1>1, <1>2, Zenon DEF Sent

\* A message that leads to a call.
LEMMA ReadPasses ==
    ASSUME TypeInv, WroteInv, CallsInv, NEW n \in 0 .. Len(wrote), ReadInv(n),
           run = "reading", pipe # <<>>, Head(pipe) \in Messages,
           pipe' = Tail(pipe), UNCHANGED <<ninja, wrote, opener, run>>,
           calls' = Append(calls, Head(pipe)), running' \subseteq Edges,
           \A e \in Edges : e \in running' <=>
              (e \in running \/ Head(pipe) = Started(e)) /\ Head(pipe) # Finished(e),
           \A e \in Edges : Head(pipe) = Finished(e) => e \in running
    PROVE  TypeInv' /\ CallsInv' /\ n + 1 \in 0 .. Len(wrote') /\ ReadInv(n + 1)'
<1>1. Head(pipe) # Cut /\ wrote[n + 1].ok /\ wrote[n + 1].of = Head(pipe)
  BY Readable, Zenon
<1>2. n + 1 \in 1 .. Len(wrote)
  BY <1>1, NextToRead, Zenon
<1>3. Head(pipe) \notin Range(calls) /\ BuildFinished \notin Range(calls)
  BY <1>1, <1>2, NotPassedOn, Zenon
<1>4. CallsInv'
  BY <1>3, CallMade, Zenon
<1>5. wrote'[n + 1].of \in Range(calls')
  <2>1. calls \in Seq(Messages)
    BY Zenon DEF TypeInv
  <2>2. Range(Append(calls, Head(pipe))) = Range(calls) \cup {Head(pipe)}
    BY <2>1, OneMore, SMTT(30)
  <2> QED
    BY <1>1, <2>2, Zenon
<1>6. PassedOn(n + 1)'
  BY <1>5, Zenon DEF PassedOn
<1> QED
  BY <1>1, <1>4, <1>6, Advance, Zenon

\* The end of an edge that is not running: the message that started it came
\* before and was unreadable.
LEMMA ReadDropped ==
    ASSUME TypeInv, WroteInv, CallsInv, NEW n \in 0 .. Len(wrote), ReadInv(n),
           pipe # <<>>, NEW e \in Edges, Head(pipe) = Finished(e), e \notin running
    PROVE  PassedOn(n + 1)
<1>1. Head(pipe) # Cut /\ wrote[n + 1].of = Finished(e)
  BY Readable, Kinds, ZenonT(40)
<1>2. n + 1 \in 1 .. Len(wrote) /\ n \in Nat /\ Len(wrote) \in Nat
  BY <1>1, NextToRead, Zenon
<1>3. Finished(e) \notin Range(calls)
  BY <1>1, <1>2, NotPassedOn, Zenon
<1>4. Started(e) \notin Range(calls)
  BY <1>3, Zenon DEF CallsInv
<1>5. n + 1 \in DOMAIN wrote
  BY <1>2, SMTT(30) DEF TypeInv
<1>6. PICK k \in 1 .. (n + 1) - 1 : wrote[k].of = Started(e)
  BY <1>1, <1>5, Zenon DEF WroteInv
<1>7. k \in 1 .. n /\ k \in 1 .. Len(wrote)
  BY <1>2, SMTT(30)
<1>8. PassedOn(k)
  BY <1>7, Zenon DEF ReadInv
<1>9. Started(e).type # "finished"
  BY Zenon DEF Started
<1>10. ~ wrote[k].ok
  BY <1>4, <1>6, <1>8, <1>9, Zenon DEF PassedOn
<1>11. wrote[k] \in [of : Messages, ok : BOOLEAN]
  <2> DEFINE S == [of : Messages, ok : BOOLEAN]
  <2>1. wrote \in Seq(S)
    BY Zenon DEF TypeInv
  <2> HIDE DEF S
  <2>2. wrote[k] \in S
    BY <1>7, <2>1, SMTT(30)
  <2> QED
    BY <2>2, Zenon DEF S
<1>12. wrote[k] = [of |-> Started(e), ok |-> FALSE]
  BY <1>6, <1>10, <1>11, Zenon
<1>13. wrote[n + 1].of.type = "finished" /\ wrote[n + 1].of.edge = e
  BY <1>1, Kinds, Zenon
<1> QED
  BY <1>6, <1>12, <1>13, Zenon DEF PassedOn

\* A step of Read keeps the invariant: a message more has been read, or
\* there is none.
LEMMA ReadKeeps ==
    ASSUME TypeInv, WroteInv, CallsInv, NEW n \in 0 .. Len(wrote), ReadInv(n), Read
    PROVE  /\ TypeInv' /\ CallsInv'
           /\ \E k \in 0 .. Len(wrote') : ReadInv(k)'
<1>1. running \subseteq Edges
  BY Zenon DEF CallsInv
<1>2. ASSUME NEW e \in Edges, ReadStarted(e)
      PROVE  TypeInv' /\ CallsInv' /\ n + 1 \in 0 .. Len(wrote') /\ ReadInv(n + 1)'
  <2>1. /\ run = "reading" /\ pipe # <<>> /\ Head(pipe) = Started(e) /\ Head(pipe) \in Messages
        /\ pipe' = Tail(pipe) /\ calls' = Append(calls, Head(pipe))
        /\ running' = running \cup {e} /\ UNCHANGED <<ninja, wrote, opener, run>>
    BY <1>2, Kinds, ZenonT(40) DEF ReadStarted, ninjaVars
  <2>2. /\ running' \subseteq Edges
        /\ \A f \in Edges : f \in running' <=>
              (f \in running \/ Head(pipe) = Started(f)) /\ Head(pipe) # Finished(f)
        /\ \A f \in Edges : Head(pipe) # Finished(f)
    BY <1>1, <2>1, Kinds, Zenon
  <2> QED
    BY <2>1, <2>2, ReadPasses, Zenon
<1>3. ASSUME NEW e \in Edges, ReadFinished(e)
      PROVE  TypeInv' /\ CallsInv' /\ n + 1 \in 0 .. Len(wrote') /\ ReadInv(n + 1)'
  <2>1. /\ run = "reading" /\ pipe # <<>> /\ Head(pipe) = Finished(e) /\ Head(pipe) \in Messages
        /\ pipe' = Tail(pipe) /\ running' = running \ {e} /\ UNCHANGED <<ninja, wrote, opener, run>>
    BY <1>3, Kinds, Zenon DEF ReadFinished, ninjaVars
  <2>2. CASE e \in running
    <3>1. calls' = Append(calls, Head(pipe))
      BY <1>3, <2>1, <2>2, Zenon DEF ReadFinished
    <3>2. /\ running' \subseteq Edges
          /\ \A f \in Edges : f \in running' <=>
                (f \in running \/ Head(pipe) = Started(f)) /\ Head(pipe) # Finished(f)
          /\ \A f \in Edges : Head(pipe) = Finished(f) => f \in running
      BY <1>1, <2>1, <2>2, Kinds, Zenon
    <3> QED
      BY <2>1, <3>1, <3>2, ReadPasses, Zenon
  <2>3. CASE e \notin running
    <3>1. calls' = calls /\ running' = running
      BY <1>3, <2>1, <2>3, Zenon DEF ReadFinished
    <3>2. PassedOn(n + 1)
      BY <2>1, <2>3, ReadDropped, Zenon
    <3>3. PassedOn(n + 1)'
      BY <2>1, <3>1, <3>2, Zenon DEF PassedOn
    <3>4. Head(pipe) # Cut
      BY <2>1, Kinds, Zenon
    <3>5. CallsInv'
      BY <3>1, Zenon DEF CallsInv
    <3> QED
      BY <2>1, <3>1, <3>3, <3>4, <3>5, Advance, Zenon
  <2> QED
    BY <2>2, <2>3, Zenon
<1>4. ASSUME ReadBuild
      PROVE  TypeInv' /\ CallsInv' /\ n + 1 \in 0 .. Len(wrote') /\ ReadInv(n + 1)'
  <2>1. /\ run = "reading" /\ pipe # <<>> /\ Head(pipe) \in {Total, BuildFinished}
        /\ Head(pipe) \in Messages
        /\ pipe' = Tail(pipe) /\ calls' = Append(calls, Head(pipe))
        /\ running' = running /\ UNCHANGED <<ninja, wrote, opener, run>>
    BY <1>4, Kinds, Zenon DEF ReadBuild, ninjaVars
  <2>2. \A f \in Edges : Head(pipe) # Started(f) /\ Head(pipe) # Finished(f)
    BY <2>1, Kinds, Zenon
  <2> QED
    BY <1>1, <2>1, <2>2, ReadPasses, Zenon
<1>5. ASSUME ReadGarbled
      PROVE  TypeInv' /\ CallsInv' /\ n + 1 \in 0 .. Len(wrote') /\ ReadInv(n + 1)'
  <2>1. /\ run = "reading" /\ pipe # <<>> /\ Head(pipe) = Garbled
        /\ pipe' = Tail(pipe) /\ UNCHANGED <<ninja, wrote, opener, run, running, calls>>
    BY <1>5, Zenon DEF ReadGarbled, ninjaVars
  <2>2. Head(pipe) # Cut
    BY <2>1, Kinds, Zenon
  <2>3. Head(pipe) = Sent(wrote[n + 1]) /\ wrote[n + 1].of \in Messages
    BY <2>1, <2>2, NextToRead, Zenon
  <2>4. ~ wrote[n + 1].ok
    BY <2>1, <2>3, Kinds, Zenon DEF Sent
  <2>5. PassedOn(n + 1)'
    BY <2>1, <2>4, Zenon DEF PassedOn
  <2>6. CallsInv'
    BY <2>1, Zenon DEF CallsInv
  <2> QED
    BY <2>1, <2>2, <2>5, <2>6, Advance, Zenon
<1>6. ASSUME ReadEnd PROVE TypeInv' /\ CallsInv' /\ ReadInv(n)' /\ n \in 0 .. Len(wrote')
  <2>1. UNCHANGED <<ninja, wrote, pipe, opener, running, calls>>
    BY <1>6, Zenon DEF ReadEnd, ninjaVars
  <2>2. TypeInv' /\ CallsInv'
    BY <2>1, Zenon DEF TypeInv, CallsInv
  <2>3. n = Len(wrote)
    <3>1. Len(wrote) \in Nat /\ Len(pipe) \in Nat
      BY SMTT(30) DEF TypeInv
    <3>2. CASE pipe = <<>>
      <4>1. Len(pipe) = 0
        BY <3>2, Zenon
      <4> QED
        BY <3>1, <4>1, SMTT(30) DEF ReadInv
    <3>3. CASE pipe # <<>> /\ Head(pipe) = Cut
      <4> SUFFICES ASSUME n # Len(wrote) PROVE FALSE
        BY Zenon
      <4>1. 1 \in 1 .. Len(wrote) - n /\ n + 1 \in 1 .. Len(wrote)
        BY <3>1, SMTT(30)
      <4>2. Cut = Sent(wrote[n + 1])
        BY <3>3, <4>1, SMTT(30) DEF ReadInv, TypeInv
      <4> DEFINE S == [of : Messages, ok : BOOLEAN]
      <4>3. wrote \in Seq(S)
        BY Zenon DEF TypeInv
      <4> HIDE DEF S
      <4>4. wrote[n + 1] \in S
        BY <4>1, <4>3, SMTT(30)
      <4>5. wrote[n + 1].of \in Messages
        BY <4>4, Zenon DEF S
      <4> QED
        BY <4>2, <4>5, Kinds, Zenon DEF Sent
    <3> QED
      BY <1>6, <3>2, <3>3, Zenon DEF ReadEnd
  <2>4. ReadInv(n)'
    BY <2>1, <2>3, SMTT(30) DEF ReadInv, PassedOn
  <2> QED
    BY <2>1, <2>2, <2>4, Zenon
<1> QED
  BY <1>2, <1>3, <1>4, <1>5, <1>6, Zenon DEF Read
-----------------------------------------------------------------------------
(* The invariant *)

\* At the start nothing has been written, read or called.
LEMMA InvInit == Init => IInv
<1> SUFFICES ASSUME Init PROVE IInv
  BY Zenon
<1>1. /\ wrote = <<>> /\ pipe = <<>> /\ calls = <<>> /\ running = {}
      /\ run = "select" /\ opener = "opening" /\ closing = "none"
  BY Zenon DEF Init
<1>2. TypeInv /\ WroteInv
  BY <1>1, SMTT(30) DEF TypeInv, WroteInv
<1>3. IsInjective(calls) /\ Range(calls) = {}
  BY <1>1, SMTT(30) DEF IsInjective, Range
<1>4. CallsInv
  BY <1>1, <1>3, SMTT(30) DEF CallsInv
<1>5. Len(wrote) = 0 /\ Len(pipe) = 0 /\ DOMAIN calls = {}
  BY <1>1, SMTT(30)
<1>6. 0 \in 0 .. Len(wrote) /\ ReadInv(0)
  BY <1>1, <1>5, SMTT(30) DEF ReadInv
<1> QED
  BY <1>1, <1>2, <1>4, <1>6, Zenon DEF IInv

\* The steps that neither write nor read leave what was read as it was.
LEMMA NoMessage ==
    ASSUME TypeInv, WroteInv, CallsInv, NEW n \in 0 .. Len(wrote), ReadInv(n),
           UNCHANGED <<wrote, pipe, running, calls>>, ninja = "exited" => ninja' = "exited",
           run' = "done" /\ opener' = "returned" => run = "done" /\ opener = "returned"
    PROVE  TypeInv' /\ WroteInv' /\ CallsInv' /\ \E k \in 0 .. Len(wrote') : ReadInv(k)'
<1>1. TypeInv' /\ WroteInv' /\ CallsInv'
  BY Zenon DEF TypeInv, WroteInv, CallsInv
<1>2. ReadInv(n)'
  BY ZenonT(40) DEF ReadInv, PassedOn
<1> QED
  BY <1>1, <1>2, Zenon

\* Ninja ends in the middle of a message.
LEMMA CutKeeps ==
    ASSUME TypeInv, NEW n \in 0 .. Len(wrote), ReadInv(n), ninja # "exited", ninja' = "exited",
           pipe' = Append(pipe, Cut), UNCHANGED <<wrote, opener, run, calls>>
    PROVE  TypeInv' /\ ReadInv(n)'
<1>1. Len(wrote) \in Nat /\ Len(pipe) \in Nat /\ Len(pipe) = Len(wrote) - n
  BY SMTT(30) DEF TypeInv, ReadInv
<1>2. /\ pipe' \in Seq(Messages \cup {Garbled, Cut})
      /\ Len(pipe') = Len(pipe) + 1
      /\ \A i \in 1 .. Len(pipe) : pipe'[i] = pipe[i]
      /\ pipe'[Len(pipe) + 1] = Cut
  BY OneMore, SMTT(30) DEF TypeInv
<1>3. TypeInv'
  BY <1>2, Zenon DEF TypeInv
<1>4. \A i \in 1 .. Len(wrote') - n : pipe'[i] = Sent(wrote'[n + i])
  BY <1>1, <1>2, Zenon DEF ReadInv
<1>5. Len(pipe') = Len(wrote') - n + 1 /\ pipe'[Len(pipe')] = Cut
  BY <1>1, <1>2, Zenon
<1>6. ReadInv(n)'
  BY <1>4, <1>5, Zenon DEF ReadInv, PassedOn
<1> QED
  BY <1>3, <1>6, Zenon

\* Every step of ninja, the goroutines and Close keeps the invariant.
LEMMA InvNext == IInv /\ [Next]_vars => IInv'
<1> SUFFICES ASSUME IInv, [Next]_vars PROVE IInv'
  BY Zenon
<1>1. TypeInv /\ WroteInv /\ CallsInv
  BY Zenon DEF IInv
<1>2. PICK n \in 0 .. Len(wrote) : ReadInv(n)
  BY Zenon DEF IInv
<1>3. (closing = "closed" => run = "done") /\ (run = "select" => opener # "returned")
  BY Zenon DEF IInv
<1> DEFINE Kept == TypeInv' /\ WroteInv' /\ CallsInv' /\ \E k \in 0 .. Len(wrote') : ReadInv(k)'
           Ends == (closing' = "closed" => run' = "done") /\ (run' = "select" => opener' # "returned")
<1> SUFFICES Kept /\ Ends
  BY Zenon DEF IInv
<1>4. ASSUME NEW m \in Messages, NinjaWrite(m) PROVE Kept /\ Ends
  <2>1. TypeInv' /\ ReadInv(n)' /\ n \in 0 .. Len(wrote')
    <3>1. TypeInv' /\ ReadInv(n)'
      BY <1>1, <1>2, <1>4, WriteReadInv, Zenon
    <3> QED
      BY <3>1, Zenon DEF ReadInv
  <2>2. PICK ok \in BOOLEAN : wrote' = Append(wrote, [of |-> m, ok |-> ok])
    BY <1>4, Zenon DEF NinjaWrite
  <2>3. m \in NinjaMessages /\ UNCHANGED <<opener, run, running, closing, calls>>
    BY <1>4, Zenon DEF NinjaWrite
  <2>4. WroteInv'
    BY <1>1, <2>2, <2>3, WriteWroteInv, Zenon
  <2>5. CallsInv'
    BY <1>1, <2>3, Zenon DEF CallsInv
  <2> QED
    BY <1>3, <2>1, <2>3, <2>4, <2>5, Zenon
<1>5. CASE NinjaExit
  <2>1. ninja # "exited" /\ ninja' = "exited" /\ UNCHANGED <<wrote, opener, run, running, closing, calls>>
    BY <1>5, Zenon DEF NinjaExit
  <2>2. CASE pipe' = pipe
    BY <1>1, <1>2, <1>3, <2>1, <2>2, NoMessage, Zenon
  <2>3. CASE pipe' = Append(pipe, Cut)
    <3>1. TypeInv' /\ ReadInv(n)'
      BY <1>1, <1>2, <2>1, <2>3, CutKeeps, Zenon
    <3>2. WroteInv' /\ CallsInv'
      BY <1>1, <2>1, SMTT(30) DEF WroteInv, CallsInv
    <3> QED
      BY <1>3, <2>1, <3>1, <3>2, Zenon
  <2> QED
    BY <1>5, <2>2, <2>3, Zenon DEF NinjaExit
<1>6. CASE Read
  <2>1. UNCHANGED <<wrote, opener, closing>> /\ run = "reading" /\ run' \in {"reading", "done"}
    BY <1>6, Zenon DEF Read, ReadStarted, ReadFinished, ReadBuild, ReadGarbled, ReadEnd, ninjaVars
  <2>2. TypeInv' /\ CallsInv' /\ \E k \in 0 .. Len(wrote') : ReadInv(k)'
    BY <1>1, <1>2, <1>6, ReadKeeps, Zenon
  <2>3. WroteInv'
    BY <1>1, <2>1, Zenon DEF WroteInv
  <2> QED
    BY <1>3, <2>1, <2>2, <2>3, Zenon
<1>7. CASE OpenFifo \/ OpenFails \/ RunReceive \/ RunReceiveNil \/ RunCancel
  <2>1. /\ UNCHANGED <<wrote, pipe, running, calls, closing>>
        /\ ninja = "exited" => ninja' = "exited"
        /\ run' = "done" /\ opener' = "returned" => run = "done" /\ opener = "returned"
        /\ Ends
    BY <1>3, <1>7, Zenon DEF OpenFifo, OpenFails, RunReceive, RunReceiveNil, RunCancel, ninjaVars
  <2> QED
    BY <1>1, <1>2, <2>1, NoMessage, Zenon
<1>8. CASE Close \/ CloseDone \/ CloseTimeout \/ Returned \/ UNCHANGED vars
  <2>1. UNCHANGED <<ninja, wrote, pipe, opener, run, running, calls>> /\ Ends
    BY <1>3, <1>8, Zenon DEF Close, CloseDone, CloseTimeout, Returned, vars, ninjaVars
  <2> QED
    BY <1>1, <1>2, <2>1, NoMessage, Zenon
<1> QED
  BY <1>4, <1>5, <1>6, <1>7, <1>8, Zenon DEF Next

\* What ninja wrote and the reader passed on, in every reachable state.
LEMMA ReaderInvariant == Spec => []IInv
  BY InvInit, InvNext, PTL DEF Spec

(***************************************************************************)
(* CloseDelivers: when Close has returned without a timeout, and the       *)
(* reader had got the file, every message ninja wrote has been passed on,  *)
(* or could not be read, or ends an edge whose start could not be read.    *)
(***************************************************************************)
THEOREM NinjaReaderCloseDelivers == Spec => []CloseDelivers
<1>1. IInv => CloseDelivers
  <2> SUFFICES ASSUME IInv, closing = "closed", opener = "returned" PROVE AllPassedOn
    BY Zenon DEF CloseDelivers
  <2>1. PICK n \in 0 .. Len(wrote) : ReadInv(n)
    BY Zenon DEF IInv
  <2>2. n = Len(wrote) /\ DOMAIN wrote = 1 .. n
    BY <2>1, SMTT(30) DEF IInv, ReadInv, TypeInv
  <2> QED
    BY <2>1, <2>2, Zenon DEF ReadInv, AllPassedOn
<1> QED
  BY <1>1, ReaderInvariant, PTL

(***************************************************************************)
(* CallsWellFormed: an action is started and finished at most once and in  *)
(* that order, and Finish is the last call, for any messages lost.         *)
(***************************************************************************)
THEOREM NinjaReaderCallsWellFormed == Spec => []CallsWellFormed
<1>1. IInv => CallsWellFormed
  <2> SUFFICES ASSUME IInv PROVE CallsWellFormed
    BY Zenon
  <2>1. CallsInv /\ calls \in Seq(Messages) /\ DOMAIN calls = 1 .. Len(calls)
    BY SMTT(30) DEF IInv, TypeInv
  <2>2. ASSUME NEW i \in DOMAIN calls, calls[i].type = "finished"
        PROVE  \E k \in 1 .. i - 1 : calls[k] = Started(calls[i].edge)
    <3>1. calls[i] \in Messages
      BY <2>1, SMTT(30)
    <3>2. calls[i].edge \in Edges /\ calls[i] = Finished(calls[i].edge)
      BY <2>2, <3>1, Kinds, Zenon
    <3> QED
      BY <2>1, <3>2, Zenon DEF CallsInv
  <2>3. ASSUME BuildFinished \in Range(calls) PROVE calls[Len(calls)] = BuildFinished
    <3>1. PICK i \in DOMAIN calls : calls[i] = BuildFinished
      BY <2>3, Zenon DEF Range
    <3> QED
      BY <2>1, <3>1, Zenon DEF CallsInv
  <2> QED
    BY <2>1, <2>2, <2>3, Zenon DEF CallsWellFormed, CallsInv
<1> QED
  BY <1>1, ReaderInvariant, PTL
-----------------------------------------------------------------------------
(***************************************************************************)
(* SmartStatus: the scrolling region of the terminal, for any heights, any *)
(* requested table and any interleaving of the callers, the ticker and     *)
(* SIGWINCH.                                                               *)
(***************************************************************************)

\* The sizes are numbers and leave a line to scroll, on the screen too.
SizeInv ==
    /\ height \in Heights
    /\ tableMode \in BOOLEAN
    /\ requested \in Int
    /\ termHeight \in Int
    /\ tableHeight \in Int
    /\ tableMode => tableHeight < termHeight
    /\ screen.region \in Int
    /\ screen = [region |-> screen.region, cursor |-> screen.cursor, rows |-> screen.rows]
    /\ tableMode /\ flush # "flushed" => screen.region = termHeight - tableHeight

\* A table never takes all lines, with division and limits as in the code.
LEMMA TableHeight ==
    ASSUME requested \in Int, NEW h \in Nat
    PROVE  ComputeTableHeight(h) \in Int /\ ComputeTableHeight(h) < h
  BY SMTT(30) DEF ComputeTableHeight

\* What drawing the table does to the region, and what it leaves alone.
LEMMA TableRegion ==
    ASSUME screen = [region |-> screen.region, cursor |-> screen.cursor, rows |-> screen.rows],
           NEW h, NEW table, NEW actions, screen' = ActionTable(h, table, actions)
    PROVE  /\ screen'.region = h - table
           /\ screen' = [region |-> screen'.region, cursor |-> screen'.cursor, rows |-> screen'.rows]
<1> DEFINE rows == SubSeq(actions, 1, IF Len(actions) < table THEN Len(actions) ELSE table)
<1>1. screen' = [screen EXCEPT !.region = h - table, !.rows = rows]
  BY Zenon DEF ActionTable
<1> HIDE DEF rows
<1> QED
  BY <1>1, Zenon

\* tableMode is on by default, or if the height asked for is positive.
LEMMA ModeInit == ASSUME SmartInit PROVE tableMode \in BOOLEAN /\ requested \in Int
<1>1. CASE tableMode = TRUE /\ requested = 0
  BY <1>1, SMTT(30)
<1>2. CASE requested \in Requests /\ tableMode = (requested > 0)
  <2>1. requested \in Int
    BY <1>2, HeightsAssumption, Zenon
  <2>2. (requested > 0) \in BOOLEAN
    BY <2>1, SMTT(30)
  <2>3. tableMode = (requested > 0)
    BY <1>2, Zenon
  <2>4. tableMode \in BOOLEAN
    BY <2>2, <2>3, Zenon
  <2> QED
    BY <2>1, <2>4, Zenon
<1> QED
  BY <1>1, <1>2, Zenon DEF SmartInit

\* NewSmartStatusOutput begins with such sizes.
LEMMA SizeInvInit == SmartInit => SizeInv
<1> SUFFICES ASSUME SmartInit PROVE SizeInv
  BY Zenon
<1>1. height \in Nat /\ height \in Heights /\ requested \in Int /\ tableMode \in BOOLEAN
  <2>1. height \in Heights
    BY Zenon DEF SmartInit
  <2> QED
    BY <2>1, HeightsAssumption, ModeInit, Zenon
<1>2. termHeight = height /\ tableHeight = ComputeTableHeight(height)
  BY Zenon DEF SmartInit
<1>3. tableHeight \in Int /\ tableHeight < termHeight
  BY <1>1, <1>2, TableHeight, Zenon
<1>4. screen = [region |-> screen.region, cursor |-> screen.cursor, rows |-> screen.rows]
  BY Zenon DEF SmartInit, Released
<1>5. screen.region = IF tableMode THEN termHeight - tableHeight ELSE 0
  BY Zenon DEF SmartInit, Released
<1> QED
  BY <1>1, <1>2, <1>3, <1>4, <1>5, SMTT(30) DEF SizeInv

\* Every step keeps them: the callers do not touch them, the ticker draws
\* with the sizes there are, and SIGWINCH changes both at once.
LEMMA SizeInvNext == SizeInv /\ [SmartNext]_smartVars => SizeInv'
<1> SUFFICES ASSUME SizeInv, [SmartNext]_smartVars PROVE SizeInv'
  BY Zenon
<1>1. ASSUME UNCHANGED <<sizeVars, screen, height, flush>> PROVE SizeInv'
  BY <1>1, Zenon DEF SizeInv, sizeVars
<1>2. ASSUME UNCHANGED <<sizeVars, screen, height>>, flush' # "flushed", flush # "flushed"
      PROVE  SizeInv'
  BY <1>2, Zenon DEF SizeInv, sizeVars
<1>3. CASE \E a \in Actions : StartAction(a) \/ FinishAction(a)
  BY <1>1, <1>3, Zenon DEF StartAction, FinishAction, windowVars
<1>4. CASE Message \/ Write \/ TimerFires \/ TickReceive \/ WinchRange \/ UNCHANGED smartVars
  BY <1>1, <1>4, Zenon DEF Message, Write, TimerFires, TickReceive, WinchRange, smartVars, windowVars
<1>5. CASE FlushStart \/ StopTick \/ FlushLock
  BY <1>2, <1>5, Zenon DEF FlushStart, StopTick, FlushLock, windowVars
<1>6. CASE FlushRest
  BY <1>6, SMTT(30) DEF FlushRest, SizeInv, sizeVars, windowVars, Released
<1>7. CASE TickRedraw
  <2>1. screen' = ActionTable(termHeight, tableHeight, runningActions)
    BY <1>7, Zenon DEF TickRedraw
  <2>2. /\ screen'.region = termHeight - tableHeight
        /\ screen' = [region |-> screen'.region, cursor |-> screen'.cursor, rows |-> screen'.rows]
    BY <2>1, TableRegion, Zenon DEF SizeInv
  <2>3. UNCHANGED <<tableMode, requested, termHeight, tableHeight, height, flush>>
    BY <1>7, Zenon DEF TickRedraw, sizeVars, windowVars
  <2> QED
    BY <2>2, <2>3, SMTT(30) DEF SizeInv
<1>8. CASE \E h \in Heights : Resize(h)
  BY <1>8, SMTT(30) DEF Resize, SizeInv, sizeVars
<1>9. CASE WinchRedraw
  <2>1. UNCHANGED <<tableMode, requested, height, flush>> /\ termHeight' = height
    BY <1>9, Zenon DEF WinchRedraw, windowVars
  <2>2. height \in Nat
    BY HeightsAssumption, Zenon DEF SizeInv
  <2>3. CASE tableMode
    <3>1. /\ tableHeight' = ComputeTableHeight(height)
          /\ screen' = ActionTable(height, ComputeTableHeight(height), runningActions)
      BY <1>9, <2>3, Zenon DEF WinchRedraw
    <3>2. tableHeight' \in Int /\ tableHeight' < height
      BY <2>2, <3>1, TableHeight, Zenon DEF SizeInv
    <3>3. /\ screen'.region = height - tableHeight'
          /\ screen' = [region |-> screen'.region, cursor |-> screen'.cursor, rows |-> screen'.rows]
      BY <3>1, TableRegion, Zenon DEF SizeInv
    <3> QED
      BY <2>1, <2>2, <3>2, <3>3, SMTT(30) DEF SizeInv
  <2>4. CASE ~ tableMode
    BY <1>9, <2>1, <2>2, <2>4, SMTT(30) DEF WinchRedraw, SizeInv
  <2> QED
    BY <2>3, <2>4, Zenon
<1> QED
  BY <1>3, <1>4, <1>5, <1>6, <1>7, <1>8, <1>9, Zenon DEF SmartNext, Flush, Ticker, Winch

(***************************************************************************)
(* One line at least is left to scroll, and the region on the screen is    *)
(* the one of the heights at hand (computeTableHeight, updateTermSize).    *)
(***************************************************************************)
THEOREM SmartStatusRegionFits == SmartSpec => []RegionFits
<1>1. SizeInv => RegionFits
  BY SMTT(30) DEF SizeInv, RegionFits
<1> QED
  BY <1>1, SizeInvInit, SizeInvNext, PTL DEF SmartSpec
-----------------------------------------------------------------------------
\* Until the window changes nobody handles SIGWINCH; the ticker's goroutine
\* has returned before Flush takes the lock, and draws only in table mode.
ReleaseInv ==
    /\ tableMode \in BOOLEAN
    /\ resizes \in Nat
    /\ resizes = 0 => winch \in {"range", "returned"}
    /\ flush \in {"locking", "locked", "flushed"} => tick = "returned"
    /\ flush \in {"none", "stopping", "locking", "locked", "flushed"}
    /\ tableMode = FALSE => tick = "returned" /\ screen = Released
    /\ RestoredAfterFlush

\* Every step keeps that.
LEMMA ReleaseInvNext == ReleaseInv /\ [SmartNext]_smartVars => ReleaseInv'
<1> SUFFICES ASSUME ReleaseInv, [SmartNext]_smartVars PROVE ReleaseInv'
  BY Zenon
<1> USE DEF ReleaseInv, RestoredAfterFlush
<1>1. ASSUME UNCHANGED <<tableMode, resizes, winch, flush, tick, screen>> PROVE ReleaseInv'
  BY <1>1, Zenon DEF Released
<1>2. CASE \E a \in Actions : StartAction(a) \/ FinishAction(a)
  BY <1>1, <1>2, Zenon DEF StartAction, FinishAction, sizeVars, tickVars, windowVars
<1>3. CASE Message \/ Write \/ TimerFires \/ UNCHANGED smartVars
  BY <1>1, <1>3, Zenon DEF Message, Write, TimerFires, smartVars, sizeVars, tickVars, windowVars
<1>4. CASE FlushStart
  BY <1>4, Zenon DEF FlushStart, sizeVars, windowVars, Released
<1>5. CASE StopTick
  BY <1>5, Zenon DEF StopTick, sizeVars, windowVars, Released
<1>6. CASE FlushLock
  BY <1>6, Zenon DEF FlushLock, sizeVars, tickVars, windowVars, Released
<1>7. CASE FlushRest
  BY <1>7, Zenon DEF FlushRest, sizeVars, tickVars, windowVars, Released
<1>8. CASE TickReceive
  BY <1>8, Zenon DEF TickReceive, sizeVars, windowVars, Released
<1>9. CASE TickRedraw
  BY <1>9, Zenon DEF TickRedraw, sizeVars, windowVars
<1>10. CASE \E h \in Heights : Resize(h)
  BY <1>10, SMTT(30) DEF Resize, sizeVars, tickVars, Released
<1>11. CASE WinchRedraw
  BY <1>11, Zenon DEF WinchRedraw, tickVars, windowVars, Released
<1>12. CASE WinchRange
  BY <1>12, Zenon DEF WinchRange, sizeVars, tickVars, windowVars, Released
<1> QED
  BY <1>2, <1>3, <1>4, <1>5, <1>6, <1>7, <1>8, <1>9, <1>10, <1>11, <1>12, Zenon DEF SmartNext, Flush, Ticker, Winch

(***************************************************************************)
(* Once Flush has returned the terminal stays as it was found, unless it   *)
(* has been resized: no tick that was on its way draws the table again.    *)
(***************************************************************************)
THEOREM SmartStatusRestoredAfterFlush == SmartSpec => []RestoredAfterFlush
<1>1. ASSUME SmartInit PROVE ReleaseInv
  <2>1. /\ winch = "range" /\ flush = "none" /\ resizes = 0
        /\ tick = IF tableMode THEN "select" ELSE "returned"
    BY <1>1, Zenon DEF SmartInit
  <2>2. tableMode = FALSE => screen = Released
    BY <1>1, Zenon DEF SmartInit
  <2>3. tableMode \in BOOLEAN
    BY <1>1, ModeInit, Zenon
  <2> QED
    BY <2>1, <2>2, <2>3, Zenon DEF ReleaseInv, RestoredAfterFlush
<1>2. ReleaseInv => RestoredAfterFlush
  BY Zenon DEF ReleaseInv
<1> QED
  BY <1>1, <1>2, ReleaseInvNext, PTL DEF SmartSpec
-----------------------------------------------------------------------------
(***************************************************************************)
(* Session: how a process ends, for any number of workers, products and    *)
(* signals.                                                                *)
(***************************************************************************)

\* A step of the workers, of which only exit matters outside of the pool.
WorkerOnly ==
    /\ UNCHANGED <<settings, main, signalVars, cleanup, outputVars>>
    /\ exit' \in {exit, "worker"}

\* Workers leave everything else alone.
LEMMA WorkersAreWorkerOnly == ASSUME NEW w \in Workers, WorkerStep(w) PROVE WorkerOnly
  BY Zenon DEF WorkerStep, WorkerOnly, Receive, StartProduct, WorkerFails, FinishProduct, ReturnProduct

\* What main goes to.
LEMMA MainGoesTo ==
    ASSUME NEW pc, NEW fate, MainGoes(pc, fate)
    PROVE  main'.pc = pc /\ main'.fate = fate
  BY Zenon DEF MainGoes
-----------------------------------------------------------------------------
\* The files are closed in the same order by main and by the cleanup, and
\* each of them knows what it has closed.
EndInv ==
    /\ FlushedToDisk
    /\ logFile = "closed" => traceFile # "open"
    /\ logFile = "closed" => main.pc = "return" \/ cleanup \in {"finish", "flush", "panic"}
    /\ main.pc \in {"critical path", "trace", "log", "return"} => flushed = TRUE
    /\ main.pc \in {"log", "return"} => traceFile \in {"none", "closed"}
    /\ main.pc = "return" => logFile \in {"none", "closed"}
    /\ cleanup \in {"log", "finish", "flush", "panic"} => traceFile # "open"
    /\ cleanup \in {"finish", "flush", "panic"} => logFile # "open"
    /\ cleanup \in {"none", "trace", "log", "finish", "flush", "panic"}
    /\ main.pc = "setup" => traceFile = "none" /\ logFile = "none"

\* The handler's timeouts keep EndInv: what they end has its log closed, or
\* has taken too long.
LEMMA HandleTimeoutKeepsEnd ==
    ASSUME EndInv, exit = "no", HandleTimeout, UNCHANGED <<main, outputVars>>
    PROVE  EndInv'
  BY Zenon DEF EndInv, FlushedToDisk, HandleTimeout, outputVars

\* Every step keeps EndInv.
LEMMA EndInvNext == EndInv /\ [SessionNext]_sessionVars => EndInv'
<1> SUFFICES ASSUME EndInv, [SessionNext]_sessionVars
             PROVE  EndInv'
  BY Zenon
<1> USE DEF EndInv, FlushedToDisk, Closed
<1>1. CASE UNCHANGED sessionVars
  BY <1>1, Zenon DEF sessionVars, outputVars
<1>2. ASSUME exit = "no", Running
      PROVE  EndInv'
  <2>1. ASSUME NEW w \in Workers, WorkerStep(w)
        PROVE  EndInv'
    BY <1>2, <2>1, WorkersAreWorkerOnly, Zenon DEF WorkerOnly, outputVars
  <2>2. CASE BuildEnds
    <3>1. main.pc = "work" /\ main'.pc = "finish" /\ UNCHANGED <<cleanup, outputVars, exit>>
      BY <2>2, MainGoesTo, Zenon DEF BuildEnds
    <3> QED
      BY <1>2, <3>1, Zenon DEF outputVars
  <2>3. CASE ZipLogs
    BY <1>2, <2>3, Zenon DEF ZipLogs, MainGoes, outputVars
  <2>15. CASE ListProducts
    <3>1. /\ main.pc = "products" /\ main'.pc \in {"work", "finish"}
          /\ UNCHANGED <<cleanup, outputVars, exit>>
      BY <2>15, MainGoesTo, Zenon DEF ListProducts
    <3> QED
      BY <1>2, <3>1, Zenon DEF outputVars
  <2>17. CASE SetLogOutput
    <3>1. main'.pc \in {"trace output", "finish"}
      BY <2>17, MainGoesTo, Zenon DEF SetLogOutput
    <3>2. /\ logFile' \in {"none", "open", "late"}
          /\ cleanup \in {"finish", "flush", "panic"} => logFile' # "open"
      BY <2>17, Zenon DEF SetLogOutput
    <3> QED
      BY <1>2, <2>17, <3>1, <3>2, Zenon DEF SetLogOutput
  <2>18. CASE SetTraceOutput
    <3>1. main'.pc \in {"work", "products", "finish"}
      BY <2>18, MainGoesTo, Zenon DEF SetTraceOutput
    <3>2. traceFile' = "open" => cleanup \in {"none", "trace"} \/ traceFile = "open"
      BY <2>18, Zenon DEF SetTraceOutput
    <3> QED
      BY <1>2, <2>18, <3>1, <3>2, Zenon DEF SetTraceOutput
  <2>16. CASE ZipLogsFails
    BY <1>2, <2>16, Zenon DEF ZipLogsFails, MainGoes, outputVars
  <2>4. CASE ReportFailures
    BY <1>2, <2>4, Zenon DEF ReportFailures, MainGoes, outputVars
  <2>5. CASE MainFinish
    BY <1>2, <2>5, Zenon DEF MainFinish, MainGoes
  <2>6. CASE MainFlush
    <3>1. main'.pc \in {"trace", "critical path"} /\ flushed' = TRUE
      BY <2>6, MainGoesTo, Zenon DEF MainFlush
    <3> QED
      BY <1>2, <2>6, <3>1, Zenon DEF MainFlush
  <2>7. CASE MainCriticalPath
    <3>1. main'.pc = "trace"
      BY <2>7, MainGoesTo, Zenon DEF MainCriticalPath
    <3> QED
      BY <1>2, <2>7, <3>1, Zenon DEF MainCriticalPath
  <2>8. CASE MainTraceClose
    BY <1>2, <2>8, Zenon DEF MainTraceClose, MainGoes
  <2>9. CASE MainLogCleanup
    BY <1>2, <2>9, Zenon DEF MainLogCleanup, MainGoes
  <2>10. CASE MainReturn
    BY <1>2, <2>10, Zenon DEF MainReturn, outputVars
  <2>11. CASE SendSignal
    BY <1>2, <2>11, Zenon DEF SendSignal, outputVars
  <2>12. CASE HandleSignal
    <3>1. CASE logFile = "closed"
      BY <1>2, <2>12, <3>1, Zenon DEF HandleSignal, outputVars
    <3>2. CASE logFile # "closed" /\ handler.ticking
      BY <1>2, <2>12, <3>2, HandleTimeoutKeepsEnd, Zenon DEF HandleSignal
    <3>3. CASE logFile # "closed" /\ ~ handler.ticking
      BY <1>2, <2>12, <3>3, Zenon DEF HandleSignal, outputVars
    <3> QED
      BY <3>1, <3>2, <3>3, Zenon
  <2>13. CASE Tick
    BY <1>2, <2>13, HandleTimeoutKeepsEnd, Zenon DEF Tick
  <2>14. CASE CleanupStep
    BY <1>2, <2>14, Zenon DEF CleanupStep, CleanupTraceClose, CleanupLogCleanup, CleanupFinish,
                       CleanupFlush, CleanupPanic, outputVars
  <2> QED
    BY <1>2, <2>1, <2>2, <2>3, <2>4, <2>5, <2>6, <2>7, <2>8, <2>9, <2>10, <2>11, <2>12, <2>13,
       <2>14, <2>15, <2>16, <2>17, <2>18, Zenon DEF Running, Deferred, Handle
<1> QED
  BY <1>1, <1>2, Zenon DEF SessionNext

(***************************************************************************)
(* The trace and the log are closed when the process ends, whoever ends it *)
(* but a worker that gives up or a cleanup that takes too long.            *)
(***************************************************************************)
THEOREM SessionFlushedToDisk == SessionSpec => []FlushedToDisk
<1>1. SessionInit => EndInv
  BY SMTT(30) DEF SessionInit, EndInv, FlushedToDisk
<1>2. EndInv => FlushedToDisk
  BY Zenon DEF EndInv
<1> QED
  BY <1>1, <1>2, EndInvNext, PTL DEF SessionSpec
-----------------------------------------------------------------------------
\* Until the first signal only main closes the log and flushes the terminal.
Quiet ==
    /\ signals = 0
    /\ handler.ticking = FALSE
    /\ cleanup = "none"
    /\ exit \notin {"panic", "late log", "cleanup", "timeout"}
    /\ main.fate \in {"ok", "fatal"}
    /\ logFile = "closed" => main.pc = "return"
    /\ flushed = TRUE => main.pc \in {"critical path", "trace", "log", "return"}

SignalInv == sent \in Nat /\ (sent = 0 => Quiet)

\* While it is quiet the handler has nothing to do.
LEMMA QuietHandler == ASSUME Quiet PROVE ~ Handle
<1>1. signals = 0 /\ handler.ticking = FALSE
  BY Zenon DEF Quiet
<1> QED
  BY <1>1, SMTT(30) DEF Handle, HandleSignal, Tick

\* It stays quiet until a signal is sent.
LEMMA QuietUntilSignal ==
    ASSUME Quiet, exit = "no", Running, ~ SendSignal
    PROVE  Quiet'
<1> USE DEF Quiet
<1>1. ASSUME NEW w \in Workers, WorkerStep(w)
      PROVE  Quiet'
  BY <1>1, WorkersAreWorkerOnly, Zenon DEF WorkerOnly, outputVars, signalVars
<1>2. CASE BuildEnds
  <2>1. main'.pc = "finish" /\ main'.fate \in {"ok", "fatal"}
    BY <1>2, MainGoesTo, Zenon DEF BuildEnds, FateOf
  <2> QED
    BY <1>2, <2>1, Zenon DEF BuildEnds, outputVars, signalVars
<1>3. CASE ZipLogs
  <2>1. main'.pc = "report" /\ main'.fate = "ok"
    BY <1>3, MainGoesTo, Zenon DEF ZipLogs
  <2> QED
    BY <1>3, <2>1, Zenon DEF ZipLogs, outputVars, signalVars
<1>12. CASE ListProducts
  <2>1. main'.pc \in {"work", "finish"} /\ main'.fate \in {"ok", "fatal"}
    BY <1>12, MainGoesTo, Zenon DEF ListProducts, FateOf
  <2> QED
    BY <1>12, <2>1, Zenon DEF ListProducts, outputVars, signalVars
<1>14. CASE SetLogOutput
  <2>1. main'.pc \in {"trace output", "finish"} /\ main'.fate \in {"ok", "fatal"}
    BY <1>14, MainGoesTo, Zenon DEF SetLogOutput, FateOf
  <2> QED
    BY <1>14, <2>1, Zenon DEF SetLogOutput, signalVars
<1>15. CASE SetTraceOutput
  <2>1. main'.pc \in {"work", "products"} /\ main'.fate = "ok"
    BY <1>15, MainGoesTo, Zenon DEF SetTraceOutput
  <2> QED
    BY <1>15, <2>1, Zenon DEF SetTraceOutput, signalVars
<1>13. CASE ZipLogsFails
  <2>1. main'.pc = "finish" /\ main'.fate \in {"ok", "fatal"}
    BY <1>13, MainGoesTo, Zenon DEF ZipLogsFails, FateOf
  <2> QED
    BY <1>13, <2>1, Zenon DEF ZipLogsFails, outputVars, signalVars
<1>4. CASE ReportFailures
  <2>1. main'.pc = "finish" /\ main'.fate \in {"ok", "fatal"}
    BY <1>4, MainGoesTo, Zenon DEF ReportFailures, FateOf
  <2> QED
    BY <1>4, <2>1, Zenon DEF ReportFailures, outputVars, signalVars
<1>5. CASE MainFinish
  BY <1>5, MainGoesTo, Zenon DEF MainFinish, signalVars
<1>6. CASE MainFlush
  <2>1. main'.pc = "critical path" /\ main'.fate = main.fate
    BY <1>6, MainGoesTo, Zenon DEF MainFlush
  <2> QED
    BY <1>6, <2>1, Zenon DEF MainFlush, signalVars
<1>7. CASE MainCriticalPath
  <2>1. main'.pc = "trace" /\ main'.fate = main.fate
    BY <1>7, MainGoesTo, Zenon DEF MainCriticalPath
  <2> QED
    BY <1>7, <2>1, Zenon DEF MainCriticalPath, signalVars
<1>8. CASE MainTraceClose
  BY <1>8, MainGoesTo, Zenon DEF MainTraceClose, signalVars
<1>9. CASE MainLogCleanup
  <2>1. main'.pc = "return" /\ main'.fate = main.fate
    BY <1>9, MainGoesTo, Zenon DEF MainLogCleanup
  <2> QED
    BY <1>9, <2>1, Zenon DEF MainLogCleanup, signalVars
<1>10. CASE MainReturn
  BY <1>10, Zenon DEF MainReturn, outputVars, signalVars
<1>11. ~ CleanupStep
  BY Zenon DEF CleanupStep, CleanupTraceClose, CleanupLogCleanup, CleanupFinish, CleanupFlush,
         CleanupPanic
<1> QED
  BY <1>1, <1>2, <1>3, <1>4, <1>5, <1>6, <1>7, <1>8, <1>9, <1>10, <1>11, <1>12, <1>13,
     <1>14, <1>15, QuietHandler, Zenon
  DEF Running, Deferred

\* Only SendSignal counts signals.
LEMMA SentUnchanged == ASSUME Running, ~ SendSignal PROVE sent' = sent
<1>1. ASSUME NEW w \in Workers, WorkerStep(w)
      PROVE  sent' = sent
  BY <1>1, WorkersAreWorkerOnly, Zenon DEF WorkerOnly, signalVars
<1>2. CASE \/ SetLogOutput \/ SetTraceOutput \/ BuildEnds \/ ListProducts \/ ZipLogs
           \/ ZipLogsFails \/ ReportFailures
  BY <1>2, Zenon DEF SetLogOutput, SetTraceOutput, BuildEnds, ListProducts, ZipLogs, ZipLogsFails,
              ReportFailures, signalVars
<1>3. CASE Deferred
  BY <1>3, Zenon DEF Deferred, MainFinish, MainFlush, MainCriticalPath, MainTraceClose, MainLogCleanup,
              MainReturn, signalVars
<1>4. CASE Handle
  BY <1>4, Zenon DEF Handle, HandleSignal, Tick
<1>5. CASE CleanupStep
  BY <1>5, Zenon DEF CleanupStep, CleanupTraceClose, CleanupLogCleanup, CleanupFinish, CleanupFlush,
              CleanupPanic, signalVars
<1> QED
  BY <1>1, <1>2, <1>3, <1>4, <1>5, Zenon DEF Running

\* Every step keeps SignalInv.
LEMMA SignalInvNext == SignalInv /\ [SessionNext]_sessionVars => SignalInv'
<1> SUFFICES ASSUME SignalInv, [SessionNext]_sessionVars
             PROVE  SignalInv'
  BY Zenon
<1>1. CASE UNCHANGED sessionVars
  <2>1. Quiet' = Quiet
    BY <1>1, Zenon DEF Quiet, sessionVars, outputVars, signalVars
  <2> QED
    BY <1>1, <2>1, Zenon DEF SignalInv, sessionVars, signalVars
<1>2. CASE SendSignal
  BY <1>2, SMTT(30) DEF SignalInv, SendSignal
<1>3. CASE exit = "no" /\ Running /\ ~ SendSignal
  BY <1>3, QuietUntilSignal, SentUnchanged, Zenon DEF SignalInv
<1> QED
  BY <1>1, <1>2, <1>3, Zenon DEF SessionNext

\* A count that is not zero is positive.
LEMMA Positive == ASSUME NEW n \in Nat, n # 0 PROVE n > 0
  BY SMTT(30)

(***************************************************************************)
(* Without a signal the process does not panic: nothing logs to a closed   *)
(* log, and the terminal is not flushed twice.                             *)
(***************************************************************************)
THEOREM SessionPanicsNeedSignal == SessionSpec => []PanicsNeedSignal
<1>1. SessionInit => Quiet /\ sent = 0
  BY SMTT(30) DEF SessionInit, Quiet
<1>2. SessionInit => SignalInv
  BY <1>1, SMTT(30) DEF SignalInv
<1>3. Quiet => exit \notin {"panic", "late log", "cleanup", "timeout"}
  BY Zenon DEF Quiet
<1>4. SignalInv => PanicsNeedSignal
  <2> SUFFICES ASSUME SignalInv, exit \in {"panic", "late log", "cleanup", "timeout"}
               PROVE  sent > 0
    BY Zenon DEF PanicsNeedSignal
  <2>1. ~ Quiet
    BY <1>3, Zenon
  <2>2. sent \in Nat /\ sent # 0
    BY <2>1, Zenon DEF SignalInv
  <2> QED
    BY <2>2, Positive, Zenon
<1> QED
  BY <1>2, <1>4, SignalInvNext, PTL DEF SessionSpec
-----------------------------------------------------------------------------
\* w has a product.
Busy(w) == worker[w].pc \in {"start", "run", "return"}

\* p has been reported, and its console log is closed.
Settled(p) == report[p] # "none" /\ console[p] = "whole"

\* Every product waits in the queue, or is with exactly one worker, or is
\* settled.
PoolInv ==
    /\ queue \subseteq Products
    /\ worker \in [Workers -> [pc : {"receive", "start", "run", "return", "done"},
                              product : Products \cup {"none"}]]
    /\ report \in [Products -> {"none", "ok", "failed"}]
    /\ console \in [Products -> {"none", "open", "whole"}]
    /\ \A w \in Workers : Busy(w) => worker[w].product \in Products \ queue
    /\ \A v, w \in Workers : Busy(v) /\ Busy(w) /\ worker[v].product = worker[w].product => v = w
    /\ \A w \in Workers : worker[w].pc = "return" => report[worker[w].product] # "none"
    /\ \A p \in Products \ queue :
          Settled(p) \/ \E w \in Workers : Busy(w) /\ worker[w].product = p
    /\ \A w \in Workers : worker[w].pc = "done" => queue = {}

\* A step of a worker keeps PoolInv.
LEMMA WorkersKeepPool == ASSUME PoolInv, NEW w \in Workers, WorkerStep(w) PROVE PoolInv'
<1> USE DEF PoolInv, Busy, Settled
<1>1. ASSUME NEW p \in queue, queue' = queue \ {p},
             worker' = [worker EXCEPT ![w] = [pc |-> "start", product |-> p]],
             worker[w].pc = "receive", UNCHANGED <<report, console>>
      PROVE  PoolInv'
  BY <1>1, SMTT(30)
<1>2. ASSUME queue = {}, worker[w].pc = "receive",
             worker' = [worker EXCEPT ![w].pc = "done"], UNCHANGED <<queue, report, console>>
      PROVE  PoolInv'
  BY <1>2, SMTT(30)
<1>3. CASE StartProduct(w)
  BY <1>3, SMTT(30) DEF StartProduct
<1>4. CASE WorkerFails(w)
  BY <1>4, SMTT(30) DEF WorkerFails, poolVars
<1>5. CASE FinishProduct(w)
  BY <1>5, SMTT(30) DEF FinishProduct
<1>6. CASE ReturnProduct(w)
  BY <1>6, SMTT(30) DEF ReturnProduct
<1> QED
  BY <1>1, <1>2, <1>3, <1>4, <1>5, <1>6, ZenonT(40) DEF WorkerStep, Receive

\* When every worker is done, every product is settled.
LEMMA DoneSettles ==
    ASSUME PoolInv, \A w \in Workers : worker[w].pc = "done"
    PROVE  \A p \in Products : Settled(p)
<1>1. PICK w \in Workers : TRUE
  BY SetsAssumption, Zenon
<1>2. queue = {}
  BY <1>1, Zenon DEF PoolInv
<1> QED
  BY <1>2, Zenon DEF PoolInv, Busy

\* What main knows of the pool: nobody is busy before and after main waits,
\* everything is settled when it counts the failures, and its fate says what
\* it found.
ReportInv ==
    /\ PoolInv
    /\ program = "multiproduct_kati" =>
        /\ main.pc # "work" => \A w \in Workers : ~ Busy(w)
        /\ main.pc \in {"setup", "trace output", "products", "work"} => zipped = {}
        /\ main.pc = "report" => zipped = Products /\ \A p \in Products : Settled(p)
        /\ main.pc \notin {"setup", "trace output", "products", "work", "report"} =>
            /\ main.fate = "ok" => zipped = Products /\ \A p \in Products : report[p] = "ok"
            /\ main.fate = "fatal" /\ zipped = Products /\ Products # {} =>
                  \E p \in Products : report[p] = "failed"
    /\ main.fate \in {"ok", "fatal", "panic"}
    /\ main.pc = "return" /\ exit = "no" => main.fate = "ok"
    /\ exit \in {"ok", "fatal"} => main.pc = "return" /\ main.fate = exit

\* Main goes on with the same fate, or panics.
Unwinds ==
    /\ main.pc \notin {"setup", "trace output", "products", "work", "report", "return"}
    /\ main'.pc \notin {"setup", "trace output", "products", "work", "report", "return"}
    /\ main'.fate \in {main.fate, "panic"}
    /\ UNCHANGED <<program, poolVars, exit>>

\* The deferred calls before log.Cleanup unwind.
LEMMA DeferredUnwinds ==
    ASSUME MainFinish \/ MainFlush \/ MainCriticalPath \/ MainTraceClose
    PROVE  Unwinds
<1> USE DEF Unwinds, settings
<1>1. CASE MainFinish
  <2>1. main'.pc = "flush" /\ main'.fate = main.fate
    BY <1>1, MainGoesTo, Zenon DEF MainFinish
  <2> QED
    BY <1>1, <2>1, Zenon DEF MainFinish
<1>2. CASE MainFlush
  <2>1. \/ main'.pc = "trace" /\ main'.fate = "panic"
        \/ main'.pc = "critical path" /\ main'.fate = main.fate
    BY <1>2, MainGoesTo, Zenon DEF MainFlush
  <2> QED
    BY <1>2, <2>1, Zenon DEF MainFlush
<1>3. CASE MainCriticalPath
  <2>1. main'.pc = "trace" /\ main'.fate \in {main.fate, "panic"}
    BY <1>3, MainGoesTo, Zenon DEF MainCriticalPath
  <2> QED
    BY <1>3, <2>1, Zenon DEF MainCriticalPath
<1>4. CASE MainTraceClose
  <2>1. main'.pc = "log" /\ main'.fate = main.fate
    BY <1>4, MainGoesTo, Zenon DEF MainTraceClose
  <2> QED
    BY <1>4, <2>1, Zenon DEF MainTraceClose
<1> QED
  BY <1>1, <1>2, <1>3, <1>4, Zenon

\* The steps of the handler and of the cleanup, seen from main.
LEMMA OthersLeaveMain ==
    ASSUME SendSignal \/ Handle \/ CleanupStep
    PROVE  /\ UNCHANGED <<program, main, poolVars>>
           /\ exit' \in {exit, "late log", "timeout", "cleanup"}
<1> USE DEF settings
<1>1. CASE SendSignal
  BY <1>1, Zenon DEF SendSignal
<1>2. CASE Tick
  BY <1>2, Zenon DEF Tick, HandleTimeout
<1>3. CASE HandleSignal
  BY <1>3, Zenon DEF HandleSignal, HandleTimeout
<1>4. CASE CleanupStep
  BY <1>4, Zenon DEF CleanupStep, CleanupTraceClose, CleanupLogCleanup, CleanupFinish, CleanupFlush,
              CleanupPanic
<1> QED
  BY <1>1, <1>2, <1>3, <1>4, Zenon DEF Handle

\* Every step keeps ReportInv.
LEMMA ReportInvNext == ReportInv /\ [SessionNext]_sessionVars => ReportInv'
<1> SUFFICES ASSUME ReportInv, [SessionNext]_sessionVars
             PROVE  ReportInv'
  BY Zenon
<1>0. ASSUME UNCHANGED poolVars PROVE PoolInv'
  <2>1. PoolInv
    BY Zenon DEF ReportInv
  <2> QED
    BY <1>0, <2>1, ZenonT(40) DEF PoolInv, Busy, Settled, poolVars
<1>1. CASE UNCHANGED sessionVars
  BY <1>0, <1>1, Zenon DEF ReportInv, sessionVars, settings, poolVars, Busy, Settled
<1>2. ASSUME exit = "no", Running
      PROVE  ReportInv'
  <2>1. ASSUME NEW w \in Workers, WorkerStep(w)
        PROVE  ReportInv'
    <3>1. PoolInv'
      BY <2>1, WorkersKeepPool, Zenon DEF ReportInv
    <3>2. main.pc = "work" \/ Busy(w)
      BY <2>1, Zenon DEF WorkerStep, Receive, StartProduct, WorkerFails, FinishProduct, ReturnProduct, Busy
    <3>3. UNCHANGED <<program, main, zipped>> /\ exit' \in {exit, "worker"}
      BY <2>1, WorkersAreWorkerOnly, Zenon
      DEF WorkerOnly, settings, WorkerStep, Receive, StartProduct, WorkerFails, FinishProduct,
          ReturnProduct, poolVars
    <3>4. program = "multiproduct_kati" => main.pc = "work"
      BY <3>2, Zenon DEF ReportInv
    <3> QED
      BY <1>2, <3>1, <3>3, <3>4, Zenon DEF ReportInv
  <2>2. CASE BuildEnds
    <3>1. main'.pc = "finish" /\ main'.fate \in {"ok", "fatal", "panic"}
      BY <2>2, MainGoesTo, Zenon DEF BuildEnds, FateOf
    <3> QED
      BY <1>0, <1>2, <2>2, <3>1, Zenon DEF BuildEnds, ReportInv, settings, Busy, Settled
  <2>3. CASE ZipLogs
    <3>1. main'.pc = "report" /\ main'.fate = "ok"
      BY <2>3, MainGoesTo, Zenon DEF ZipLogs
    <3>2. zipped' = Products /\ (\A p \in Products : Settled(p))'
      BY <2>3, DoneSettles, Zenon DEF ZipLogs, ReportInv, Settled
    <3>3. PoolInv' /\ \A w \in Workers : ~ Busy(w)'
      BY <2>3, Zenon DEF ZipLogs, ReportInv, PoolInv, Busy, Settled
    <3> QED
      BY <1>2, <2>3, <3>1, <3>2, <3>3, Zenon DEF ZipLogs, ReportInv, settings
  <2>4. CASE ReportFailures
    <3>1. /\ main'.pc = "finish"
          /\ \/ main'.fate \in {"fatal", "panic"} /\ \E p \in Products : report[p] = "failed"
             \/ main'.fate = "ok" /\ \A p \in Products : report[p] # "failed"
      BY <2>4, MainGoesTo, Zenon DEF ReportFailures, FateOf
    <3>2. program = "multiproduct_kati" => \A p \in Products : report[p] \in {"ok", "failed"}
      BY <2>4, Zenon DEF ReportFailures, ReportInv, PoolInv, Settled
    <3> QED
      BY <1>0, <1>2, <2>4, <3>1, <3>2, Zenon DEF ReportFailures, ReportInv, settings, poolVars, Busy
  <2>9. CASE SetLogOutput \/ SetTraceOutput \/ ListProducts
    <3>1. \/ main'.pc \in {"trace output", "products", "work"} /\ main'.fate = "ok"
          \/ main'.pc = "finish" /\ main'.fate \in {"fatal", "panic"}
      BY <2>9, MainGoesTo, Zenon DEF SetLogOutput, SetTraceOutput, ListProducts, FateOf
    <3>2. UNCHANGED <<program, poolVars, exit>> /\ main.pc \in {"setup", "trace output", "products"}
      BY <2>9, Zenon DEF SetLogOutput, SetTraceOutput, ListProducts, settings
    <3> QED
      BY <1>0, <1>2, <3>1, <3>2, Zenon DEF ReportInv, poolVars, Busy
  <2>10. CASE ZipLogsFails
    <3>1. main'.pc = "finish" /\ main'.fate \in {"fatal", "panic"}
      BY <2>10, MainGoesTo, Zenon DEF ZipLogsFails, FateOf
    <3> QED
      BY <1>0, <1>2, <2>10, <3>1, Zenon DEF ZipLogsFails, ReportInv, settings, poolVars, Busy
  <2>5. CASE Unwinds
    BY <1>0, <1>2, <2>5, Zenon DEF Unwinds, ReportInv, poolVars, Busy, Settled
  <2>6. CASE MainLogCleanup
    <3>1. main'.pc = "return" /\ main'.fate = main.fate
      BY <2>6, MainGoesTo, Zenon DEF MainLogCleanup
    <3> QED
      BY <1>0, <1>2, <2>6, <3>1, Zenon DEF MainLogCleanup, ReportInv, settings, poolVars, Busy, Settled
  <2>7. CASE MainReturn
    BY <1>0, <1>2, <2>7, Zenon DEF MainReturn, ReportInv, settings, poolVars, Busy, Settled
  <2>8. CASE SendSignal \/ Handle \/ CleanupStep
    BY <1>0, <1>2, <2>8, OthersLeaveMain, ZenonT(40) DEF ReportInv, poolVars, Busy, Settled
  <2> QED
    BY <1>2, <2>1, <2>2, <2>3, <2>4, <2>5, <2>6, <2>7, <2>8, <2>9, <2>10,
       DeferredUnwinds, Zenon DEF Running, Deferred
<1> QED
  BY <1>1, <1>2, Zenon DEF SessionNext

(***************************************************************************)
(* multiproduct_kati succeeds only when every product was built, with the  *)
(* whole console log of each in logs.zip, and is Fatal for a reason.       *)
(***************************************************************************)
THEOREM SessionReportComplete == SessionSpec => []ReportComplete
<1>1. SessionInit => ReportInv
  BY SMTT(30) DEF SessionInit, ReportInv, PoolInv, Busy, Settled
<1>2. ReportInv => ReportComplete
  BY Zenon DEF ReportInv, ReportComplete
<1> QED
  BY <1>1, <1>2, ReportInvNext, PTL DEF SessionSpec
=============================================================================
