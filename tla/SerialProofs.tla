---------------------------- MODULE SerialProofs ----------------------------
(***************************************************************************)
(* The programs that live off the UART, for every line buffer, every FIFO, *)
(* every session a terminal may type and every number of bytes; and the    *)
(* SPI drivers, for every FIFO, every flash and every program made of      *)
(* their calls.                                                            *)
(***************************************************************************)
EXTENDS UartPrograms, SpiDriver, SequenceTheorems, TLAPS, WellFoundedInduction

(***************************************************************************)
(* yarvmon: what is typed, queued, shown and edited.                       *)
(***************************************************************************)
Keys == UNION {{s.keys[i] : i \in 1..Len(s.keys)} : s \in MonScripts}
Chars == Keys \cup {"newline", "erase", "byte"}

MonTypeOK ==
  /\ msession \in MonScripts /\ typed \in 0..Len(msession.keys)
  /\ urx \in Seq(Keys) /\ Len(urx) <= UART_DEPTH
  /\ utx \in Seq(Chars) /\ out \in Seq(Chars) /\ screen \in Seq(Chars)
  /\ mpc \in {"line", "parse", "block"}
  /\ in_buf \in Seq(Keys) /\ Len(in_buf) < IN_BUF_SIZE

MonInv == MonTypeOK /\ EchoIsTheLine

(***************************************************************************)
(* uart_echo: the bytes on their way, and where the program is when an     *)
(* interrupt source is armed, taken and counted.                           *)
(***************************************************************************)
\* Byte for byte, what was sent has been echoed or is queued.
BytesInOrder ==
  /\ sent \in Nat /\ echoed \in Seq(Nat) /\ erx \in Seq(Nat)
  /\ sent = Len(echoed) + Len(erx)
  /\ \A i \in 1..Len(echoed) : echoed[i] = i - 1
  /\ \A i \in 1..Len(erx) : erx[i] = Len(echoed) + i - 1

EchoTypeOK ==
  /\ rxie \in BOOLEAN /\ msip \in BOOLEAN /\ mie \in SUBSET {"MEI", "MSI"}
  /\ mstatus \in [MIE : BOOLEAN, MPIE : BOOLEAN]
  /\ count \in [irq : Nat, sync : Nat, msi : Nat]
  /\ verdict \in {"none", "GOOD", "BAD"}

\* Who can be in the handler, and what has been counted, at each place of main().
AtEachPlace ==
  \/ /\ epc \in {"poll", "arm", "pend"}
     /\ handler = "none" /\ ~mstatus.MIE /\ ~msip /\ count.sync = 0 /\ count.msi = 0
     /\ verdict = "none"
  \/ /\ epc = "msi" /\ handler \in {"none", "ecall"}
     /\ ~mstatus.MIE /\ (handler = "ecall" => ~mstatus.MPIE) /\ ~msip /\ count.msi = 0
     /\ count.sync = (IF handler = "ecall" THEN 0 ELSE 1)
     /\ verdict = "none"
  \/ /\ epc = "spin" /\ handler \in {"none", "MSI"} /\ mie = {"MSI"}
     /\ count.sync = 1 /\ count.msi = (IF msip THEN 0 ELSE 1)
     /\ handler = "MSI" => msip
     /\ verdict = "none"
  \/ /\ epc \in {"test", "wfi", "asleep", "report", "parked"} /\ handler \in {"none", "MEI"}
     /\ mie = {"MEI"} /\ ~msip /\ count.sync = 1 /\ count.msi = 1
     /\ epc \in {"report", "parked"} => count.irq >= PHASE_CHARS
     /\ epc # "parked" => verdict = "none"
     /\ epc = "parked" => verdict = "GOOD"

EchoInv == BytesInOrder /\ EchoTypeOK /\ AtEachPlace

-----------------------------------------------------------------------------
(***************************************************************************)
(* What a terminal shows after some characters.  Terminal is defined by    *)
(* recursion over them; the library's theorems of recursive definition     *)
(* take the definition as an operator, so that existence and uniqueness    *)
(* are shown here.                                                         *)
(***************************************************************************)
LEMMA LessOnNat ==
  \E R : IsWellFoundedOn(R, Nat) /\ \A i, j \in Nat : i < j => <<i, j>> \in R
  <1> WITNESS OpToRel(<, Nat)
  <1>1. \A i, j \in Nat : i < j => <<i, j>> \in OpToRel(<, Nat)
    BY DEF OpToRel
  <1> QED
    BY <1>1, NatLessThanWellFounded

\* A set of numbers that has 0 and with each number the next one has them all.
LEMMA FromZeroUp ==
  ASSUME NEW S, 0 \in S, \A n \in Nat : n \in S => n + 1 \in S
  PROVE  Nat \subseteq S
  <1> DEFINE T == Nat \ S
  <1>1. SUFFICES ASSUME T # {} PROVE FALSE
    OBVIOUS
  <1>2. PICK R : IsWellFoundedOn(R, Nat) /\ \A i, j \in Nat : i < j => <<i, j>> \in R
    BY LessOnNat
  <1>3. PICK n \in T : \A m \in T : ~(<<m, n>> \in R)
    <2>1. T \subseteq Nat /\ IsWellFoundedOn(R, Nat)
      BY <1>2
    <2> QED
      BY <1>1, <2>1, WFMin, Zenon
  <1>4. n \in Nat /\ n # 0 /\ n - 1 \in Nat /\ n - 1 < n /\ (n - 1) + 1 = n
    OBVIOUS
  <1>5. n - 1 \in S
    BY <1>2, <1>3, <1>4
  <1> QED
    BY <1>4, <1>5

\* t is the line after each of the characters.
Shows(line, chars, t) ==
  t = [i \in 0..Len(chars) |-> IF i = 0 THEN line ELSE Shown(t[i - 1], chars[i])]

\* One character more.
LEMMA ShowsOneMore ==
  ASSUME NEW S, NEW chars \in Seq(S), NEW c \in S, NEW line, NEW t, Shows(line, chars, t)
  PROVE  \E u : /\ Shows(line, Append(chars, c), u)
                /\ u[Len(Append(chars, c))] = Shown(t[Len(chars)], c)
  <1> DEFINE n == Len(chars)
             q == Append(chars, c)
             u == [i \in 0..n + 1 |-> IF i <= n THEN t[i] ELSE Shown(t[n], c)]
  <1>1. n \in Nat /\ Len(q) = n + 1 /\ q[n + 1] = c /\ \A i \in 1..n : q[i] = chars[i]
    OBVIOUS
  <1>2. t = [i \in 0..n |-> IF i = 0 THEN line ELSE Shown(t[i - 1], chars[i])]
    BY DEF Shows
  <1> HIDE DEF n, q
  <1>3. \A i \in 0..n + 1 : u[i] = IF i = 0 THEN line ELSE Shown(u[i - 1], q[i])
    <2> SUFFICES ASSUME NEW i \in 0..n + 1
                 PROVE  u[i] = IF i = 0 THEN line ELSE Shown(u[i - 1], q[i])
      OBVIOUS
    <2>1. CASE i = 0
      BY <1>1, <1>2, <2>1
    <2>2. CASE i \in 1..n
      <3>1. t[i] = Shown(t[i - 1], chars[i])
        BY <1>1, <1>2, <2>2
      <3>2. u[i] = t[i] /\ u[i - 1] = t[i - 1] /\ i # 0 /\ q[i] = chars[i]
        BY <1>1, <2>2
      <3> QED
        BY <3>1, <3>2
    <2>3. CASE i = n + 1
      <3>1. u[i] = Shown(t[n], c) /\ u[i - 1] = t[n] /\ i # 0 /\ q[i] = c
        BY <1>1, <2>3
      <3> QED
        BY <3>1
    <2> QED
      BY <1>1, <2>1, <2>2, <2>3
  <1>4. u = [i \in 0..n + 1 |-> u[i]] /\ u[n + 1] = Shown(t[n], c)
    BY <1>1
  <1> HIDE DEF u
  <1>5. Shows(line, q, u)
    BY <1>1, <1>3, <1>4 DEF Shows
  <1>6. u[Len(q)] = Shown(t[n], c)
    BY <1>1, <1>4
  <1> QED
    BY <1>5, <1>6 DEF n, q

LEMMA ShowsExists ==
  ASSUME NEW S, NEW line
  PROVE  \A chars \in Seq(S) : \E t : Shows(line, chars, t)
  <1> DEFINE N == {n \in Nat : \A chars \in Seq(S) : Len(chars) = n => \E t : Shows(line, chars, t)}
  <1>1. 0 \in N
    <2> SUFFICES ASSUME NEW chars \in Seq(S), Len(chars) = 0
                 PROVE  \E t : Shows(line, chars, t)
      OBVIOUS
    <2> DEFINE t == [i \in 0..0 |-> line]
    <2>1. t = [i \in 0..0 |-> IF i = 0 THEN line ELSE Shown(t[i - 1], chars[i])]
      OBVIOUS
    <2>2. Shows(line, chars, t)
      BY <2>1 DEF Shows
    <2> QED
      BY <2>2
  <1>2. ASSUME NEW n \in Nat, n \in N PROVE n + 1 \in N
    <2> SUFFICES ASSUME NEW chars \in Seq(S), Len(chars) = n + 1
                 PROVE  \E t : Shows(line, chars, t)
      OBVIOUS
    <2> DEFINE q == SubSeq(chars, 1, n)  c == chars[n + 1]
    <2>1. q \in Seq(S) /\ Len(q) = n /\ c \in S /\ chars = Append(q, c)
      OBVIOUS
    <2>2. PICK t : Shows(line, q, t)
      BY <1>2, <2>1
    <2> HIDE DEF q, c
    <2> QED
      BY <2>1, <2>2, ShowsOneMore
  <1>3. \A n \in Nat : n \in N => n + 1 \in N
    BY <1>2
  <1> HIDE DEF N
  <1>4. Nat \subseteq N
    BY <1>1, <1>3, FromZeroUp
  <1> SUFFICES ASSUME NEW chars \in Seq(S) PROVE \E t : Shows(line, chars, t)
    OBVIOUS
  <1>5. Len(chars) \in N
    <2>1. Len(chars) \in Nat
      OBVIOUS
    <2> QED
      BY <1>4, <2>1
  <1> QED
    BY <1>5 DEF N

LEMMA ShowsUnique ==
  ASSUME NEW S, NEW line, NEW chars \in Seq(S), NEW t, NEW u, Shows(line, chars, t), Shows(line, chars, u)
  PROVE  t[Len(chars)] = u[Len(chars)]
  <1> DEFINE n == Len(chars)  N == {i \in Nat : i <= n => t[i] = u[i]}
  <1>1. n \in Nat
    OBVIOUS
  <1>2. /\ t = [i \in 0..n |-> IF i = 0 THEN line ELSE Shown(t[i - 1], chars[i])]
        /\ u = [i \in 0..n |-> IF i = 0 THEN line ELSE Shown(u[i - 1], chars[i])]
    BY DEF Shows
  <1> HIDE DEF n
  <1>3. 0 \in N
    <2>1. t[0] = line /\ u[0] = line
      BY <1>1, <1>2
    <2> QED
      BY <2>1
  <1>4. ASSUME NEW i \in Nat, i \in N PROVE i + 1 \in N
    <2> SUFFICES ASSUME i + 1 <= n PROVE t[i + 1] = u[i + 1]
      OBVIOUS
    <2>1. i + 1 \in 0..n /\ i + 1 # 0 /\ (i + 1) - 1 = i /\ i <= n
      BY <1>1
    <2>2. t[i + 1] = Shown(t[(i + 1) - 1], chars[i + 1]) /\ u[i + 1] = Shown(u[(i + 1) - 1], chars[i + 1])
      BY <1>2, <2>1
    <2>3. t[i] = u[i]
      BY <1>4, <2>1
    <2> QED
      BY <2>1, <2>2, <2>3
  <1>5. \A i \in Nat : i \in N => i + 1 \in N
    BY <1>4
  <1>6. n \in N
    <2> HIDE DEF N
    <2> QED
      BY <1>1, <1>3, <1>5, FromZeroUp
  <1> QED
    BY <1>1, <1>6 DEF n

LEMMA TerminalShows ==
  ASSUME NEW S, NEW line, NEW chars \in Seq(S), NEW t, Shows(line, chars, t)
  PROVE  Terminal(line, chars) = t[Len(chars)]
  <1> DEFINE f == CHOOSE u : Shows(line, chars, u)
  <1>1. Shows(line, chars, f)
    BY ShowsExists
  <1>2. Terminal(line, chars) = f[Len(chars)]
    BY DEF Terminal, Shows
  <1> HIDE DEF f
  <1> QED
    BY <1>1, <1>2, ShowsUnique

\* A character that is queued changes the line that will be shown.
LEMMA TerminalAppend ==
  ASSUME NEW S, NEW line, NEW chars \in Seq(S), NEW c \in S
  PROVE  Terminal(line, Append(chars, c)) = Shown(Terminal(line, chars), c)
  <1>1. PICK t : Shows(line, chars, t)
    BY ShowsExists
  <1>2. PICK u : /\ Shows(line, Append(chars, c), u)
                 /\ u[Len(Append(chars, c))] = Shown(t[Len(chars)], c)
    BY <1>1, ShowsOneMore
  <1>3. Append(chars, c) \in Seq(S)
    OBVIOUS
  <1>4. Terminal(line, Append(chars, c)) = u[Len(Append(chars, c))]
    BY <1>2, <1>3, TerminalShows
  <1>5. Terminal(line, chars) = t[Len(chars)]
    BY <1>1, TerminalShows
  <1> QED
    BY <1>2, <1>4, <1>5

\* A character that is shown does not.
LEMMA TerminalSend ==
  ASSUME NEW S, NEW line, NEW chars \in Seq(S), chars # <<>>
  PROVE  Terminal(Shown(line, Head(chars)), Tail(chars)) = Terminal(line, chars)
  <1> DEFINE n == Len(chars)  q == Tail(chars)
  <1>1. PICK u : Shows(line, chars, u)
    BY ShowsExists
  <1> DEFINE t == [i \in 0..n - 1 |-> u[i + 1]]
  <1>2. /\ n \in Nat \ {0} /\ q \in Seq(S) /\ Len(q) = n - 1 /\ Head(chars) = chars[1]
        /\ \A i \in 1..n - 1 : q[i] = chars[i + 1]
    OBVIOUS
  <1>3. u = [i \in 0..n |-> IF i = 0 THEN line ELSE Shown(u[i - 1], chars[i])]
    BY <1>1 DEF Shows
  <1>4. \A i \in 0..n - 1 : t[i] = IF i = 0 THEN Shown(line, chars[1]) ELSE Shown(t[i - 1], q[i])
    <2> HIDE DEF n, q
    <2> SUFFICES ASSUME NEW i \in 0..n - 1
                 PROVE  t[i] = IF i = 0 THEN Shown(line, chars[1]) ELSE Shown(t[i - 1], q[i])
      OBVIOUS
    <2>1. CASE i = 0
      <3>1. u[0] = line /\ u[1] = Shown(u[1 - 1], chars[1]) /\ t[0] = u[1]
        BY <1>2, <1>3
      <3> QED
        BY <2>1, <3>1
    <2>2. CASE i # 0
      <3>1. i + 1 \in 0..n /\ i + 1 # 0 /\ (i + 1) - 1 = i /\ i - 1 \in 0..n - 1 /\ (i - 1) + 1 = i /\ i \in 1..n - 1
        BY <1>2, <2>2
      <3>2. u[i + 1] = Shown(u[(i + 1) - 1], chars[i + 1])
        BY <1>3, <3>1
      <3>3. t[i] = u[i + 1] /\ t[i - 1] = u[i] /\ q[i] = chars[i + 1]
        BY <1>2, <3>1
      <3> QED
        BY <2>2, <3>1, <3>2, <3>3
    <2> QED
      BY <2>1, <2>2
  <1>5. t = [i \in 0..n - 1 |-> t[i]] /\ t[n - 1] = u[n]
    BY <1>2
  <1> HIDE DEF t, n, q
  <1>6. Shows(Shown(line, Head(chars)), q, t)
    BY <1>2, <1>4, <1>5 DEF Shows
  <1>7. Terminal(Shown(line, Head(chars)), q) = t[n - 1]
    <2>1. q \in Seq(S) /\ Len(q) = n - 1
      BY <1>2
    <2>2. Terminal(Shown(line, Head(chars)), q) = t[Len(q)]
      BY <2>1, <1>6, TerminalShows
    <2> QED
      BY <2>1, <2>2
  <1>8. Terminal(line, chars) = u[n]
    BY <1>1, TerminalShows DEF n
  <1> QED
    BY <1>5, <1>7, <1>8 DEF q

\* Nothing queued, nothing more to show.
LEMMA TerminalEmpty ==
  ASSUME NEW S, NEW line
  PROVE  Terminal(line, <<>>) = line
  <1>1. <<>> \in Seq(S) /\ Len(<<>>) = 0
    OBVIOUS
  <1>2. PICK t : Shows(line, <<>>, t)
    BY <1>1, ShowsExists
  <1>3. t = [i \in 0..0 |-> IF i = 0 THEN line ELSE Shown(t[i - 1], <<>>[i])]
    BY <1>1, <1>2 DEF Shows
  <1>4. t[0] = line
    BY <1>3
  <1> QED
    BY <1>1, <1>2, <1>4, TerminalShows

-----------------------------------------------------------------------------
(***************************************************************************)
(* yarvmon: one lemma per action.                                          *)
(***************************************************************************)
LEMMA Queue ==
  ASSUME MonTypeOK
  PROVE  /\ utx \o out \in Seq(Chars) /\ Drained = Terminal(screen, utx \o out)
         /\ out = <<>> => utx \o out = utx
  BY DEF MonTypeOK, Drained

LEMMA Literals ==
  /\ {"newline", "erase", "byte"} \subseteq Chars /\ Keys \subseteq Chars
  /\ "newline" \notin Keys /\ "erase" \notin Keys
  BY MonAssumption DEF Chars, Keys

LEMMA OneMore ==
  ASSUME NEW S, NEW s \in Seq(S), NEW x \in S
  PROVE  <<x>> \in Seq(S) /\ Append(s, x) \in Seq(S) /\ s \o <<x>> = Append(s, x) /\ <<>> \in Seq(S)
  OBVIOUS

LEMMA MonInitially ==
  ASSUME MonInit PROVE MonInv
  <1>1. MonTypeOK
    <2>1. Len(msession.keys) \in Nat /\ typed = 0
      BY MonAssumption DEF MonInit, MonIdle
    <2> QED
      BY <2>1, MonAssumption DEF MonInit, MonIdle, MonTypeOK
  <1>2. Drained = in_buf
    <2>1. Drained = Terminal(<<>>, <<>>) /\ in_buf = <<>>
      BY DEF MonInit, MonIdle, Drained
    <2> QED
      BY <2>1, TerminalEmpty
  <1> QED
    BY <1>1, <1>2 DEF MonInv, EchoIsTheLine

\* The terminal types: a key is none of the monitor's own characters.
LEMMA TypeKeeps ==
  ASSUME MonInv, Type PROVE MonInv'
  <1> USE DEF MonInv, Type
  <1>1. MonTypeOK'
    <2> DEFINE k == msession.keys
    <2>1. Len(k) \in Nat /\ \A i \in 1..Len(k) : k[i] \in Keys
      BY SMTT(30), MonAssumption DEF MonTypeOK, Keys
    <2> HIDE DEF k
    <2>2. typed \in 0..Len(k) /\ typed < Len(k)
      BY <2>1 DEF MonTypeOK, k
    <2>3. k[typed + 1] \in Keys /\ typed' \in 0..Len(k)
      BY <2>1, <2>2 DEF k
    <2>4. urx' \in Seq(Keys) /\ Len(urx') <= UART_DEPTH
      BY <2>3, MonAssumption DEF MonTypeOK, k
    <2>5. UNCHANGED <<msession, utx, out, screen, mpc, in_buf>>
      OBVIOUS
    <2>6. typed' \in 0..Len(msession'.keys)
      BY <2>3, <2>5 DEF k
    <2> QED
      BY <2>4, <2>5, <2>6 DEF MonTypeOK
  <1>2. EchoIsTheLine'
    BY DEF EchoIsTheLine, Drained
  <1> QED
    BY <1>1, <1>2

\* A character moves from the program to the FIFO.
LEMMA PutcKeeps ==
  ASSUME MonInv, uart_putc PROVE MonInv'
  <1> USE DEF MonInv, uart_putc
  <1>1. \A s, t \in Seq(Chars) : t # <<>> =>
          /\ Append(s, Head(t)) \in Seq(Chars) /\ Tail(t) \in Seq(Chars)
          /\ Append(s, Head(t)) \o Tail(t) = s \o t
    OBVIOUS
  <1>2. MonTypeOK'
    BY <1>1 DEF MonTypeOK
  <1>3. (utx \o out)' = utx \o out
    BY <1>1 DEF MonTypeOK
  <1>4. EchoIsTheLine'
    BY <1>3 DEF EchoIsTheLine, Drained
  <1> QED
    BY <1>2, <1>4

LEMMA ShownType ==
  ASSUME NEW s \in Seq(Chars), NEW c \in Chars
  PROVE  Shown(s, c) \in Seq(Chars)
  <1>1. SubSeq(s, 1, Len(s) - 1) \in Seq(Chars)
    OBVIOUS
  <1>2. Append(s, c) \in Seq(Chars) /\ <<>> \in Seq(Chars)
    BY OneMore
  <1> QED
    BY <1>1, <1>2 DEF Shown

\* The terminal shows a character.
LEMMA SendKeeps ==
  ASSUME MonInv, Send PROVE MonInv'
  <1> USE DEF MonInv, Send
  <1>1. utx # <<>> /\ utx \in Seq(Chars) /\ out \in Seq(Chars) /\ screen \in Seq(Chars)
    BY DEF MonTypeOK
  <1>2. Head(utx) \in Chars /\ utx' \in Seq(Chars)
    BY <1>1
  <1>3. screen' \in Seq(Chars)
    BY <1>1, <1>2, ShownType
  <1>4. MonTypeOK'
    BY <1>2, <1>3 DEF MonTypeOK
  <1>5. \A s, t \in Seq(Chars) : s # <<>> =>
          Head(s \o t) = Head(s) /\ Tail(s \o t) = Tail(s) \o t /\ s \o t # <<>> /\ s \o t \in Seq(Chars)
    OBVIOUS
  <1>6. Terminal(Shown(screen, Head(utx \o out)), Tail(utx \o out)) = Terminal(screen, utx \o out)
    <2> DEFINE q == utx \o out
    <2>1. q \in Seq(Chars) /\ q # <<>>
      BY <1>1, <1>5
    <2> HIDE DEF q
    <2>2. Terminal(Shown(screen, Head(q)), Tail(q)) = Terminal(screen, q)
      BY <2>1, TerminalSend
    <2> QED
      BY <2>2 DEF q
  <1>7. Drained' = Drained
    BY <1>1, <1>5, <1>6 DEF Drained
  <1> QED
    BY <1>4, <1>7 DEF EchoIsTheLine

\* What is edited is what is printed.
LEMMA GetLineKeeps ==
  ASSUME MonInv, get_line PROVE MonInv'
  <1> USE DEF MonInv
  <1> DEFINE c == Head(urx)
  <1>1. /\ mpc = "line" /\ out = <<>> /\ urx # <<>> /\ urx' = Tail(urx)
        /\ UNCHANGED <<msession, typed, utx, screen>>
    BY DEF get_line
  <1>2. c \in Keys /\ urx' \in Seq(Keys) /\ Len(urx') <= UART_DEPTH
    BY <1>1, MonAssumption DEF MonTypeOK
  <1>3. Terminal(screen, utx) = in_buf /\ utx \in Seq(Chars) /\ in_buf \in Seq(Keys)
    BY <1>1, Queue DEF EchoIsTheLine, MonTypeOK
  <1>4. \A s \in Seq(Chars), x \in Chars : s \o <<x>> = Append(s, x) /\ <<x>> \in Seq(Chars)
    BY OneMore
  <1>5. ASSUME NEW x \in Chars, out' = <<x>> PROVE Drained' = Shown(in_buf, x)
    <2>1. (utx \o out)' = Append(utx, x)
      BY <1>1, <1>3, <1>4, <1>5
    <2>2. Terminal(screen, Append(utx, x)) = Shown(in_buf, x)
      BY <1>3, TerminalAppend
    <2> QED
      BY <1>1, <2>1, <2>2 DEF Drained
  <1>6. ASSUME out' = out, in_buf' = in_buf, mpc' = mpc PROVE MonInv'
    <2>1. MonTypeOK'
      BY <1>1, <1>2, <1>6 DEF MonTypeOK
    <2> QED
      BY <1>1, <1>6, <2>1 DEF EchoIsTheLine, Drained
  <1>7. CASE /\ c = "cr" /\ mpc' = "parse" /\ out' = <<"newline">> /\ UNCHANGED in_buf
    <2>1. MonTypeOK'
      <3>1. <<"newline">> \in Seq(Chars)
        BY Literals
      <3> QED
        BY <1>1, <1>2, <1>7, <3>1 DEF MonTypeOK
    <2> QED
      BY <1>7, <2>1 DEF EchoIsTheLine
  <1>8. CASE c = "bs" /\ Backspace /\ UNCHANGED mpc
    <2>1. CASE in_buf # <<>> /\ in_buf' = SubSeq(in_buf, 1, Len(in_buf) - 1) /\ out' = <<"erase">>
      <3>1. in_buf' \in Seq(Keys) /\ Len(in_buf') < IN_BUF_SIZE /\ out' \in Seq(Chars)
        <4>1. \A s \in Seq(Keys) : s # <<>> => /\ SubSeq(s, 1, Len(s) - 1) \in Seq(Keys)
                                                /\ Len(SubSeq(s, 1, Len(s) - 1)) < Len(s)
          OBVIOUS
        <4>2. in_buf' \in Seq(Keys) /\ Len(in_buf') < Len(in_buf)
          BY <2>1, <4>1 DEF MonTypeOK
        <4>3. Len(in_buf') \in Nat /\ Len(in_buf) \in Nat /\ Len(in_buf) < IN_BUF_SIZE
          BY <4>2 DEF MonTypeOK
        <4>4. <<"erase">> \in Seq(Chars)
          BY Literals
        <4> QED
          BY <2>1, <4>2, <4>3, <4>4, MonAssumption
      <3>2. MonTypeOK'
        BY <1>1, <1>2, <1>8, <3>1 DEF MonTypeOK
      <3>3. Drained' = Shown(in_buf, "erase")
        BY <1>5, <2>1, Literals
      <3>4. Shown(in_buf, "erase") = in_buf'
        BY <2>1 DEF Shown
      <3> QED
        BY <3>2, <3>3, <3>4 DEF EchoIsTheLine
    <2> QED
      BY <1>6, <1>8, <2>1 DEF Backspace
  <1>9. CASE c \notin {"cr", "bs"} /\ Key(c) /\ UNCHANGED mpc
    <2>1. CASE Len(in_buf) < IN_BUF_SIZE - 1 /\ in_buf' = Append(in_buf, c) /\ out' = <<c>>
      <3> HIDE DEF c
      <3>1. in_buf' \in Seq(Keys) /\ Len(in_buf') < IN_BUF_SIZE
        BY <1>2, <2>1, MonAssumption DEF MonTypeOK
      <3>2. c \in Chars /\ c # "newline" /\ c # "erase" /\ out' \in Seq(Chars)
        BY <1>2, <2>1, Literals
      <3>3. MonTypeOK'
        BY <1>1, <1>2, <1>9, <3>1, <3>2 DEF MonTypeOK
      <3>4. Drained' = Shown(in_buf, c)
        BY <1>5, <2>1, <3>2
      <3>5. Shown(in_buf, c) = in_buf'
        BY <2>1, <3>2 DEF Shown
      <3> QED
        BY <3>3, <3>4, <3>5 DEF EchoIsTheLine
    <2> QED
      BY <1>6, <1>9, <2>1 DEF Key
  <1> QED
    BY <1>7, <1>8, <1>9 DEF get_line

\* Until the next prompt the line is left alone; the prompt begins an empty one.
LEMMA PromptKeeps ==
  ASSUME MonInv, out = <<>>, Prompt, UNCHANGED lineVars PROVE MonInv'
  <1> USE DEF MonInv, Prompt, lineVars
  <1>1. MonTypeOK'
    <2>1. <<"newline">> \in Seq(Chars)
      BY Literals
    <2>2. <<>> \in Seq(Keys) /\ Len(<<>>) = 0
      OBVIOUS
    <2> QED
      BY <2>1, <2>2, MonAssumption DEF MonTypeOK
  <1>2. (utx \o out)' = Append(utx, "newline") /\ utx \in Seq(Chars) /\ "newline" \in Chars
    BY Literals, OneMore DEF MonTypeOK
  <1>3. Terminal(screen, Append(utx, "newline")) = Shown(Terminal(screen, utx), "newline")
    BY <1>2, TerminalAppend
  <1>4. \A s : Shown(s, "newline") = <<>>
    BY DEF Shown
  <1>5. Drained' = <<>>
    BY <1>2, <1>3, <1>4 DEF Drained
  <1> QED
    BY <1>1, <1>5 DEF EchoIsTheLine

LEMMA WorkKeeps ==
  ASSUME MonInv, UNCHANGED <<lineVars, in_buf>>, out' \in {out, <<"byte">>}, mpc' \in {"parse", "block"}
  PROVE  MonInv'
  <1>1. <<"byte">> \in Seq(Chars)
    BY Literals
  <1>2. MonTypeOK'
    BY <1>1 DEF MonInv, MonTypeOK, lineVars
  <1> QED
    BY <1>2 DEF MonInv, EchoIsTheLine

LEMMA ParseKeeps ==
  ASSUME MonInv, Parse PROVE MonInv'
  <1>1. mpc = "parse" /\ out = <<>> /\ UNCHANGED lineVars
    BY DEF Parse
  <1>2. CASE Prompt
    BY <1>1, <1>2, PromptKeeps
  <1>3. CASE UNCHANGED <<mpc, in_buf, out>>
    BY <1>1, <1>3, WorkKeeps
  <1>4. CASE Number
    <2>1. UNCHANGED in_buf /\ mpc' \in {"parse", "block"} /\ out' \in {out, <<"byte">>}
      BY <1>1, <1>4 DEF Number
    <2> QED
      BY <1>1, <2>1, WorkKeeps
  <1> QED
    BY <1>2, <1>3, <1>4 DEF Parse, Mode

LEMMA BlockKeeps ==
  ASSUME MonInv, Block PROVE MonInv'
  <1>1. UNCHANGED <<lineVars, in_buf>> /\ mpc' \in {"parse", "block"} /\ out' = <<"byte">>
    BY DEF Block
  <1> QED
    BY <1>1, WorkKeeps

(* The monitor's line buffer never overflows, its FIFOs hold what the UART has room for, and the   *)
(* line on the terminal is the one in the buffer: yarvmon.c get_line, uart.h uart_putc.             *)
THEOREM MonInvariant == MonSpec => []MonInv
  <1>1. MonInit => MonInv
    BY MonInitially
  <1>2. MonInv /\ [MonNext]_monVars => MonInv'
    <2> SUFFICES ASSUME MonInv, [MonNext]_monVars PROVE MonInv'
      OBVIOUS
    <2>1. CASE UNCHANGED monVars
      BY <2>1 DEF monVars, MonInv, MonTypeOK, EchoIsTheLine, Drained
    <2> QED
      BY <2>1, PutcKeeps, GetLineKeeps, ParseKeeps, BlockKeeps, TypeKeeps, SendKeeps DEF MonNext, MonCpu
  <1> QED
    BY <1>1, <1>2, PTL DEF MonSpec

(* Whatever is typed, backspaces at the start and keys past the end included, the monitor parses   *)
(* the line that its terminal shows once the output has drained.                                    *)
THEOREM ParsesWhatIsShown == MonSpec => []EchoIsTheLine
  <1>1. MonInv => EchoIsTheLine
    BY DEF MonInv
  <1> QED
    BY <1>1, MonInvariant, PTL

-----------------------------------------------------------------------------
(***************************************************************************)
(* uart_echo: the bytes.                                                   *)
(***************************************************************************)
LEMMA EchoKeepsOrder ==
  ASSUME BytesInOrder, Echo, UNCHANGED sent
  PROVE  BytesInOrder'
  <1>1. \A q \in Seq(Nat) : q # <<>> =>
          /\ Tail(q) \in Seq(Nat) /\ Len(Tail(q)) = Len(q) - 1 /\ Head(q) = q[1]
          /\ Len(q) \in Nat \ {0} /\ Head(q) \in Nat /\ \A i \in 1..Len(q) - 1 : Tail(q)[i] = q[i + 1]
    OBVIOUS
  <1>2. \A q \in Seq(Nat), b \in Nat :
          /\ Append(q, b) \in Seq(Nat) /\ Len(q) \in Nat /\ Len(Append(q, b)) = Len(q) + 1
          /\ Append(q, b)[Len(q) + 1] = b /\ \A i \in 1..Len(q) : Append(q, b)[i] = q[i]
    OBVIOUS
  <1> DEFINE n == Len(echoed)  m == Len(erx)
  <1>3. /\ n \in Nat /\ m \in Nat \ {0} /\ sent = n + m
        /\ erx \in Seq(Nat) /\ echoed \in Seq(Nat) /\ Head(erx) = n
    <2>1. erx \in Seq(Nat) /\ echoed \in Seq(Nat) /\ erx # <<>> /\ sent = n + m
      BY DEF BytesInOrder, Echo
    <2>2. n \in Nat /\ m \in Nat \ {0} /\ Head(erx) = erx[1]
      BY <1>1, <1>2, <2>1
    <2>3. erx[1] = n + 1 - 1
      BY <2>2 DEF BytesInOrder
    <2> QED
      BY <2>1, <2>2, <2>3
  <1>4. /\ erx' \in Seq(Nat) /\ Len(erx') = m - 1 /\ \A i \in 1..m - 1 : erx'[i] = n + i
    BY <1>1, <1>3 DEF BytesInOrder, Echo
  <1>5. /\ echoed' \in Seq(Nat) /\ Len(echoed') = n + 1
        /\ echoed'[n + 1] = n /\ \A i \in 1..n : echoed'[i] = i - 1
    BY <1>2, <1>3 DEF BytesInOrder, Echo
  <1>6. sent' = Len(echoed') + Len(erx') /\ sent' \in Nat
    BY <1>3, <1>4, <1>5
  <1>7. \A i \in 1..Len(echoed') : echoed'[i] = i - 1
    <2> SUFFICES ASSUME NEW i \in 1..n + 1 PROVE echoed'[i] = i - 1
      BY <1>5
    <2>1. CASE i \in 1..n
      BY <1>5, <2>1
    <2>2. CASE i = n + 1
      BY <1>3, <1>5, <2>2
    <2> QED
      BY <1>3, <2>1, <2>2
  <1>8. \A i \in 1..Len(erx') : erx'[i] = Len(echoed') + i - 1
    BY <1>3, <1>4, <1>5
  <1> QED
    BY <1>4, <1>5, <1>6, <1>7, <1>8 DEF BytesInOrder

LEMMA SendKeepsOrder ==
  ASSUME BytesInOrder, PeerSends
  PROVE  BytesInOrder'
  <1>1. \A q \in Seq(Nat), b \in Nat :
          /\ Append(q, b) \in Seq(Nat) /\ Len(q) \in Nat /\ Len(Append(q, b)) = Len(q) + 1
          /\ Append(q, b)[Len(q) + 1] = b /\ \A i \in 1..Len(q) : Append(q, b)[i] = q[i]
    OBVIOUS
  <1>2. /\ erx' \in Seq(Nat) /\ Len(erx') = Len(erx) + 1 /\ Len(erx) \in Nat /\ Len(echoed) \in Nat
        /\ erx'[Len(erx) + 1] = sent /\ \A i \in 1..Len(erx) : erx'[i] = erx[i]
    BY <1>1 DEF BytesInOrder, PeerSends
  <1>3. \A i \in 1..Len(erx') : erx'[i] = Len(echoed) + i - 1
    <2> DEFINE m == Len(erx)
    <2> SUFFICES ASSUME NEW i \in 1..m + 1 PROVE erx'[i] = Len(echoed) + i - 1
      BY <1>2
    <2>1. CASE i \in 1..m
      BY <1>2, <2>1 DEF BytesInOrder
    <2>2. CASE i = m + 1
      <3>1. sent = Len(echoed) + m
        BY DEF BytesInOrder
      <3> QED
        BY <1>2, <2>2, <3>1
    <2> QED
      BY <1>2, <2>1, <2>2
  <1> QED
    BY <1>2, <1>3 DEF BytesInOrder, PeerSends

-----------------------------------------------------------------------------
(***************************************************************************)
(* uart_echo: the places.                                                  *)
(***************************************************************************)
Still == UNCHANGED <<sent, erx, echoed>>

LEMMA StillInOrder ==
  ASSUME BytesInOrder, Still
  PROVE  BytesInOrder'
  BY DEF BytesInOrder, Still

\* Only the source that main() has armed is ever taken.
LEMMA TakeKeeps ==
  ASSUME EchoInv, TakeInterrupt PROVE EchoInv'
  <1> USE DEF EchoInv, TakeInterrupt
  <1>1. BytesInOrder'
    BY StillInOrder DEF Still
  <1>2. EchoTypeOK'
    BY DEF EchoTypeOK, Enter
  <1>3. AtEachPlace'
    <2>1. mstatus.MIE /\ Pending # {} /\ Pending \subseteq mie /\ handler = "none"
      BY DEF Pending
    <2>2. UNCHANGED <<mie, msip, count, verdict>>
      OBVIOUS
    <2>3. CASE epc = "spin"
      <3>1. Pending = {"MSI"} /\ msip
        BY <2>1, <2>3 DEF AtEachPlace, Pending, mip
      <3>2. handler' = "MSI" /\ epc' = "spin"
        BY <2>3, <3>1 DEF Enter
      <3> QED
        BY <2>2, <2>3, <3>1, <3>2 DEF AtEachPlace
    <2>4. CASE epc \in {"test", "wfi", "asleep", "report", "parked"}
      <3>1. "MEI" \in Pending
        BY <2>1, <2>4 DEF AtEachPlace
      <3>2. handler' = "MEI"
        BY <3>1 DEF Enter
      <3> QED
        BY <2>2, <2>4, <3>2 DEF AtEachPlace
    <2> QED
      BY <2>1, <2>3, <2>4 DEF AtEachPlace
  <1> QED
    BY <1>1, <1>2, <1>3

LEMMA HandlerKeeps ==
  ASSUME EchoInv, trap_handler PROVE EchoInv'
  <1> USE DEF EchoInv
  <1>0. UNCHANGED <<epc, sent, rxie, mie, verdict>>
    BY DEF trap_handler
  <1>1. CASE /\ handler = "MSI" /\ msip' = FALSE /\ count' = [count EXCEPT !.msi = @ + 1] /\ Mret
             /\ UNCHANGED <<erx, echoed>>
    <2>1. BytesInOrder'
      BY <1>0, <1>1, StillInOrder DEF Still
    <2>2. EchoTypeOK'
      <3>1. count' \in [irq : Nat, sync : Nat, msi : Nat]
        BY <1>1 DEF EchoTypeOK
      <3>2. mstatus' \in [MIE : BOOLEAN, MPIE : BOOLEAN]
        BY <1>1 DEF EchoTypeOK, Mret
      <3> QED
        BY <1>0, <1>1, <3>1, <3>2 DEF EchoTypeOK
    <2>3. epc = "spin" /\ msip /\ count.msi = 0
      BY <1>1 DEF AtEachPlace
    <2>4. count'.msi = 1 /\ count'.sync = count.sync /\ handler' = "none" /\ ~msip'
      BY <1>1, <2>3 DEF EchoTypeOK, Mret
    <2> QED
      BY <1>0, <2>1, <2>2, <2>3, <2>4 DEF AtEachPlace
  <1>2. CASE /\ handler = "ecall" /\ count' = [count EXCEPT !.sync = @ + 1] /\ Mret
             /\ UNCHANGED <<msip, erx, echoed>>
    <2>1. BytesInOrder'
      BY <1>0, <1>2, StillInOrder DEF Still
    <2>2. EchoTypeOK'
      BY <1>0, <1>2 DEF EchoTypeOK, Mret
    <2>3. epc = "msi" /\ ~mstatus.MPIE /\ count.sync = 0
      BY <1>2 DEF AtEachPlace
    <2>4. count'.sync = 1 /\ count'.msi = count.msi /\ handler' = "none" /\ ~mstatus'.MIE
      BY <1>2, <2>3 DEF EchoTypeOK, Mret
    <2> QED
      BY <1>0, <1>2, <2>1, <2>2, <2>3, <2>4 DEF AtEachPlace
  <1>3. CASE /\ handler = "MEI" /\ Echo /\ count' = [count EXCEPT !.irq = @ + 1]
             /\ UNCHANGED <<msip, handler, mstatus>>
    <2>1. BytesInOrder'
      BY <1>0, <1>3, EchoKeepsOrder
    <2>2. EchoTypeOK'
      BY <1>0, <1>3 DEF EchoTypeOK
    <2>3. count'.sync = count.sync /\ count'.msi = count.msi /\ count'.irq = count.irq + 1 /\ count.irq \in Nat
      BY <1>3 DEF EchoTypeOK
    <2>4. count.irq >= PHASE_CHARS => count'.irq >= PHASE_CHARS
      BY <2>3, EchoAssumption
    <2> QED
      BY <1>0, <1>3, <2>1, <2>2, <2>3, <2>4 DEF AtEachPlace
  <1>4. CASE /\ handler = "MEI" /\ erx = <<>> /\ Mret
             /\ UNCHANGED <<msip, erx, echoed, count>>
    <2>1. BytesInOrder'
      BY <1>0, <1>4, StillInOrder DEF Still
    <2>2. EchoTypeOK'
      BY <1>0, <1>4 DEF EchoTypeOK, Mret
    <2> QED
      BY <1>0, <1>4, <2>1, <2>2 DEF AtEachPlace, Mret
  <1> QED
    BY <1>1, <1>2, <1>3, <1>4 DEF trap_handler

\* The polled phase, and the interrupts armed one at a time.
LEMMA PhasesKeep ==
  ASSUME EchoInv, Poll \/ Arm \/ SeePending \/ RaiseMsi \/ Unmask PROVE EchoInv'
  <1> USE DEF EchoInv, At2, Runs
  <1>1. CASE Poll
    <2>1. BytesInOrder'
      BY <1>1, EchoKeepsOrder DEF Poll
    <2> QED
      BY <1>1, <2>1 DEF Poll, EchoTypeOK, AtEachPlace
  <1>2. CASE Arm
    <2>1. BytesInOrder'
      BY <1>2, StillInOrder DEF Arm, Still
    <2> QED
      BY <1>2, <2>1 DEF Arm, EchoTypeOK, AtEachPlace
  <1>3. CASE SeePending
    <2>1. BytesInOrder'
      BY <1>3, StillInOrder DEF SeePending, Still
    <2>2. epc = "pend" /\ epc' = "msi" /\ handler' = "ecall" /\ mstatus' = [MIE |-> FALSE, MPIE |-> mstatus.MIE]
      BY <1>3 DEF SeePending, Enter
    <2>3. EchoTypeOK' /\ ~mstatus'.MIE /\ mstatus'.MPIE = mstatus.MIE
      BY <1>3, <2>2 DEF SeePending, EchoTypeOK
    <2> QED
      BY <1>3, <2>1, <2>2, <2>3 DEF SeePending, AtEachPlace
  <1>4. CASE RaiseMsi
    <2>1. BytesInOrder'
      BY <1>4, StillInOrder DEF RaiseMsi, Still
    <2>2. EchoTypeOK'
      BY <1>4 DEF RaiseMsi, EchoTypeOK
    <2>3. mie' = {"MSI"} /\ msip'
      BY <1>4 DEF RaiseMsi, EchoTypeOK
    <2> QED
      BY <1>4, <2>1, <2>2, <2>3 DEF RaiseMsi, AtEachPlace
  <1>5. CASE Unmask
    <2>1. BytesInOrder'
      BY <1>5, StillInOrder DEF Unmask, Still
    <2>2. epc = "spin" /\ epc' = "test" /\ count.msi > 0 /\ mie' = (mie \ {"MSI"}) \cup {"MEI"}
      BY <1>5 DEF Unmask
    <2>3. mie' = {"MEI"} /\ ~msip /\ count.msi = 1
      BY <2>2 DEF AtEachPlace
    <2>4. EchoTypeOK'
      BY <1>5, <2>3 DEF Unmask, EchoTypeOK
    <2> QED
      BY <1>5, <2>1, <2>2, <2>3, <2>4 DEF Unmask, AtEachPlace
  <1> QED
    BY <1>1, <1>2, <1>3, <1>4, <1>5

\* The interrupt-driven phase and the report.
LEMMA WaitKeeps ==
  ASSUME EchoInv, Test \/ Wfi \/ Report PROVE EchoInv'
  <1> USE DEF EchoInv, At2, Runs
  <1>1. CASE Test
    <2>1. BytesInOrder'
      BY <1>1, StillInOrder DEF Test, Still
    <2>2. EchoTypeOK'
      BY <1>1 DEF Test, EchoTypeOK
    <2>3. epc = "test" /\ epc' \in {"wfi", "report"} /\ (epc' = "report" => count.irq >= PHASE_CHARS)
      BY <1>1, EchoAssumption DEF Test, EchoTypeOK
    <2> QED
      BY <1>1, <2>1, <2>2, <2>3 DEF Test, AtEachPlace
  <1>2. CASE Wfi
    <2>1. BytesInOrder'
      BY <1>2, StillInOrder DEF Wfi, Still
    <2> QED
      BY <1>2, <2>1 DEF Wfi, EchoTypeOK, AtEachPlace
  <1>3. CASE Report
    <2>1. BytesInOrder'
      BY <1>3, StillInOrder DEF Report, Still
    <2>2. EchoTypeOK'
      BY <1>3 DEF Report, EchoTypeOK
    <2>3. epc = "report" /\ epc' = "parked" /\ count.irq >= PHASE_CHARS /\ count.irq \in Nat
      BY <1>3 DEF Report, AtEachPlace, EchoTypeOK
    <2>4. verdict' = "GOOD"
      BY <1>3, <2>3, EchoAssumption DEF Report
    <2> QED
      BY <1>3, <2>1, <2>2, <2>3, <2>4 DEF Report, AtEachPlace
  <1> QED
    BY <1>1, <1>2, <1>3

LEMMA PeerKeeps ==
  ASSUME EchoInv, PeerSends PROVE EchoInv'
  <1>1. BytesInOrder'
    BY SendKeepsOrder DEF EchoInv
  <1> QED
    BY <1>1 DEF EchoInv, PeerSends, EchoTypeOK, AtEachPlace

LEMMA EchoInitially ==
  ASSUME EchoInit PROVE EchoInv
  <1>1. BytesInOrder
    <2>1. <<>> \in Seq(Nat) /\ Len(<<>>) = 0
      OBVIOUS
    <2> QED
      BY <2>1 DEF EchoInit, EchoIdle, BytesInOrder
  <1> QED
    BY <1>1 DEF EchoInit, EchoIdle, EchoInv, EchoTypeOK, AtEachPlace

(* uart_echo.c takes only the interrupt it has armed, at the place it has armed it for, and no     *)
(* byte between the FIFO and the echo is lost, doubled or reordered.                                *)
THEOREM EchoInvariant == EchoSpec => []EchoInv
  <1>1. EchoInit => EchoInv
    BY EchoInitially
  <1>2. EchoInv /\ [EchoNext]_echoVars => EchoInv'
    <2> SUFFICES ASSUME EchoInv, [EchoNext]_echoVars PROVE EchoInv'
      OBVIOUS
    <2>1. CASE UNCHANGED echoVars
      BY <2>1 DEF echoVars, EchoInv, BytesInOrder, EchoTypeOK, AtEachPlace
    <2> QED
      BY <2>1, TakeKeeps, HandlerKeeps, PhasesKeep, WaitKeeps, PeerKeeps DEF EchoNext, EchoCpu
  <1> QED
    BY <1>1, <1>2, PTL DEF EchoSpec

(* uart_echo.c, for any number of bytes at any time: every byte is echoed once and in order, the   *)
(* ecall and the software interrupt are taken once each, and a verdict, if there is one, is GOOD.   *)
THEOREM EchoesOnce == EchoSpec => []EchoSession
  <1>1. EchoInv => EchoSession
    <2> SUFFICES ASSUME EchoInv PROVE EchoSession
      OBVIOUS
    <2>1. \A i \in 1..Len(echoed) : echoed[i] = i - 1
      BY DEF EchoInv, BytesInOrder
    <2>2. count.msi <= 1 /\ count.sync <= 1
      BY DEF EchoInv, AtEachPlace
    <2>3. verdict # "none" => verdict = "GOOD" /\ count.msi = 1 /\ count.sync = 1
      BY DEF EchoInv, AtEachPlace
    <2> QED
      BY <2>1, <2>2, <2>3 DEF EchoSession
  <1> QED
    BY <1>1, EchoInvariant, PTL

-----------------------------------------------------------------------------
(***************************************************************************)
(* The SPI drivers: bytes on their way, and what the flash has been sent.  *)
(***************************************************************************)
\* A sequence of anything: accesses have many shapes.
IsSeq(s) == s \in Seq({s[i] : i \in 1..Len(s)})
Bench == dev.kind = "bench"
Flash == dev.kind = "flash"
InFlight == Len(stx) + (IF sst = "shift" THEN 1 ELSE 0)
Level == InFlight + Len(srx)
AtOp(K) == scode # <<>> /\ scode[1].k \in K

\* A transfer of many bytes, in progress.
Buf(o) == o = [k |-> "buf", b |-> o.b, pushed |-> o.pushed, popped |-> o.popped, keep |-> o.keep] /\ o.b \in Seq(0..255)
BufInv(o) ==
  /\ Buf(o) /\ o.pushed \in 0..Len(o.b) /\ o.popped \in 0..o.pushed /\ o.pushed - o.popped <= SPI_DEPTH
  /\ Level = o.pushed - o.popped /\ (o.popped < Len(o.b) \/ Len(o.b) = 0)

\* What is left of a call.
WordsLeft ==
  /\ IsSeq(scode)
  /\ \A i \in 1..Len(scode) - 1 : Fits(dev.kind, scode[i], scode[i + 1])
  /\ scode # <<>> => scode[Len(scode)].k # "push" /\ (~Bench => scode[Len(scode)].k # "busy")
  /\ \A i \in 1..Len(scode) : scode[i].k = "buf" =>
       ~Bench /\ Buf(scode[i]) /\ (i > 1 => scode[i].pushed = 0 /\ scode[i].popped = 0)

\* How many bytes are where, by the access that comes next.
InStep ==
  /\ ~AtOp({"busy", "buf"}) => InFlight = 0
  /\ ~Bench /\ ~AtOp({"busy", "pop", "status", "buf"}) => srx = <<>>
  /\ AtOp({"busy"}) => spushed /\ (~Bench => Level = 1)
  /\ ~Bench /\ AtOp({"pop", "status"}) => Len(srx) = 1
  /\ AtOp({"buf"}) => BufInv(scode[1])

Device ==
  LET fields == IF Flash THEN {"kind", "frame", "mem", "wel", "wip", "pd", "ignored"} ELSE {"kind", "frame"}
  IN  dev = [x \in fields |-> dev[x]]

SpiInv ==
  /\ Device
  /\ sst \in {"idle", "shift"} /\ IsSeq(stx) /\ IsSeq(srx) /\ IsSeq(sscript)
  /\ \A c \in 1..Len(sscript) : UsesSpiLib(dev.kind, sscript[c].ops)
  /\ WordsLeft /\ InStep
  /\ ~Bench => ~sovr

\* The frame the flash is being sent.
Sent == Len(dev.frame) + InFlight
First == IF dev.frame # <<>> THEN dev.frame[1] ELSE IF sst = "shift" THEN sshift ELSE stx[1]
InFrame == IF Sent > 0 THEN First ELSE Command(scode[1])
NextWakes == Len(sscript) >= 2 => Command(sscript[2].ops[2]) = RELEASE

FramesLeft ==
  /\ scode # <<>> =>
       scode[1].k # "again" /\ (Deselects(scode[Len(scode)]) \/ scode[Len(scode)].k = "again")
  /\ \A i \in 1..Len(scode) :
       /\ scode[i].k \in {"cs", "push", "busy", "pop", "status", "buf", "again"}
       /\ i < Len(scode) => Follow(scode[i], scode[i + 1])
       /\ Selects(scode[i]) => Frame(Command(scode[i + 1]), scode, i + 1)
  /\ Sleeps(scode) => NextWakes

\* Between two frames the device says which may come.
Between ==
  /\ dev.frame = <<>>
  /\ scode = <<>> => ~dev.wip /\ (dev.pd => NextWakes)
  /\ scode # <<>> =>
       /\ dev.wip => Polls(scode, 1)
       /\ dev.pd => Command(scode[2]) = RELEASE
       /\ Command(scode[2]) \in Programs => dev.wel

\* In a w25q_status, whose access p comes next: a status without the busy bit is a flash that is done.
Reading(p) ==
  /\ InStatus(scode, 1, p) /\ After(RDSR, scode, 9 - p)
  /\ p = 2 => Sent = 0
  /\ p \in 3..5 => Sent = 1
  /\ p \in 6..8 => Sent = 2
  /\ (p = 6 /\ Len(srx) = 1) \/ p = 7 => (~StillBusy(srx[1]) => ~dev.wip)
  /\ p < 8 /\ dev.wip => Len(scode) >= 10 - p /\ scode[10 - p].k = "again"
  /\ p = 8 => (Len(scode) > 1 => scode[2].k # "again") /\ (dev.wip => Polls(scode, 2))

Inside ==
  /\ Sent = 0 => AtOp({"push", "buf"}) /\ (AtOp({"buf"}) => scode[1].pushed = 0)
  /\ dev.wip => InFrame = RDSR
  /\ dev.pd => InFrame = RELEASE
  /\ InFrame \in Programs => dev.wel
  /\ InFrame = PWRDN => NextWakes
  /\ IF InFrame = RDSR THEN \E p \in 2..8 : Reading(p) ELSE Frame(InFrame, scode, 1)

FlashInv ==
  /\ IsSeq(dev.frame) /\ dev.wel \in BOOLEAN /\ dev.wip \in BOOLEAN /\ dev.pd \in BOOLEAN /\ dev.ignored = 0
  /\ dev.wip => ~dev.pd
  /\ \A c \in 1..Len(sscript) :
       /\ UsesFlashLib(sscript[c].ops)
       /\ c < Len(sscript) /\ Sleeps(sscript[c].ops) => Command(sscript[c + 1].ops[2]) = RELEASE
  /\ FramesLeft
  /\ cs <=> scode # <<>> /\ ~Selects(scode[1])
  /\ ~cs => Between
  /\ cs => Inside
-----------------------------------------------------------------------------
(***************************************************************************)
(* Sequences whose elements are of no one kind.                            *)
(***************************************************************************)
LEMMA Sequential ==
  ASSUME NEW S, NEW s \in Seq(S)
  PROVE  IsSeq(s)
<1>1. s \in [1..Len(s) -> S] /\ Len(s) \in Nat
  OBVIOUS
<1>2. s = [i \in 1..Len(s) |-> s[i]]
  BY <1>1
<1> QED BY <1>1, <1>2 DEF IsSeq

LEMMA Shorter ==
  ASSUME NEW s, IsSeq(s), s # <<>>
  PROVE  /\ IsSeq(Tail(s)) /\ Len(s) \in Nat \ {0} /\ Len(Tail(s)) = Len(s) - 1 /\ Head(s) = s[1]
         /\ \A i \in 1..Len(s) - 1 : Tail(s)[i] = s[i + 1]
<1> DEFINE S == {s[i] : i \in 1..Len(s)}
<1>1. s \in Seq(S)
  BY DEF IsSeq
<1> HIDE DEF S
<1>2. /\ Len(s) \in Nat \ {0} /\ Tail(s) \in Seq(S) /\ Len(Tail(s)) = Len(s) - 1 /\ Head(s) = s[1]
      /\ \A i \in 1..Len(s) - 1 : Tail(s)[i] = s[i + 1]
  BY <1>1
<1>3. IsSeq(Tail(s))
  BY <1>2, Sequential
<1> QED BY <1>2, <1>3

LEMMA Longer ==
  ASSUME NEW s, NEW e, IsSeq(s)
  PROVE  /\ IsSeq(Append(s, e)) /\ Len(s) \in Nat /\ Len(Append(s, e)) = Len(s) + 1
         /\ \A i \in 1..Len(s) : Append(s, e)[i] = s[i]
         /\ Append(s, e)[Len(s) + 1] = e
<1> DEFINE S == {s[i] : i \in 1..Len(s)} \cup {e}
<1>1. s \in Seq(S) /\ e \in S
  BY DEF IsSeq
<1> HIDE DEF S
<1>2. /\ Len(s) \in Nat /\ Append(s, e) \in Seq(S) /\ Len(Append(s, e)) = Len(s) + 1
      /\ \A i \in 1..Len(s) : Append(s, e)[i] = s[i]
      /\ Append(s, e)[Len(s) + 1] = e
  BY <1>1
<1>3. IsSeq(Append(s, e))
  BY <1>2, Sequential
<1> QED BY <1>2, <1>3

LEMMA Together ==
  ASSUME NEW s, NEW t, IsSeq(s), IsSeq(t)
  PROVE  /\ IsSeq(s \o t) /\ Len(s) \in Nat /\ Len(t) \in Nat /\ Len(s \o t) = Len(s) + Len(t)
         /\ \A i \in 1..Len(s) : (s \o t)[i] = s[i]
         /\ \A i \in Len(s) + 1 .. Len(s) + Len(t) : (s \o t)[i] = t[i - Len(s)]
<1> DEFINE S == {s[i] : i \in 1..Len(s)} \cup {t[i] : i \in 1..Len(t)}
<1>1. s \in Seq(S) /\ t \in Seq(S)
  BY DEF IsSeq
<1> HIDE DEF S
<1>2. /\ Len(s) \in Nat /\ Len(t) \in Nat /\ Len(s \o t) = Len(s) + Len(t) /\ s \o t \in Seq(S)
      /\ \A i \in 1..Len(s) : (s \o t)[i] = s[i]
      /\ \A i \in Len(s) + 1 .. Len(s) + Len(t) : (s \o t)[i] = t[i - Len(s)]
  BY <1>1
<1>3. IsSeq(s \o t)
  BY <1>2, Sequential
<1> QED BY <1>2, <1>3

LEMMA Joined ==
  ASSUME NEW s, NEW t, IsSeq(s), IsSeq(t)
  PROVE  /\ IsSeq(s \o t) /\ Len(s) \in Nat /\ Len(t) \in Nat /\ Len(s \o t) = Len(s) + Len(t)
         /\ (\A i \in 1..Len(s) : (s \o t)[i] = s[i]) /\ (\A i \in 1..Len(t) : (s \o t)[Len(s) + i] = t[i])
<1> DEFINE r == s \o t
<1>1. /\ IsSeq(r) /\ Len(s) \in Nat /\ Len(t) \in Nat /\ Len(r) = Len(s) + Len(t) /\ \A i \in 1..Len(s) : r[i] = s[i]
      /\ \A i \in Len(s) + 1 .. Len(s) + Len(t) : r[i] = t[i - Len(s)]
  BY Together
<1> HIDE DEF r
<1>2. ASSUME NEW i \in 1..Len(t)
      PROVE  r[Len(s) + i] = t[i]
  <2>1. PICK m, n : m = Len(s) /\ n = Len(t) /\ m \in Nat /\ n \in Nat /\ i \in 1..n
    BY <1>1
  <2>2. m + i \in m + 1 .. m + n /\ m + i - m = i
    BY <2>1
  <2>3. r[m + i] = t[m + i - m]
    BY <1>1, <2>1, <2>2
  <2> QED BY <2>1, <2>2, <2>3
<1> QED BY <1>1, <1>2 DEF r

LEMMA FirstChanged ==
  ASSUME NEW s, NEW e, IsSeq(s), s # <<>>
  PROVE  LET t == [s EXCEPT ![1] = e]
         IN  IsSeq(t) /\ Len(t) = Len(s) /\ t # <<>> /\ t[1] = e /\ \A i \in 2..Len(s) : t[i] = s[i]
<1> DEFINE S == {s[i] : i \in 1..Len(s)} \cup {e}
           t == [s EXCEPT ![1] = e]
<1>1. s \in Seq(S) /\ e \in S
  BY DEF IsSeq
<1> HIDE DEF S
<1>2. t \in Seq(S) /\ Len(t) = Len(s) /\ t # <<>> /\ t[1] = e /\ \A i \in 2..Len(s) : t[i] = s[i]
  BY <1>1
<1>3. IsSeq(t)
  BY <1>2, Sequential
<1> HIDE DEF t
<1> QED BY <1>2, <1>3 DEF t

LEMMA Listed ==
  ASSUME NEW s, Len(s) \in Nat, s = [i \in 1..Len(s) |-> s[i]]
  PROVE  IsSeq(s)
BY DEF IsSeq

LEMMA NoElements == IsSeq(<<>>) /\ Len(<<>>) = 0 /\ \A s : IsSeq(s) => (Len(s) \in Nat /\ (s = <<>> <=> Len(s) = 0))
<1>1. ASSUME NEW s, IsSeq(s)
      PROVE  Len(s) \in Nat /\ (s = <<>> <=> Len(s) = 0)
  <2> DEFINE S == {s[i] : i \in 1..Len(s)}
  <2>1. s \in Seq(S)
    BY <1>1 DEF IsSeq
  <2> HIDE DEF S
  <2> QED BY <2>1
<1> QED BY <1>1 DEF IsSeq

LEMMA Few ==
  ASSUME NEW a, NEW b, NEW c
  PROVE  /\ IsSeq(<<a>>) /\ Len(<<a>>) = 1 /\ <<a>>[1] = a
         /\ IsSeq(<<a, b>>) /\ Len(<<a, b>>) = 2 /\ <<a, b>>[1] = a /\ <<a, b>>[2] = b
         /\ IsSeq(<<a, b, c>>) /\ Len(<<a, b, c>>) = 3
         /\ <<a, b, c>>[1] = a /\ <<a, b, c>>[2] = b /\ <<a, b, c>>[3] = c
<1> DEFINE S == {a, b, c}
<1>1. a \in S /\ b \in S /\ c \in S
  OBVIOUS
<1> HIDE DEF S
<1>2. <<a>> \in Seq(S) /\ <<a, b>> \in Seq(S) /\ <<a, b, c>> \in Seq(S)
  BY <1>1
<1> QED BY <1>2, Sequential

LEMMA Rest ==
  ASSUME NEW s, IsSeq(s), Len(s) >= 2
  PROVE  LET t == SubSeq(s, 3, Len(s))
         IN  IsSeq(t) /\ Len(s) \in Nat /\ Len(t) = Len(s) - 2 /\ \A i \in 1..Len(s) - 2 : t[i] = s[i + 2]
<1> DEFINE S == {s[i] : i \in 1..Len(s)}
           t == SubSeq(s, 3, Len(s))
<1>1. s \in Seq(S)
  BY DEF IsSeq
<1> HIDE DEF S
<1>2. Len(s) \in Nat /\ \A i \in 3..Len(s) : s[i] \in S
  BY <1>1
<1>3. Len(t) = Len(s) - 2 /\ t \in Seq(S) /\ \A i \in 1..Len(s) - 2 : t[i] = s[i + 2]
  <2>1. Len(s) - 3 + 1 = Len(s) - 2 /\ (3 <= Len(s) \/ Len(s) - 2 = 0) /\ 3 \in Int /\ Len(s) \in Int
    <3>1. PICK n \in Nat : n = Len(s) /\ n >= 2
      BY <1>2
    <3>2. n - 3 + 1 = n - 2 /\ (3 <= n \/ n - 2 = 0)
      BY <3>1
    <3>3. 3 \in Int /\ Len(s) \in Int
      BY <3>1
    <3> QED BY <3>1, <3>2, <3>3
  <2>2. /\ t \in Seq(S) /\ Len(t) = (IF 3 <= Len(s) THEN Len(s) - 3 + 1 ELSE 0)
        /\ \A i \in 1..Len(s) - 3 + 1 : t[i] = s[3 + i - 1]
    BY <1>2, <2>1, SubSeqProperties
  <2>3. PICK n : n = Len(s) /\ n \in Nat /\ n >= 2
    BY <1>2
  <2> HIDE DEF t
  <2>4. Len(t) = n - 2 /\ \A i \in 1..n - 2 : t[i] = s[i + 2]
    <3>1. n - 3 + 1 = n - 2 /\ \A i \in 1..n - 2 : 3 + i - 1 = i + 2
      BY <2>3
    <3>2. Len(t) = n - 2
      BY <2>2, <2>3
    <3>3. \A i \in 1..n - 2 : t[i] = s[3 + i - 1]
      BY <2>2, <2>3, <3>1, Zenon
    <3> QED BY <3>1, <3>2, <3>3, Zenon
  <2> QED BY <2>2, <2>3, <2>4
<1>4. IsSeq(t)
  BY <1>3, Sequential
<1> QED BY <1>2, <1>3, <1>4

-----------------------------------------------------------------------------
(***************************************************************************)
(* The bytes of a transfer.                                                *)
(***************************************************************************)
\* A device stays the one it is.
LEMMA DeviceStep ==
  ASSUME Device, SpiNext
  PROVE  Device' /\ dev'.kind = dev.kind
<1> DEFINE fields == IF Flash THEN {"kind", "frame", "mem", "wel", "wip", "pd", "ignored"} ELSE {"kind", "frame"}
           G(d) == d = [x \in fields |-> d[x]] /\ d.kind = dev.kind
<1>1. G(dev) /\ "kind" \in fields
  BY DEF Device
<1> HIDE DEF fields
<1>2. \A d : G(d) => \A x : x # "kind" => \A v : G([d EXCEPT ![x] = v])
  BY <1>1
<1> HIDE DEF G
<1>3. /\ \A d : G(d) => \A v : G([d EXCEPT !.frame = v])
      /\ \A d : G(d) => \A v : G([d EXCEPT !.mem = v])
      /\ \A d : G(d) => \A v : G([d EXCEPT !.wel = v])
      /\ \A d : G(d) => \A v : G([d EXCEPT !.wip = v])
      /\ \A d : G(d) => \A v : G([d EXCEPT !.pd = v])
      /\ \A d : G(d) => \A v : G([d EXCEPT !.ignored = v])
  BY <1>2
<1>4. ASSUME NEW f
      PROVE  G(FlashEnd(f))
  <2>1. CASE f = <<>> \/ dev.pd \/ dev.wip
    BY <1>1, <1>3, <2>1 DEF FlashEnd
  <2>2. CASE ~(f = <<>> \/ dev.pd \/ dev.wip)
    <3>1. \A m : G([[dev EXCEPT !.wip = TRUE] EXCEPT !.mem = m]) /\ G([[dev EXCEPT !.mem = m] EXCEPT !.wip = TRUE])
      BY <1>1, <1>3
    <3>2. \A m : G([dev EXCEPT !.wip = TRUE, !.mem = m]) /\ G([dev EXCEPT !.mem = m, !.wip = TRUE])
      BY <3>1
    <3> QED BY <1>1, <1>3, <2>2, <3>2 DEF FlashEnd, WREN, PWRDN, PP, SE, CE
  <2> QED BY <2>1, <2>2
<1>5. G(Deselected)
  BY <1>1, <1>3, <1>4 DEF Deselected
<1>6. G(dev')
  <2>1. CASE SpiCs
    BY <1>1, <1>5, <2>1 DEF SpiCs
  <2>2. CASE SpiByte
    BY <1>1, <1>3, <2>2 DEF SpiByte
  <2>3. CASE FlashDone
    <3>1. G([[dev EXCEPT !.wip = FALSE] EXCEPT !.wel = FALSE])
      BY <1>1, <1>3
    <3> QED BY <2>3, <3>1 DEF FlashDone
  <2>4. CASE UNCHANGED dev
    BY <1>1, <2>4
  <2> QED BY <2>1, <2>2, <2>3, <2>4 DEF SpiNext, SpiCpu, SpiEngine, SpiLaunch, SpiPush, SpiBusyWait, SpiPop, SpiStatus,
        SpiBufPush, SpiBufPop, SpiOvr, SpiClearOvr, SpiReturn
<1> QED BY <1>6 DEF G, fields, Device, Flash

\* The access after one that is done.
LEMMA Onward ==
  ASSUME WordsLeft, scode # <<>>, scode' = Tail(scode), dev'.kind = dev.kind
  PROVE  /\ WordsLeft'
         /\ AtOp({"busy"})' <=> scode[1].k = "push"
         /\ ~Bench => (AtOp({"pop", "status"})' <=> scode[1].k = "busy")
         /\ AtOp({"buf"})' => ~Bench /\ Buf(scode'[1]) /\ scode'[1].pushed = 0 /\ scode'[1].popped = 0
<1>1. /\ IsSeq(scode') /\ Len(scode) \in Nat \ {0} /\ Len(scode') = Len(scode) - 1
      /\ \A i \in 1..Len(scode) - 1 : scode'[i] = scode[i + 1]
  BY Shorter DEF WordsLeft
<1>2. scode' = <<>> <=> Len(scode') = 0
  BY <1>1, NoElements
<1>3. WordsLeft'
  <2>1. \A i \in 1..Len(scode') - 1 : Fits(dev'.kind, scode'[i], scode'[i + 1])
    BY <1>1 DEF WordsLeft
  <2>2. scode' # <<>> => scode'[Len(scode')].k # "push" /\ (~Bench' => scode'[Len(scode')].k # "busy")
    <3>1. scode' # <<>> => scode'[Len(scode')] = scode[Len(scode)]
      BY <1>1, <1>2
    <3> QED BY <3>1 DEF WordsLeft, Bench
  <2>3. \A i \in 1..Len(scode') : scode'[i].k = "buf" =>
          ~Bench' /\ Buf(scode'[i]) /\ (i > 1 => scode'[i].pushed = 0 /\ scode'[i].popped = 0)
    BY <1>1 DEF WordsLeft, Bench, Buf
  <2> QED BY <1>1, <2>1, <2>2, <2>3 DEF WordsLeft
<1>4. CASE scode' = <<>>
  <2>1. Len(scode) = 1
    BY <1>1, <1>2, <1>4
  <2> QED BY <1>3, <1>4, <2>1 DEF AtOp, WordsLeft
<1>5. CASE scode' # <<>>
  <2>1. scode'[1] = scode[2] /\ 1 \in 1..Len(scode) - 1 /\ 2 \in 1..Len(scode)
    BY <1>1, <1>2, <1>5
  <2>2. Fits(dev.kind, scode[1], scode[2])
    BY <2>1 DEF WordsLeft
  <2>3. scode[2].k = "buf" => ~Bench /\ Buf(scode[2]) /\ scode[2].pushed = 0 /\ scode[2].popped = 0
    BY <2>1 DEF WordsLeft
  <2>4. /\ AtOp({"busy"})' <=> scode[1].k = "push"
        /\ ~Bench => (AtOp({"pop", "status"})' <=> scode[1].k = "busy")
    BY <1>5, <2>1, <2>2 DEF Fits, AtOp, Bench
  <2>5. AtOp({"buf"})' <=> scode[2].k = "buf"
    BY <1>5, <2>1 DEF AtOp
  <2> QED BY <1>3, <2>1, <2>3, <2>4, <2>5
<1> QED BY <1>4, <1>5


\* w25q_wait_ready, access by access.
LEMMA ThePoll ==
  LET w == w25q_wait_ready
      push(b) == [k |-> "push", b |-> b]
  IN  /\ IsSeq(w) /\ Len(w) = 9
      /\ w[1] = Cs(TRUE) /\ w[2] = push(RDSR) /\ w[3] = [k |-> "busy"] /\ w[4] = [k |-> "pop", keep |-> FALSE]
      /\ w[5] = push(FILL) /\ w[6] = [k |-> "busy"] /\ w[7] = [k |-> "status"] /\ w[8] = Cs(FALSE)
      /\ w[9] = [k |-> "again"]
      /\ \A i \in 1..8 : w[i] = w25q_status[i]
      /\ \A kind : \A i \in 1..8 : Fits(kind, w[i], w[i + 1])
      /\ \A i \in 1..9 : w[i].k # "buf"
<1> DEFINE push(b) == [k |-> "push", b |-> b]
           word == SpiWord(RDSR)
           send == spi_send1(RDSR)
           tail == <<push(FILL), [k |-> "busy"], [k |-> "status"]>>
           ops == send \o tail
           most == spi_select \o ops
<1>1. IsSeq(word) /\ Len(word) = 2 /\ word[1] = push(RDSR) /\ word[2] = [k |-> "busy"]
  BY Few DEF SpiWord
<1> DEFINE pop == <<[k |-> "pop", keep |-> FALSE]>>
           again == <<[k |-> "again"]>>
<1>2. IsSeq(pop) /\ Len(pop) = 1 /\ pop[1] = [k |-> "pop", keep |-> FALSE] /\ send = word \o pop
  BY Few DEF spi_send1
<1>3. IsSeq(tail) /\ Len(tail) = 3 /\ tail[1] = push(FILL) /\ tail[2] = [k |-> "busy"] /\ tail[3] = [k |-> "status"]
  <2>1. \A a, b, c : /\ IsSeq(<<a, b, c>>) /\ Len(<<a, b, c>>) = 3
                     /\ <<a, b, c>>[1] = a /\ <<a, b, c>>[2] = b /\ <<a, b, c>>[3] = c
    BY Few
  <2> QED BY <2>1
<1>4. IsSeq(spi_select) /\ Len(spi_select) = 1 /\ spi_select[1] = Cs(TRUE)
  BY Few DEF spi_select
<1>5. IsSeq(spi_deselect) /\ Len(spi_deselect) = 1 /\ spi_deselect[1] = Cs(FALSE)
  BY Few DEF spi_deselect
<1>6. IsSeq(again) /\ Len(again) = 1 /\ again[1] = [k |-> "again"] /\ w25q_wait_ready = w25q_status \o again
  BY Few DEF w25q_wait_ready
<1>7. w25q_status = most \o spi_deselect
  BY DEF w25q_status, spi_framed, send, tail
<1> HIDE DEF word, send, tail, pop, again
<1>8. /\ IsSeq(send) /\ Len(send) = 3
      /\ (\A i \in 1..2 : send[i] = word[i]) /\ (\A i \in 1..1 : send[2 + i] = pop[i])
  <2>1. IsSeq(word) /\ IsSeq(pop)
    BY <1>1, <1>2
  <2>4. Len(word) = 2 /\ Len(pop) = 1
    BY <1>1, <1>2
  <2>2. send = word \o pop
    BY <1>2
  <2>3. /\ IsSeq(send) /\ Len(send) = Len(word) + Len(pop)
        /\ (\A i \in 1..Len(word) : send[i] = word[i]) /\ (\A i \in 1..Len(pop) : send[Len(word) + i] = pop[i])
    BY <2>1, <2>2, Joined
  <2> QED BY <2>3, <2>4
<1>9. /\ IsSeq(ops) /\ Len(ops) = 6
      /\ (\A i \in 1..3 : ops[i] = send[i]) /\ (\A i \in 1..3 : ops[3 + i] = tail[i])
  <2>1. IsSeq(send) /\ IsSeq(tail)
    BY <1>8, <1>3
  <2>4. Len(send) = 3 /\ Len(tail) = 3
    BY <1>8, <1>3
  <2>2. ops = send \o tail
    BY DEF ops
  <2> HIDE DEF ops
  <2>3. /\ IsSeq(ops) /\ Len(ops) = Len(send) + Len(tail)
        /\ (\A i \in 1..Len(send) : ops[i] = send[i]) /\ (\A i \in 1..Len(tail) : ops[Len(send) + i] = tail[i])
    BY <2>1, <2>2, Joined
  <2> QED BY <2>3, <2>4
<1> HIDE DEF ops
<1>10. /\ IsSeq(most) /\ Len(most) = 7
      /\ (\A i \in 1..1 : most[i] = spi_select[i]) /\ (\A i \in 1..6 : most[1 + i] = ops[i])
  <2>1. IsSeq(spi_select) /\ IsSeq(ops)
    BY <1>4, <1>9
  <2>4. Len(spi_select) = 1 /\ Len(ops) = 6
    BY <1>4, <1>9
  <2>2. most = spi_select \o ops
    BY DEF most
  <2> HIDE DEF most
  <2>3. /\ IsSeq(most) /\ Len(most) = Len(spi_select) + Len(ops)
        /\ (\A i \in 1..Len(spi_select) : most[i] = spi_select[i]) /\ (\A i \in 1..Len(ops) : most[Len(spi_select) + i] = ops[i])
    BY <2>1, <2>2, Joined
  <2> QED BY <2>3, <2>4
<1> HIDE DEF most
<1>11. /\ IsSeq(w25q_status) /\ Len(w25q_status) = 8
      /\ (\A i \in 1..7 : w25q_status[i] = most[i]) /\ (\A i \in 1..1 : w25q_status[7 + i] = spi_deselect[i])
  <2>1. IsSeq(most) /\ IsSeq(spi_deselect)
    BY <1>10, <1>5
  <2>4. Len(most) = 7 /\ Len(spi_deselect) = 1
    BY <1>10, <1>5
  <2>2. w25q_status = most \o spi_deselect
    BY <1>7
  <2>3. /\ IsSeq(w25q_status) /\ Len(w25q_status) = Len(most) + Len(spi_deselect)
        /\ (\A i \in 1..Len(most) : w25q_status[i] = most[i]) /\ (\A i \in 1..Len(spi_deselect) : w25q_status[Len(most) + i] = spi_deselect[i])
    BY <2>1, <2>2, Joined
  <2> QED BY <2>3, <2>4
<1>12. /\ IsSeq(w25q_wait_ready) /\ Len(w25q_wait_ready) = 9
      /\ (\A i \in 1..8 : w25q_wait_ready[i] = w25q_status[i]) /\ (\A i \in 1..1 : w25q_wait_ready[8 + i] = again[i])
  <2>1. IsSeq(w25q_status) /\ IsSeq(again)
    BY <1>11, <1>6
  <2>4. Len(w25q_status) = 8 /\ Len(again) = 1
    BY <1>11, <1>6
  <2>2. w25q_wait_ready = w25q_status \o again
    BY <1>6
  <2>3. /\ IsSeq(w25q_wait_ready) /\ Len(w25q_wait_ready) = Len(w25q_status) + Len(again)
        /\ (\A i \in 1..Len(w25q_status) : w25q_wait_ready[i] = w25q_status[i]) /\ (\A i \in 1..Len(again) : w25q_wait_ready[Len(w25q_status) + i] = again[i])
    BY <2>1, <2>2, Joined
  <2> QED BY <2>3, <2>4
<1>13. \A i \in 1..8 : w25q_wait_ready[i] = w25q_status[i]
  BY <1>12
<1> DEFINE w == w25q_wait_ready
<1>14. \A i \in 1..7 : w[i] = most[i]
  BY <1>11, <1>13
<1>15. /\ w[1] = spi_select[1] /\ w[2] = word[1] /\ w[3] = word[2] /\ w[4] = pop[1]
       /\ w[5] = tail[1] /\ w[6] = tail[2] /\ w[7] = tail[3] /\ w[8] = spi_deselect[1] /\ w[9] = again[1]
  <2> HIDE DEF w
  <2>1. /\ most[1] = spi_select[1] /\ most[2] = ops[1] /\ most[3] = ops[2] /\ most[4] = ops[3]
        /\ most[5] = ops[4] /\ most[6] = ops[5] /\ most[7] = ops[6]
    BY <1>10
  <2>2. /\ ops[1] = send[1] /\ ops[2] = send[2] /\ ops[3] = send[3]
        /\ ops[4] = tail[1] /\ ops[5] = tail[2] /\ ops[6] = tail[3]
    BY <1>9
  <2>3. send[1] = word[1] /\ send[2] = word[2] /\ send[3] = pop[1]
    BY <1>8
  <2>4. w[8] = spi_deselect[1]
    BY <1>11, <1>13 DEF w
  <2>5. w[9] = again[1]
    BY <1>12 DEF w
  <2> QED BY <1>14, <2>1, <2>2, <2>3, <2>4, <2>5
<1>16. /\ w[1] = Cs(TRUE) /\ w[2] = push(RDSR) /\ w[3] = [k |-> "busy"] /\ w[4] = [k |-> "pop", keep |-> FALSE]
       /\ w[5] = push(FILL) /\ w[6] = [k |-> "busy"] /\ w[7] = [k |-> "status"] /\ w[8] = Cs(FALSE)
       /\ w[9] = [k |-> "again"]
  BY <1>1, <1>2, <1>3, <1>4, <1>5, <1>6, <1>15
<1> HIDE DEF w
<1>17. \A kind : \A i \in 1..8 : Fits(kind, w[i], w[i + 1])
  BY <1>16 DEF Fits, Cs
<1>18. \A i \in 1..9 : w[i].k # "buf"
  BY <1>16 DEF Cs
<1>19. IsSeq(w) /\ Len(w) = 9
  BY <1>12 DEF w
<1> QED BY <1>13, <1>16, <1>17, <1>18, <1>19 DEF w
\* What the operations of the invariant read of the next access.
LEMMA Held ==
  ASSUME SpiInv
  PROVE  /\ Len(stx) \in Nat /\ Len(srx) \in Nat /\ InFlight \in Nat /\ Level \in Nat
         /\ (InFlight = 0 <=> sst = "idle" /\ stx = <<>>)
         /\ (stx = <<>> <=> Len(stx) = 0) /\ (srx = <<>> <=> Len(srx) = 0)
         /\ scode # <<>> => Head(scode) = scode[1]
<1>1. IsSeq(stx) /\ IsSeq(srx) /\ IsSeq(scode) /\ sst \in {"idle", "shift"}
  BY DEF SpiInv, WordsLeft
<1>2. Len(stx) \in Nat /\ Len(srx) \in Nat /\ (stx = <<>> <=> Len(stx) = 0) /\ (srx = <<>> <=> Len(srx) = 0)
  BY <1>1, NoElements
<1> QED BY <1>1, <1>2, Shorter DEF InFlight, Level

LEMMA BufStarts ==
  ASSUME NEW o, NEW level, level = 0, Buf(o), o.pushed = 0, o.popped = 0
  PROVE  /\ o.pushed \in 0..Len(o.b) /\ o.popped \in 0..o.pushed /\ o.pushed - o.popped <= SPI_DEPTH
         /\ level = o.pushed - o.popped /\ (o.popped < Len(o.b) \/ Len(o.b) = 0)
<1>1. Len(o.b) \in Nat
  BY DEF Buf
<1> QED BY <1>1, SpiAssumption

\* An access that leaves no byte behind.
LEMMA PlainAccess ==
  ASSUME SpiInv, scode # <<>>, scode[1].k \notin {"push", "busy"}, scode' = Tail(scode), dev'.kind = dev.kind,
         IsSeq(stx'), IsSeq(srx'), sst' = "idle", stx' = <<>>, ~Bench => srx' = <<>>
  PROVE  WordsLeft' /\ InStep'
<1>1. /\ WordsLeft' /\ ~AtOp({"busy"})' /\ (~Bench => ~AtOp({"pop", "status"})')
      /\ (AtOp({"buf"})' => ~Bench /\ Buf(scode'[1]) /\ scode'[1].pushed = 0 /\ scode'[1].popped = 0)
      /\ (Bench' <=> Bench)
  BY Onward DEF SpiInv, Bench
<1>2. InFlight' = 0 /\ (~Bench => Level' = 0)
  BY NoElements DEF InFlight, Level
<1>3. AtOp({"buf"})' => BufInv(scode[1])'
  <2> SUFFICES ASSUME AtOp({"buf"})' PROVE BufInv(scode[1])'
    OBVIOUS
  <2>1. Level' = 0 /\ Buf(scode[1])' /\ scode'[1].pushed = 0 /\ scode'[1].popped = 0
    BY <1>1, <1>2 DEF Buf
  <2>2. BufInv(scode[1])'
    BY <2>1, BufStarts DEF BufInv, Buf
  <2> QED BY <2>2
<1>4. ~Bench' => srx' = <<>>
  BY <1>1
<1> QED BY <1>1, <1>2, <1>3, <1>4 DEF InStep, AtOp

\* What a step that is not at the script keeps of it.
LEMMA SameCalls ==
  ASSUME SpiInv, sscript' = sscript, dev'.kind = dev.kind
  PROVE  IsSeq(sscript') /\ \A c \in 1..Len(sscript') : UsesSpiLib(dev'.kind, sscript'[c].ops)
BY DEF SpiInv

LEMMA CsKeeps == SpiInv /\ SpiCs => SpiInv'
<1> SUFFICES ASSUME SpiInv, SpiCs PROVE SpiInv'
  OBVIOUS
<1>1. Device' /\ dev'.kind = dev.kind
  BY DeviceStep DEF SpiInv, SpiNext, SpiCpu
<1>2. scode # <<>> /\ scode[1].k = "cs"
  BY Held DEF SpiCs, SpiAt, SpiReady
<1>3. sst = "idle" /\ stx = <<>> /\ (~Bench => srx = <<>>)
  BY <1>2, Held DEF SpiInv, InStep, AtOp
<1>4. WordsLeft' /\ InStep'
  BY <1>1, <1>2, <1>3, PlainAccess DEF SpiCs, SpiInv
<1> QED BY <1>1, <1>4, SameCalls DEF SpiCs, SpiInv, Bench

LEMMA OvrKeeps == SpiInv /\ (SpiOvr \/ SpiClearOvr) => SpiInv'
<1> SUFFICES ASSUME SpiInv, SpiOvr \/ SpiClearOvr PROVE SpiInv'
  OBVIOUS
<1>1. Device' /\ dev'.kind = dev.kind
  BY DeviceStep DEF SpiInv, SpiNext, SpiCpu
<1>2. scode # <<>> /\ scode[1].k \in {"ovr", "w1c"} /\ scode' = Tail(scode)
  BY Held DEF SpiOvr, SpiClearOvr, SpiAt, SpiReady
<1>3. sst = "idle" /\ stx = <<>> /\ (~Bench => srx = <<>>)
  BY <1>2, Held DEF SpiInv, InStep, AtOp
<1>4. UNCHANGED <<sst, stx, srx, sscript>> /\ (~Bench => ~sovr')
  BY DEF SpiOvr, SpiClearOvr, SpiInv
<1>5. WordsLeft' /\ InStep'
  BY <1>1, <1>2, <1>3, <1>4, PlainAccess DEF SpiInv
<1> QED BY <1>1, <1>4, <1>5, SameCalls DEF SpiInv, Bench

\* RXDATA takes the only byte there is.
LEMMA PoppedOne ==
  ASSUME SpiInv, SpiPopped
  PROVE  /\ IsSeq(srx') /\ Len(srx') = (IF srx = <<>> THEN 0 ELSE Len(srx) - 1)
         /\ (Len(srx) = 1 => srx' = <<>>)
<1>1. CASE srx = <<>>
  BY <1>1, NoElements DEF SpiPopped
<1>2. CASE srx # <<>>
  <2>1. IsSeq(srx) /\ srx' = Tail(srx)
    BY <1>2 DEF SpiPopped, SpiInv
  <2>2. IsSeq(srx') /\ Len(srx') = Len(srx) - 1
    BY <1>2, <2>1, Shorter
  <2> QED BY <1>2, <2>2, NoElements
<1> QED BY <1>1, <1>2

LEMMA PopKeeps == SpiInv /\ SpiPop => SpiInv'
<1> SUFFICES ASSUME SpiInv, SpiPop PROVE SpiInv'
  OBVIOUS
<1>1. Device' /\ dev'.kind = dev.kind
  BY DeviceStep DEF SpiInv, SpiNext, SpiCpu
<1>2. scode # <<>> /\ scode[1].k = "pop"
  BY Held DEF SpiPop, SpiAt, SpiReady
<1>3. sst = "idle" /\ stx = <<>> /\ (~Bench => Len(srx) = 1)
  BY <1>2, Held DEF SpiInv, InStep, AtOp
<1>4. IsSeq(srx') /\ (~Bench => srx' = <<>>)
  BY <1>3, PoppedOne DEF SpiPop
<1>5. WordsLeft' /\ InStep'
  BY <1>1, <1>2, <1>3, <1>4, PlainAccess DEF SpiPop, SpiInv
<1> QED BY <1>1, <1>4, <1>5, SameCalls DEF SpiPop, SpiInv, Bench

LEMMA PushKeeps == SpiInv /\ SpiPush => SpiInv'
<1> SUFFICES ASSUME SpiInv, SpiPush PROVE SpiInv'
  OBVIOUS
<1>1. Device' /\ dev'.kind = dev.kind /\ (Bench' <=> Bench)
  BY DeviceStep DEF SpiInv, SpiNext, SpiCpu, Bench
<1>2. scode # <<>> /\ scode[1].k = "push" /\ scode' = Tail(scode)
  BY Held DEF SpiPush, SpiAt, SpiReady
<1>3. sst = "idle" /\ stx = <<>> /\ (~Bench => srx = <<>>)
  BY <1>2, Held DEF SpiInv, InStep, AtOp
<1>4. IsSeq(stx') /\ Len(stx') = 1
  <2>1. stx' = Append(stx, Head(scode).b) /\ IsSeq(stx) /\ Len(stx) = 0
    BY <1>3, NoElements DEF SpiPush, SpiInv
  <2>2. IsSeq(stx') /\ Len(stx') = Len(stx) + 1
    BY <2>1, Longer
  <2> QED BY <2>1, <2>2
<1>5. WordsLeft' /\ AtOp({"busy"})'
  BY <1>1, <1>2, Onward DEF SpiInv
<1>6. spushed' /\ (~Bench' => Level' = 1)
  BY <1>1, <1>3, <1>4, NoElements DEF SpiPush, Level, InFlight
<1>7. InStep'
  BY <1>5, <1>6 DEF InStep, AtOp
<1> QED BY <1>1, <1>4, <1>5, <1>7, SameCalls DEF SpiPush, SpiInv

LEMMA BusyKeeps == SpiInv /\ SpiBusyWait => SpiInv'
<1> SUFFICES ASSUME SpiInv, SpiBusyWait PROVE SpiInv'
  OBVIOUS
<1>1. Device' /\ dev'.kind = dev.kind /\ (Bench' <=> Bench)
  BY DeviceStep DEF SpiInv, SpiNext, SpiCpu, Bench
<1>2. scode # <<>> /\ scode[1].k = "busy" /\ scode' = Tail(scode) /\ sst = "idle" /\ ~(spushed /\ stx # <<>>)
  BY Held DEF SpiBusyWait, SpiAt, SpiReady
<1>3. stx = <<>> /\ (~Bench => Len(srx) = 1)
  BY <1>2, Held, NoElements DEF SpiInv, InStep, AtOp, Level, InFlight
<1>4. /\ WordsLeft' /\ ~AtOp({"busy"})' /\ (~Bench => AtOp({"pop", "status"})') /\ (AtOp({"buf"})' => ~Bench)
  BY <1>1, <1>2, Onward DEF SpiInv
<1>5. InFlight' = 0 /\ (~Bench' => Len(srx') = 1)
  BY <1>1, <1>2, <1>3, NoElements DEF SpiBusyWait, InFlight
<1>6. InStep'
  BY <1>1, <1>4, <1>5 DEF InStep, AtOp
<1> QED BY <1>1, <1>4, <1>6, SameCalls DEF SpiBusyWait, SpiInv

\* The engine moves a byte on.
LEMMA EngineKeeps == SpiInv /\ SpiEngine => SpiInv'
<1> SUFFICES ASSUME SpiInv, SpiEngine PROVE SpiInv'
  OBVIOUS
<1>1. Device' /\ dev'.kind = dev.kind /\ (Bench' <=> Bench)
  BY DeviceStep DEF SpiInv, SpiNext, Bench
<1>2. scode' = scode /\ sscript' = sscript /\ spushed' = spushed
  BY DEF SpiEngine, SpiLaunch, SpiByte
<1>3. WordsLeft'
  BY <1>1, <1>2 DEF SpiInv, WordsLeft, Bench, Buf
<1>4. InFlight > 0 /\ AtOp({"busy", "buf"}) /\ (AtOp({"buf"}) => ~Bench)
  <2>1. InFlight > 0
    BY Held DEF SpiEngine, SpiLaunch, SpiByte
  <2>2. AtOp({"busy", "buf"})
    BY <2>1 DEF SpiInv, InStep
  <2>3. scode # <<>> => 1 \in 1..Len(scode)
    BY NoElements DEF SpiInv, WordsLeft
  <2> QED BY <2>1, <2>2, <2>3 DEF SpiInv, WordsLeft, AtOp
<1>5. /\ sst' \in {"idle", "shift"} /\ IsSeq(stx') /\ IsSeq(srx')
      /\ ~Bench => Level' = Level /\ ~sovr'
  <2>1. CASE SpiLaunch
    <3>1. IsSeq(Tail(stx)) /\ Len(Tail(stx)) = Len(stx) - 1
      BY <2>1, Shorter DEF SpiLaunch, SpiInv
    <3> QED BY <2>1, <3>1, Held DEF SpiLaunch, SpiInv, Level, InFlight
  <2>2. CASE SpiByte
    <3> DEFINE b == IF cs THEN Reply ELSE FILL
    <3>1. ~Bench => Len(srx) < SPI_DEPTH
      <4>1. SPI_DEPTH \in Nat \ {0}
        BY SpiAssumption
      <4>2. ~Bench => Level <= SPI_DEPTH
        <5>1. CASE AtOp({"busy"})
          BY <4>1, <5>1 DEF SpiInv, InStep
        <5>2. CASE AtOp({"buf"})
          BY <4>1, <5>2 DEF SpiInv, InStep, BufInv
        <5> QED BY <1>4, <5>1, <5>2 DEF AtOp
      <4> QED BY <1>4, <4>1, <4>2, Held DEF Level
    <3>2. /\ IsSeq(Append(srx, b)) /\ Len(Append(srx, b)) = Len(srx) + 1
      BY Longer DEF SpiInv
    <3>3. sst = "shift" /\ sst' = "idle" /\ stx' = stx
      BY <2>2 DEF SpiByte
    <3>4. (srx' = Append(srx, b) /\ sovr' = sovr) \/ (Bench /\ srx' = srx)
      BY <2>2, <3>1 DEF SpiByte
    <3> HIDE DEF b
    <3>5. IsSeq(stx) /\ IsSeq(srx) /\ (~Bench => ~sovr)
      BY DEF SpiInv
    <3>6. ~Bench => Level' = Level
      BY <3>2, <3>3, <3>4, Held DEF Level, InFlight
    <3>7. ~Bench => ~sovr'
      BY <3>4, <3>5, Zenon
    <3> QED BY <3>2, <3>3, <3>4, <3>5, <3>6, <3>7
  <2> QED BY <2>1, <2>2 DEF SpiEngine
<1>6. InStep'
  <2>1. CASE AtOp({"busy"})
    BY <1>1, <1>2, <1>5, <2>1 DEF SpiInv, InStep, AtOp
  <2>2. CASE AtOp({"buf"})
    <3>1. BufInv(scode[1])'
      BY <1>2, <1>4, <1>5, <2>2 DEF SpiInv, InStep, BufInv, Buf
    <3> QED BY <1>1, <1>2, <2>2, <3>1 DEF AtOp, InStep
  <2> QED BY <1>4, <2>1, <2>2 DEF AtOp
<1> QED BY <1>1, <1>3, <1>5, <1>6, <1>2, SameCalls DEF SpiInv

\* spi_transfer_buf: the window fills, and empties again.
LEMMA WindowKeeps ==
  ASSUME SpiInv, AtOp({"buf"}), NEW e, e.k = "buf", Buf(e), scode' = [scode EXCEPT ![1] = e], dev'.kind = dev.kind,
         BufInv(e)'
  PROVE  WordsLeft' /\ InStep'
<1>1. /\ IsSeq(scode') /\ Len(scode') = Len(scode) /\ scode' # <<>> /\ scode'[1] = e
      /\ \A i \in 2..Len(scode) : scode'[i] = scode[i]
  <2> DEFINE t == [scode EXCEPT ![1] = e]
  <2>1. IsSeq(scode) /\ scode # <<>>
    BY DEF SpiInv, WordsLeft, AtOp
  <2>2. IsSeq(t) /\ Len(t) = Len(scode) /\ t # <<>> /\ t[1] = e /\ \A i \in 2..Len(scode) : t[i] = scode[i]
    BY <2>1, FirstChanged
  <2>3. scode' = t
    OBVIOUS
  <2> HIDE DEF t
  <2> QED BY <2>2, <2>3
<1>2. /\ Len(scode) \in Nat \ {0} /\ scode[1].k = "buf" /\ ~Bench
  BY NoElements DEF SpiInv, WordsLeft, AtOp
<1>3. \A i \in 1..Len(scode) : scode'[i].k = scode[i].k
  BY <1>1, <1>2
<1>4. WordsLeft'
  <2>1. \A i \in 1..Len(scode') - 1 : Fits(dev'.kind, scode'[i], scode'[i + 1])
    BY <1>1, <1>2, <1>3 DEF SpiInv, WordsLeft, Fits
  <2>2. scode'[Len(scode')].k # "push" /\ (~Bench' => scode'[Len(scode')].k # "busy")
    BY <1>1, <1>2, <1>3 DEF SpiInv, WordsLeft, Bench, AtOp
  <2>3. \A i \in 1..Len(scode') : scode'[i].k = "buf" =>
          ~Bench' /\ Buf(scode'[i]) /\ (i > 1 => scode'[i].pushed = 0 /\ scode'[i].popped = 0)
    <3> SUFFICES ASSUME NEW i \in 1..Len(scode'), scode'[i].k = "buf"
                 PROVE  Buf(scode'[i]) /\ (i > 1 => scode'[i].pushed = 0 /\ scode'[i].popped = 0)
      BY <1>2 DEF Bench
    <3>1. CASE i = 1
      BY <1>1, <3>1
    <3>2. CASE i # 1
      BY <1>1, <1>2, <3>2 DEF SpiInv, WordsLeft
    <3> QED BY <3>1, <3>2
  <2> QED BY <1>1, <2>1, <2>2, <2>3 DEF WordsLeft, Buf
<1>5. InStep'
  <2>1. ~Bench'
    BY <1>2 DEF Bench
  <2>2. BufInv(scode[1])'
    BY <1>1 DEF BufInv, Buf
  <2> QED BY <1>1, <2>1, <2>2 DEF InStep, AtOp
<1> QED BY <1>4, <1>5

LEMMA BufPushKeeps == SpiInv /\ SpiBufPush => SpiInv'
<1> SUFFICES ASSUME SpiInv, SpiBufPush PROVE SpiInv'
  OBVIOUS
<1>0. PICK o, e : o = scode[1] /\ e = [o EXCEPT !.pushed = @ + 1]
  OBVIOUS
<1>1. Device' /\ dev'.kind = dev.kind /\ (Bench' <=> Bench)
  BY DeviceStep DEF SpiInv, SpiNext, SpiCpu, Bench
<1>2. AtOp({"buf"}) /\ o.k = "buf" /\ scode # <<>> /\ CanPush(o)
  BY <1>0, Held DEF SpiBufPush, SpiAt, SpiReady, AtOp
<1>3. scode' = [scode EXCEPT ![1] = e] /\ UNCHANGED <<sst, srx, sovr, dev, sscript>>
  BY <1>0 DEF SpiBufPush
<1>4. IsSeq(stx') /\ Len(stx') = Len(stx) + 1
  BY Longer DEF SpiBufPush, SpiInv
<1>5. BufInv(o) /\ Level' = Level + 1
  BY <1>0, <1>2, <1>3, <1>4, Held DEF SpiInv, InStep, Level, InFlight
<1>6. Buf(e) /\ e.k = "buf" /\ e.b = o.b /\ e.pushed = o.pushed + 1 /\ e.popped = o.popped
  BY <1>0, <1>5 DEF BufInv, Buf
<1>7. /\ e.pushed \in 0..Len(e.b) /\ e.popped \in 0..e.pushed /\ e.pushed - e.popped <= SPI_DEPTH
      /\ Level' = e.pushed - e.popped /\ (e.popped < Len(e.b) \/ Len(e.b) = 0)
  <2>1. Len(o.b) \in Nat /\ SPI_DEPTH \in Nat
    BY <1>5, SpiAssumption DEF BufInv, Buf
  <2> QED BY <1>2, <1>5, <1>6, <2>1 DEF BufInv, CanPush
<1>8. BufInv(e)'
  BY <1>6, <1>7 DEF BufInv, Buf
<1>9. WordsLeft' /\ InStep'
  BY <1>1, <1>2, <1>3, <1>6, <1>8, WindowKeeps
<1> QED BY <1>1, <1>3, <1>4, <1>9, SameCalls DEF SpiInv

LEMMA BufPopKeeps == SpiInv /\ SpiBufPop => SpiInv'
<1> SUFFICES ASSUME SpiInv, SpiBufPop PROVE SpiInv'
  OBVIOUS
<1>0. PICK o, e : o = scode[1] /\ e = [o EXCEPT !.popped = @ + 1]
  OBVIOUS
<1>1. Device' /\ dev'.kind = dev.kind /\ (Bench' <=> Bench)
  BY DeviceStep DEF SpiInv, SpiNext, SpiCpu, Bench
<1>2. AtOp({"buf"}) /\ o.k = "buf" /\ scode # <<>> /\ srx # <<>> /\ o.popped < Len(o.b)
  BY <1>0, Held DEF SpiBufPop, SpiAt, SpiReady, AtOp
<1>3. UNCHANGED <<sst, stx, sovr, dev, sscript>>
  BY DEF SpiBufPop
<1>4. /\ IsSeq(srx') /\ Len(srx') = Len(srx) - 1
  BY <1>2, PoppedOne DEF SpiBufPop
<1>5. BufInv(o) /\ Level' = Level - 1 /\ Level = InFlight + Len(srx)
  <2>1. InFlight' = InFlight
    BY <1>3 DEF InFlight
  <2>2. BufInv(o)
    BY <1>0, <1>2 DEF SpiInv, InStep
  <2> QED BY <1>4, <2>1, <2>2, Held DEF Level
<1>6. Len(o.b) \in Nat /\ SPI_DEPTH \in Nat
  BY <1>5, SpiAssumption DEF BufInv, Buf
<1>7. CASE o.popped + 1 = Len(o.b)
  <2>1. scode' = Tail(scode)
    BY <1>0, <1>2, <1>7, Held DEF SpiBufPop
  <2>2. Len(srx') = 0 /\ InFlight = 0
    <3>1. Len(srx) \in Nat \ {0} /\ InFlight \in Nat
      BY <1>2, Held
    <3>2. o.popped \in Nat /\ o.pushed \in o.popped..Len(o.b) /\ InFlight + Len(srx) = o.pushed - o.popped
      BY <1>5, <1>6 DEF BufInv
    <3> QED BY <1>4, <1>6, <1>7, <3>1, <3>2
  <2>3. srx' = <<>> /\ sst' = "idle" /\ stx' = <<>>
    BY <1>3, <1>4, <2>2, Held, NoElements
  <2>4. WordsLeft' /\ InStep'
    BY <1>0, <1>1, <1>2, <1>4, <2>1, <2>3, NoElements, PlainAccess
  <2> QED BY <1>1, <1>3, <1>4, <2>3, <2>4, NoElements, SameCalls DEF SpiInv
<1>8. CASE o.popped + 1 # Len(o.b)
  <2>1. scode' = [scode EXCEPT ![1] = e]
    BY <1>0, <1>2, <1>8, Held DEF SpiBufPop
  <2>2. Buf(e) /\ e.k = "buf" /\ e.b = o.b /\ e.pushed = o.pushed /\ e.popped = o.popped + 1
    BY <1>0, <1>5 DEF BufInv, Buf
  <2>3. /\ e.pushed \in 0..Len(e.b) /\ e.popped \in 0..e.pushed /\ e.pushed - e.popped <= SPI_DEPTH
        /\ Level' = e.pushed - e.popped /\ (e.popped < Len(e.b) \/ Len(e.b) = 0)
    <3>1. Len(srx) > 0 /\ InFlight \in Nat
      BY <1>2, Held
    <3>2. /\ o.pushed \in 0..Len(o.b) /\ o.popped \in 0..o.pushed /\ o.pushed - o.popped <= SPI_DEPTH
          /\ Level = o.pushed - o.popped /\ Level >= 1
      BY <1>5, <3>1, Held DEF BufInv
    <3>3. e.popped < Len(e.b) /\ e.popped \in 0..e.pushed /\ e.pushed - e.popped <= SPI_DEPTH
      BY <1>2, <1>6, <1>8, <2>2, <3>2
    <3>4. Level' = e.pushed - e.popped
      BY <1>5, <1>6, <2>2, <3>2
    <3> QED BY <2>2, <3>2, <3>3, <3>4
  <2>4. BufInv(e)'
    BY <2>2, <2>3 DEF BufInv, Buf
  <2>5. WordsLeft' /\ InStep'
    BY <1>1, <1>2, <2>1, <2>2, <2>4, WindowKeeps
  <2> QED BY <1>1, <1>3, <1>4, <2>5, SameCalls DEF SpiInv
<1> QED BY <1>7, <1>8

\* The code after a status read that goes on, or is over.
LEMMA Resumed ==
  ASSUME NEW code, IsSeq(code), Len(code) >= 3
  PROVE  LET rest == Tail(code)
             more == SubSeq(rest, 3, Len(rest))
             t == <<rest[1]>> \o more
             u == <<rest[1]>> \o w25q_wait_ready \o more
         IN  /\ Len(code) \in Nat /\ Len(rest) = Len(code) - 1 /\ rest[2] = code[3]
             /\ IsSeq(t) /\ Len(t) = Len(code) - 2 /\ t[1] = code[2] /\ \A i \in 2..Len(code) - 2 : t[i] = code[i + 2]
             /\ IsSeq(u) /\ Len(u) = Len(code) + 7 /\ u[1] = code[2]
             /\ \A i \in 2..10 : u[i] = w25q_wait_ready[i - 1]
             /\ \A i \in 11..Len(code) + 7 : u[i] = code[i - 7]
<1> DEFINE rest == Tail(code)
           more == SubSeq(rest, 3, Len(rest))
           t == <<rest[1]>> \o more
           u == <<rest[1]>> \o w25q_wait_ready \o more
<1>1. /\ IsSeq(rest) /\ Len(code) \in Nat \ {0} /\ Len(rest) = Len(code) - 1
      /\ \A i \in 1..Len(code) - 1 : rest[i] = code[i + 1]
  <2>1. code # <<>>
    BY NoElements
  <2> QED BY <2>1, Shorter
<1>2. rest[1] = code[2] /\ rest[2] = code[3] /\ Len(rest) >= 2
  BY <1>1
<1>3. IsSeq(more) /\ Len(more) = Len(code) - 3 /\ \A i \in 1..Len(code) - 3 : more[i] = code[i + 3]
  <2> HIDE DEF rest
  <2>1. IsSeq(more) /\ Len(more) = Len(rest) - 2 /\ \A i \in 1..Len(rest) - 2 : more[i] = rest[i + 2]
    BY <1>1, <1>2, Rest
  <2> HIDE DEF more
  <2> QED BY <1>1, <1>2, <2>1
<1>4. IsSeq(<<rest[1]>>) /\ Len(<<rest[1]>>) = 1 /\ <<rest[1]>>[1] = rest[1]
  BY Few
<1> HIDE DEF rest, more
<1>5. PICK n \in Nat : Len(code) = n + 3 /\ Len(more) = n
  BY <1>1, <1>3
<1>6. PICK one : one = <<rest[1]>> /\ IsSeq(one) /\ Len(one) = 1 /\ one[1] = rest[1]
  BY <1>4
<1>7. /\ IsSeq(t) /\ Len(t) = n + 1 /\ t[1] = code[2] /\ \A i \in 2..n + 1 : t[i] = code[i + 2]
  <2>1. t = one \o more
    BY <1>6
  <2>2. IsSeq(one) /\ IsSeq(more)
    BY <1>3, <1>6
  <2> HIDE DEF t
  <2>3. /\ IsSeq(t) /\ Len(t) = Len(one) + Len(more) /\ (\A i \in 1..Len(one) : t[i] = one[i])
        /\ (\A i \in 1..Len(more) : t[Len(one) + i] = more[i])
    BY <2>1, <2>2, Joined
  <2>4. Len(t) = n + 1 /\ t[1] = code[2] /\ \A i \in 1..n : t[1 + i] = code[i + 3]
    <3>1. Len(t) = n + 1
      BY <1>5, <1>6, <2>3
    <3>2. t[1] = code[2]
      BY <1>2, <1>6, <2>3
    <3>3. \A i \in 1..n : t[1 + i] = more[i]
      BY <1>5, <1>6, <2>3
    <3>4. \A i \in 1..n : more[i] = code[i + 3]
      BY <1>3, <1>5
    <3> QED BY <3>1, <3>2, <3>3, <3>4
  <2>5. \A i \in 2..n + 1 : i - 1 \in 1..n /\ 1 + (i - 1) = i /\ i - 1 + 3 = i + 2
    OBVIOUS
  <2>6. \A i \in 2..n + 1 : t[i] = code[i + 2]
    BY <2>4, <2>5
  <2> QED BY <2>3, <2>4, <2>6
<1> DEFINE two == one \o w25q_wait_ready
<1>8. IsSeq(two) /\ Len(two) = 10 /\ two[1] = code[2] /\ \A i \in 2..10 : two[i] = w25q_wait_ready[i - 1]
  <2>1. IsSeq(one) /\ IsSeq(w25q_wait_ready)
    BY <1>6, ThePoll
  <2>2. Len(w25q_wait_ready) = 9
    BY ThePoll
  <2>3. /\ IsSeq(two) /\ Len(two) = Len(one) + Len(w25q_wait_ready) /\ (\A i \in 1..Len(one) : two[i] = one[i])
        /\ (\A i \in 1..Len(w25q_wait_ready) : two[Len(one) + i] = w25q_wait_ready[i])
    BY <2>1, Joined
  <2> HIDE DEF two
  <2>4. Len(two) = 10 /\ two[1] = code[2] /\ \A i \in 1..9 : two[1 + i] = w25q_wait_ready[i]
    BY <1>2, <1>6, <2>2, <2>3
  <2>5. \A i \in 2..10 : i - 1 \in 1..9 /\ 1 + (i - 1) = i
    OBVIOUS
  <2>6. \A i \in 2..10 : two[i] = w25q_wait_ready[i - 1]
    BY <2>4, <2>5
  <2> QED BY <2>3, <2>4, <2>6
<1>9. u = two \o more
  BY <1>6
<1> HIDE DEF two, t, u
<1>10. /\ IsSeq(u) /\ Len(u) = n + 10 /\ u[1] = code[2] /\ (\A i \in 2..10 : u[i] = w25q_wait_ready[i - 1])
       /\ \A i \in 11..n + 10 : u[i] = code[i - 7]
  <2>1. IsSeq(two) /\ IsSeq(more)
    BY <1>3, <1>8
  <2>2. /\ IsSeq(u) /\ Len(u) = Len(two) + Len(more) /\ (\A i \in 1..Len(two) : u[i] = two[i])
        /\ (\A i \in 1..Len(more) : u[Len(two) + i] = more[i])
    BY <1>9, <2>1, Joined
  <2>3. Len(u) = n + 10 /\ (\A i \in 1..10 : u[i] = two[i]) /\ \A i \in 1..n : u[10 + i] = code[i + 3]
    <3>1. Len(u) = n + 10 /\ (\A i \in 1..10 : u[i] = two[i])
      BY <1>5, <1>8, <2>2
    <3>2. \A i \in 1..n : u[10 + i] = more[i]
      BY <1>5, <1>8, <2>2
    <3>3. \A i \in 1..n : more[i] = code[i + 3]
      BY <1>3, <1>5
    <3> QED BY <3>1, <3>2, <3>3
  <2>4. \A i \in 11..n + 10 : i - 10 \in 1..n /\ 10 + (i - 10) = i /\ i - 10 + 3 = i - 7
    OBVIOUS
  <2>5. \A i \in 11..n + 10 : u[i] = code[i - 7]
    BY <2>3, <2>4
  <2> QED BY <1>8, <2>2, <2>3, <2>5
<1>11. /\ IsSeq(t) /\ Len(t) = Len(code) - 2 /\ t[1] = code[2] /\ \A i \in 2..Len(code) - 2 : t[i] = code[i + 2]
  BY <1>5, <1>7
<1>12. /\ IsSeq(u) /\ Len(u) = Len(code) + 7 /\ u[1] = code[2] /\ (\A i \in 2..10 : u[i] = w25q_wait_ready[i - 1])
       /\ \A i \in 11..Len(code) + 7 : u[i] = code[i - 7]
  BY <1>5, <1>10
<1> QED BY <1>1, <1>2, <1>11, <1>12 DEF rest, more, t, u

\* The poll of the flash goes on, or is over.
LEMMA PollSplice ==
  ASSUME WordsLeft, scode # <<>>, scode[1].k = "status", SpiStatus, dev'.kind = dev.kind
  PROVE  /\ WordsLeft' /\ ~AtOp({"busy"})' /\ (~Bench => ~AtOp({"pop", "status"})')
         /\ AtOp({"buf"})' => ~Bench /\ Buf(scode'[1]) /\ scode'[1].pushed = 0 /\ scode'[1].popped = 0
<1> DEFINE rest == Tail(scode)
           more == SubSeq(rest, 3, Len(rest))
<1>1. /\ IsSeq(rest) /\ Len(scode) \in Nat \ {0} /\ Len(rest) = Len(scode) - 1
      /\ \A i \in 1..Len(scode) - 1 : rest[i] = scode[i + 1]
  BY Shorter DEF WordsLeft
<1>2. CASE ~(Len(rest) >= 2 /\ rest[2].k = "again")
  <2>1. scode' = Tail(scode)
    BY <1>2 DEF SpiStatus
  <2> QED BY <2>1, Onward
<1>3. CASE Len(rest) >= 2 /\ rest[2].k = "again"
  <2>1. scode' = <<rest[1]>> \o w25q_wait_ready \o more \/ scode' = <<rest[1]>> \o more
    BY <1>3 DEF SpiStatus
  <2>2. Len(scode) >= 3 /\ IsSeq(scode)
    BY <1>1, <1>3 DEF WordsLeft
  <2>3. /\ rest[1] = scode[2] /\ rest[2] = scode[3] /\ 1 \in 1..Len(scode) - 1 /\ 2 \in 1..Len(scode) - 1
        /\ Len(scode) > 3 => 3 \in 1..Len(scode) - 1
    BY <1>1, <1>3
  <2>4. Fits(dev.kind, scode[1], scode[2]) /\ Fits(dev.kind, scode[2], scode[3])
        /\ (Len(scode) > 3 => Fits(dev.kind, scode[3], scode[4]))
    BY <2>3 DEF WordsLeft
  <2>5. /\ scode[2].k \notin {"busy", "push"} /\ (~Bench => scode[2].k \notin {"pop", "status"})
        /\ scode[3].k = "again"
        /\ Len(scode) > 3 => scode[4].k # "busy" /\ (~Bench => scode[4].k \notin {"pop", "status"})
    BY <1>3, <2>3, <2>4 DEF Fits, Bench
  <2>6. \A i \in {2} \cup 4..Len(scode) : scode[i].k = "buf" =>
          ~Bench /\ Buf(scode[i]) /\ scode[i].pushed = 0 /\ scode[i].popped = 0
    <3>1. \A i \in {2} \cup 4..Len(scode) : i \in 1..Len(scode) /\ i > 1
      BY <1>1, <2>2
    <3>2. \A i \in 1..Len(scode) : scode[i].k = "buf" =>
            ~Bench /\ Buf(scode[i]) /\ (i > 1 => scode[i].pushed = 0 /\ scode[i].popped = 0)
      BY DEF WordsLeft
    <3> QED BY <3>1, <3>2
  <2>7. CASE scode' = <<rest[1]>> \o more
    <3>1. /\ IsSeq(scode') /\ Len(scode') = Len(scode) - 2 /\ scode'[1] = scode[2]
          /\ \A i \in 2..Len(scode) - 2 : scode'[i] = scode[i + 2]
      BY <2>2, <2>7, Resumed
    <3>2. \A i \in 1..Len(scode') - 1 : Fits(dev'.kind, scode'[i], scode'[i + 1])
      <4> SUFFICES ASSUME NEW i \in 1..Len(scode') - 1 PROVE Fits(dev'.kind, scode'[i], scode'[i + 1])
        OBVIOUS
      <4>1. CASE i = 1
        <5>1. scode'[2] = scode[4] /\ Len(scode) > 3
          BY <1>1, <3>1, <4>1
        <5> QED BY <2>5, <3>1, <4>1, <5>1 DEF Fits, Bench
      <4>2. CASE i > 1
        <5>1. scode'[i] = scode[i + 2] /\ scode'[i + 1] = scode[i + 3] /\ i + 2 \in 1..Len(scode) - 1
          BY <1>1, <3>1, <4>2
        <5>2. Fits(dev.kind, scode[i + 2], scode[i + 2 + 1])
          BY <5>1 DEF WordsLeft
        <5> QED BY <1>1, <5>1, <5>2
      <4> QED BY <4>1, <4>2
    <3>3. scode' # <<>> /\ scode'[Len(scode')].k # "push" /\ (~Bench' => scode'[Len(scode')].k # "busy")
      <4>1. scode' # <<>>
        BY <1>1, <1>3, <3>1, NoElements
      <4>2. Len(scode) = 3 => scode'[Len(scode')] = scode[2]
        BY <3>1
      <4>3. Len(scode) > 3 => scode'[Len(scode')] = scode[Len(scode)]
        BY <1>1, <3>1
      <4>4. Len(scode) >= 3
        BY <1>1, <1>3
      <4> QED BY <1>1, <2>5, <4>1, <4>2, <4>3, <4>4 DEF WordsLeft, Bench
    <3>4. \A i \in 1..Len(scode') : scode'[i].k = "buf" =>
            ~Bench /\ Buf(scode'[i]) /\ scode'[i].pushed = 0 /\ scode'[i].popped = 0
      <4> SUFFICES ASSUME NEW i \in 1..Len(scode')
                   PROVE  \E j \in {2} \cup 4..Len(scode) : scode'[i] = scode[j]
        BY <2>6
      <4>1. CASE i = 1
        BY <3>1, <4>1
      <4>2. CASE i > 1
        BY <1>1, <3>1, <4>2
      <4> QED BY <4>1, <4>2
    <3> QED BY <1>1, <2>5, <3>1, <3>2, <3>3, <3>4 DEF WordsLeft, Bench, AtOp, Buf
  <2>8. CASE scode' = <<rest[1]>> \o w25q_wait_ready \o more
    <3>1. /\ IsSeq(scode') /\ Len(scode') = Len(scode) + 7 /\ scode'[1] = scode[2]
          /\ \A i \in 2..10 : scode'[i] = w25q_wait_ready[i - 1]
          /\ \A i \in 11..Len(scode) + 7 : scode'[i] = scode[i - 7]
      BY <2>2, <2>8, Resumed
    <3>2. \A i \in 1..Len(scode') - 1 : Fits(dev'.kind, scode'[i], scode'[i + 1])
      <4> SUFFICES ASSUME NEW i \in 1..Len(scode') - 1 PROVE Fits(dev'.kind, scode'[i], scode'[i + 1])
        OBVIOUS
      <4>1. CASE i = 1
        <5>1. scode'[2] = w25q_wait_ready[1]
          BY <3>1
        <5>2. w25q_wait_ready[1] = Cs(TRUE)
          BY ThePoll
        <5> QED BY <2>5, <3>1, <4>1, <5>1, <5>2 DEF Fits, Bench, Cs
      <4>2. CASE i \in 2..9
        <5>1. scode'[i] = w25q_wait_ready[i - 1] /\ scode'[i + 1] = w25q_wait_ready[i - 1 + 1] /\ i - 1 \in 1..8
          BY <3>1, <4>2
        <5> QED BY <5>1, ThePoll
      <4>3. CASE i = 10
        <5>1. scode'[10] = w25q_wait_ready[9] /\ scode'[11] = scode[4] /\ Len(scode) > 3
          BY <1>1, <3>1, <4>3
        <5> QED BY <2>5, <4>3, <5>1, ThePoll DEF Fits, Bench
      <4>4. CASE i > 10
        <5>1. scode'[i] = scode[i - 7] /\ scode'[i + 1] = scode[i - 6] /\ i - 7 \in 1..Len(scode) - 1
          BY <1>1, <3>1, <4>4
        <5>2. Fits(dev.kind, scode[i - 7], scode[i - 7 + 1])
          BY <5>1 DEF WordsLeft
        <5> QED BY <1>1, <5>1, <5>2
      <4> QED BY <4>1, <4>2, <4>3, <4>4
    <3>3. scode' # <<>> /\ scode'[Len(scode')].k # "push" /\ (~Bench' => scode'[Len(scode')].k # "busy")
      <4>1. scode' # <<>>
        BY <1>1, <1>3, <3>1, NoElements
      <4>2. Len(scode) = 3 => scode'[Len(scode')] = w25q_wait_ready[9]
        BY <3>1
      <4>3. Len(scode) > 3 => scode'[Len(scode')] = scode[Len(scode)]
        <5>1. PICK n \in Nat : n = Len(scode)
          BY <1>1
        <5>2. n > 3 => n + 7 \in 11..n + 7 /\ n + 7 - 7 = n
          OBVIOUS
        <5> QED BY <3>1, <5>1, <5>2
      <4>4. Len(scode) >= 3
        BY <1>1, <1>3
      <4> QED BY <1>1, <2>5, <4>1, <4>2, <4>3, <4>4, ThePoll DEF WordsLeft, Bench
    <3>4. \A i \in 1..Len(scode') : scode'[i].k = "buf" =>
            ~Bench /\ Buf(scode'[i]) /\ scode'[i].pushed = 0 /\ scode'[i].popped = 0
      <4> SUFFICES ASSUME NEW i \in 1..Len(scode'), scode'[i].k = "buf"
                   PROVE  \E j \in {2} \cup 4..Len(scode) : scode'[i] = scode[j]
        BY <2>6
      <4>1. CASE i = 1
        BY <3>1, <4>1
      <4>2. CASE i \in 2..10
        BY <3>1, <4>2, ThePoll
      <4>3. CASE i > 10
        BY <1>1, <3>1, <4>3
      <4> QED BY <4>1, <4>2, <4>3
    <3> QED BY <1>1, <2>5, <3>1, <3>2, <3>3, <3>4 DEF WordsLeft, Bench, AtOp, Buf
  <2> QED BY <2>1, <2>7, <2>8
<1> QED BY <1>2, <1>3

LEMMA StatusKeeps == SpiInv /\ SpiStatus => SpiInv'
<1> SUFFICES ASSUME SpiInv, SpiStatus PROVE SpiInv'
  OBVIOUS
<1>1. Device' /\ dev'.kind = dev.kind /\ (Bench' <=> Bench)
  BY DeviceStep DEF SpiInv, SpiNext, SpiCpu, Bench
<1>2. scode # <<>> /\ scode[1].k = "status"
  BY Held DEF SpiStatus, SpiAt, SpiReady
<1>3. sst = "idle" /\ stx = <<>> /\ (~Bench => Len(srx) = 1)
  BY <1>2, Held DEF SpiInv, InStep, AtOp
<1>4. IsSeq(srx') /\ (~Bench => srx' = <<>>)
  BY <1>3, PoppedOne DEF SpiStatus
<1>5. UNCHANGED <<sst, stx, sovr, sscript>>
  BY DEF SpiStatus
<1>6. /\ WordsLeft' /\ ~AtOp({"busy"})' /\ (~Bench => ~AtOp({"pop", "status"})')
      /\ AtOp({"buf"})' => ~Bench /\ Buf(scode'[1]) /\ scode'[1].pushed = 0 /\ scode'[1].popped = 0
  BY <1>1, <1>2, PollSplice DEF SpiInv
<1>7. InFlight' = 0 /\ (~Bench => Level' = 0)
  BY <1>3, <1>4, <1>5, NoElements DEF InFlight, Level
<1>8. AtOp({"buf"})' => BufInv(scode[1])'
  BY <1>6, <1>7, BufStarts DEF BufInv, Buf
<1>9. InStep'
  BY <1>1, <1>4, <1>6, <1>7, <1>8 DEF InStep, AtOp
<1> QED BY <1>1, <1>3, <1>4, <1>5, <1>6, <1>9, SameCalls DEF SpiInv, Bench

\* A call is over, and the next begins where the first did.
LEMMA CallBegins ==
  ASSUME NEW ops, UsesSpiLib(dev.kind, ops), scode' = ops, dev'.kind = dev.kind,
         sst' = "idle", stx' = <<>>, IsSeq(srx'), ~Bench => srx' = <<>>
  PROVE  WordsLeft' /\ InStep'
<1>1. IsSeq(ops) /\ Len(ops) \in Nat /\ (ops = <<>> <=> Len(ops) = 0)
  <2>1. Len(ops) \in Nat /\ ops = [i \in 1..Len(ops) |-> ops[i]]
    BY DEF UsesSpiLib
  <2>2. IsSeq(ops)
    BY <2>1, Listed
  <2> QED BY <2>2, NoElements
<1>2. \A i \in 1..Len(ops) : ops[i].k = "buf" =>
        ~Bench /\ Buf(ops[i]) /\ ops[i].pushed = 0 /\ ops[i].popped = 0
  <2> SUFFICES ASSUME NEW i \in 1..Len(ops), ops[i].k = "buf"
               PROVE  ~Bench /\ Buf(ops[i]) /\ ops[i].pushed = 0 /\ ops[i].popped = 0
    OBVIOUS
  <2>1. PICK o : o = ops[i]
    OBVIOUS
  <2>2. /\ ~Bench /\ o.b \in Seq(0..255) /\ o = [k |-> "buf", b |-> o.b, pushed |-> 0, popped |-> 0, keep |-> o.keep]
    BY <2>1 DEF UsesSpiLib, Bench
  <2>3. o.pushed = 0 /\ o.popped = 0
    BY <2>2
  <2>4. Buf(o)
    BY <2>2, <2>3 DEF Buf
  <2> QED BY <2>1, <2>2, <2>3, <2>4
<1>3. /\ \A i \in 1..Len(ops) - 1 : Fits(dev.kind, ops[i], ops[i + 1])
      /\ ops # <<>> => /\ ops[1].k # "busy" /\ ops[Len(ops)].k # "push"
                       /\ ~Bench => ops[1].k \notin {"pop", "status"} /\ ops[Len(ops)].k # "busy"
  BY DEF UsesSpiLib, Bench
<1>4. Bench' <=> Bench
  BY DEF Bench
<1>5. WordsLeft'
  BY <1>1, <1>2, <1>3, <1>4 DEF WordsLeft, Buf
<1>6. InFlight' = 0 /\ (~Bench => Level' = 0)
  BY NoElements DEF InFlight, Level
<1>7. AtOp({"buf"})' => BufInv(scode[1])'
  <2> SUFFICES ASSUME AtOp({"buf"})' PROVE BufInv(scode[1])'
    OBVIOUS
  <2>1. 1 \in 1..Len(ops) /\ ops[1].k = "buf"
    BY <1>1 DEF AtOp
  <2>2. ~Bench /\ Buf(ops[1]) /\ ops[1].pushed = 0 /\ ops[1].popped = 0
    BY <1>2, <2>1
  <2> QED BY <1>6, <2>2, BufStarts DEF BufInv, Buf
<1>8. InStep'
  BY <1>3, <1>4, <1>6, <1>7 DEF InStep, AtOp
<1> QED BY <1>5, <1>8

LEMMA ReturnKeeps == SpiInv /\ SpiReturn => SpiInv'
<1> SUFFICES ASSUME SpiInv, SpiReturn PROVE SpiInv'
  OBVIOUS
<1>1. Device' /\ dev'.kind = dev.kind /\ (Bench' <=> Bench)
  BY DeviceStep DEF SpiInv, SpiNext, SpiCpu, Bench
<1>2. /\ scode = <<>> /\ sscript # <<>> /\ sscript' = Tail(sscript)
      /\ scode' = IF sscript' = <<>> THEN <<>> ELSE Head(sscript').ops
      /\ UNCHANGED <<sst, stx, srx, sovr>>
  BY DEF SpiReturn
<1>3. sst' = "idle" /\ stx' = <<>> /\ (~Bench => srx' = <<>>)
  BY <1>2, Held DEF SpiInv, InStep, AtOp
<1>4. IsSeq(sscript') /\ \A c \in 1..Len(sscript') : UsesSpiLib(dev'.kind, sscript'[c].ops)
  BY <1>1, <1>2, Shorter DEF SpiInv
<1>5. UsesSpiLib(dev.kind, <<>>)
  BY DEF UsesSpiLib
<1>6. UsesSpiLib(dev.kind, scode')
  <2>1. CASE sscript' = <<>>
    BY <1>2, <1>5, <2>1
  <2>2. CASE sscript' # <<>>
    <3>1. scode' = sscript'[1].ops /\ 1 \in 1..Len(sscript')
      BY <1>2, <1>4, <2>2, Shorter
    <3> QED BY <1>1, <1>4, <3>1
  <2> QED BY <2>1, <2>2
<1>7. WordsLeft' /\ InStep'
  BY <1>1, <1>2, <1>3, <1>6, CallBegins DEF SpiInv
<1> QED BY <1>1, <1>2, <1>3, <1>4, <1>7 DEF SpiInv, Bench

LEMMA DoneKeeps == SpiInv /\ (FlashDone \/ UNCHANGED spiVars) => SpiInv'
<1> SUFFICES ASSUME SpiInv, FlashDone \/ UNCHANGED spiVars PROVE SpiInv'
  OBVIOUS
<1>1. UNCHANGED <<sst, stx, srx, sovr, sscript, scode, spushed>>
  BY DEF FlashDone, spiVars
<1>2. Device' /\ dev'.kind = dev.kind /\ (Bench' <=> Bench)
  BY DeviceStep DEF SpiInv, SpiNext, Bench, Device, Flash, spiVars
<1>3. WordsLeft' /\ InStep'
  BY <1>1, <1>2 DEF SpiInv, WordsLeft, InStep, AtOp, Bench, Buf, BufInv, Level, InFlight
<1> QED BY <1>1, <1>2, <1>3, SameCalls DEF SpiInv

LEMMA InitBegins == SpiInit => SpiInv
<1> SUFFICES ASSUME SpiInit PROVE SpiInv
  OBVIOUS
<1>1. PICK p \in SpiScripts : dev = DevInit(p.dev) /\ sscript = p.calls /\ scode = Head(p.calls).ops
  BY DEF SpiInit
<1>2. /\ sst = "idle" /\ stx = <<>> /\ srx = <<>> /\ ~sovr
  BY DEF SpiInit, SpiReset
<1>3. /\ dev.kind = p.dev /\ Device
  BY <1>1 DEF DevInit, FlashInit, Device, Flash
<1>4. /\ Len(p.calls) \in Nat \ {0} /\ p.calls = [c \in 1..Len(p.calls) |-> p.calls[c]]
      /\ \A c \in 1..Len(p.calls) : UsesSpiLib(p.dev, p.calls[c].ops)
  BY SpiAssumption
<1>5. IsSeq(p.calls) /\ p.calls # <<>> /\ Head(p.calls) = p.calls[1]
  BY <1>4, Listed, NoElements, Shorter
<1>6. UsesSpiLib(dev.kind, scode) /\ IsSeq(srx) /\ IsSeq(stx)
  BY <1>1, <1>2, <1>3, <1>4, <1>5, NoElements
<1>7. WordsLeft /\ InStep
  <2>1. IsSeq(scode) /\ Len(scode) \in Nat /\ (scode = <<>> <=> Len(scode) = 0)
    <3>1. Len(scode) \in Nat /\ scode = [i \in 1..Len(scode) |-> scode[i]]
      BY <1>6 DEF UsesSpiLib
    <3>2. IsSeq(scode)
      BY <3>1, Listed
    <3> QED BY <3>2, NoElements
  <2>2. \A i \in 1..Len(scode) : scode[i].k = "buf" =>
          ~Bench /\ Buf(scode[i]) /\ scode[i].pushed = 0 /\ scode[i].popped = 0
    <3> SUFFICES ASSUME NEW i \in 1..Len(scode), scode[i].k = "buf"
                 PROVE  ~Bench /\ Buf(scode[i]) /\ scode[i].pushed = 0 /\ scode[i].popped = 0
      OBVIOUS
    <3>1. PICK o : o = scode[i]
      OBVIOUS
    <3>2. /\ ~Bench /\ o.b \in Seq(0..255)
          /\ o = [k |-> "buf", b |-> o.b, pushed |-> 0, popped |-> 0, keep |-> o.keep]
      BY <1>6, <3>1 DEF UsesSpiLib, Bench
    <3>3. o.pushed = 0 /\ o.popped = 0
      BY <3>2
    <3>4. Buf(o)
      BY <3>2, <3>3 DEF Buf
    <3> QED BY <3>1, <3>2, <3>3, <3>4
  <2>3. WordsLeft
    BY <1>6, <2>1, <2>2 DEF WordsLeft, UsesSpiLib, Bench
  <2>4. InFlight = 0 /\ Level = 0
    BY <1>2, NoElements DEF InFlight, Level
  <2>5. AtOp({"buf"}) => BufInv(scode[1])
    BY <2>1, <2>2, <2>4, BufStarts DEF AtOp, BufInv, Buf
  <2> QED BY <1>2, <1>6, <2>3, <2>4, <2>5 DEF InStep, AtOp, UsesSpiLib, Bench
<1> QED BY <1>1, <1>2, <1>3, <1>4, <1>5, <1>6, <1>7, NoElements DEF SpiInv

\* The bytes of every transfer are where the next access expects them, at every depth of the FIFOs and in
\* every program that pushes, waits and takes: no byte is ever dropped, and none is left behind.
THEOREM SpiInvariant == SpiSpec => []SpiInv
<1>1. SpiInv /\ [SpiNext]_spiVars => SpiInv'
  BY CsKeeps, OvrKeeps, PopKeeps, PushKeeps, BusyKeeps, EngineKeeps, BufPushKeeps, BufPopKeeps, StatusKeeps, ReturnKeeps,
     DoneKeeps DEF SpiNext, SpiCpu
<1> QED BY InitBegins, <1>1, PTL DEF SpiSpec

\* The chip select of the SPI drivers (spi_select and spi_deselect of spi.h) changes only between two bytes:
\* the engine is idle and both FIFOs are empty, whatever was sent, read or left by the calls before.
THEOREM SelectsBetweenBytes == SpiSpec => []CsAtByteBoundary
<1>1. SpiInv => CsAtByteBoundary
  <2> SUFFICES ASSUME SpiInv, SpiAt("cs") PROVE sst = "idle" /\ stx = <<>> /\ (srx = <<>> \/ Bench)
    BY DEF CsAtByteBoundary, Bench
  <2>1. scode # <<>> /\ scode[1].k = "cs"
    BY Held DEF SpiAt, SpiReady
  <2> QED BY <2>1, Held DEF SpiInv, InStep, AtOp
<1> QED BY <1>1, SpiInvariant, PTL

-----------------------------------------------------------------------------
(***************************************************************************)
(* The frames of the flash.                                                *)
(***************************************************************************)
\* From lo on, t is what u is k places further.
Same(t, u, k, lo) ==
  /\ Len(t) \in Nat /\ Len(u) \in Nat /\ k \in Int /\ lo \in Nat \ {0} /\ lo + k >= 1
  /\ Len(t) = Len(u) - k
  /\ \A i \in lo..Len(t) : t[i] = u[i + k]

LEMMA ShiftPolls ==
  ASSUME NEW t, NEW u, NEW k, NEW lo, Same(t, u, k, lo), NEW s \in Nat, s >= lo, Polls(u, s + k)
  PROVE  Polls(t, s)
<1>1. PICK m, n : m = Len(t) /\ n = Len(u) /\ m \in Nat /\ n \in Nat /\ k \in Int /\ lo \in Nat \ {0} /\ m = n - k
  BY DEF Same
<1>2. m >= s + 8
  <2>1. n >= s + k + 8
    BY <1>1 DEF Polls
  <2> QED BY <1>1, <2>1
<1>3. ASSUME NEW q \in 1..9
      PROVE  t[s + q - 1] = w25q_wait_ready[q]
  <2>1. s + q - 1 \in lo..m /\ s + q - 1 + k = s + k + q - 1
    BY <1>1, <1>2
  <2>2. t[s + q - 1] = u[s + q - 1 + k]
    BY <1>1, <2>1 DEF Same
  <2>3. u[s + k + q - 1] = w25q_wait_ready[q]
    BY DEF Polls
  <2> QED BY <2>1, <2>2, <2>3
<1> QED BY <1>1, <1>2, <1>3 DEF Polls

LEMMA ShiftAfter ==
  ASSUME NEW t, NEW u, NEW k, NEW lo, Same(t, u, k, lo), NEW d \in Nat, d + 1 >= lo, NEW F, After(F, u, d + k)
  PROVE  After(F, t, d)
<1>1. PICK m, n : m = Len(t) /\ n = Len(u) /\ m \in Nat /\ n \in Nat /\ k \in Int /\ lo \in Nat \ {0} /\ m = n - k
  BY DEF Same
<1>2. \A i \in 1..3 : d + i <= m => t[d + i] = u[d + k + i]
  <2> SUFFICES ASSUME NEW i \in 1..3, d + i <= m PROVE t[d + i] = u[d + k + i]
    OBVIOUS
  <2>1. d + i \in lo..m /\ d + i + k = d + k + i
    BY <1>1
  <2>2. t[d + i] = u[d + i + k]
    BY <1>1, <2>1 DEF Same
  <2> QED BY <2>1, <2>2
<1>3. d < m /\ t[d + 1].k = "again" => F = RDSR
  <2> SUFFICES ASSUME d < m, t[d + 1].k = "again" PROVE F = RDSR
    OBVIOUS
  <2>1. d + 1 <= m /\ d + k < n /\ 1 \in 1..3
    BY <1>1
  <2>2. t[d + 1] = u[d + k + 1]
    BY <1>2, <2>1
  <2> QED BY <1>1, <2>1, <2>2 DEF After
<1>4. F \in Programs => Polls(t, d + 1)
  <2>1. F \in Programs => Polls(u, d + k + 1)
    BY DEF After
  <2>2. d + k + 1 = d + 1 + k /\ d + 1 \in Nat
    BY <1>1
  <2>3. F \in Programs => Polls(u, d + 1 + k)
    BY <2>1, <2>2
  <2> QED BY <2>2, <2>3, ShiftPolls
<1>5. F = PWRDN => d = m
  <2>1. F = PWRDN => d + k = n
    BY <1>1 DEF After
  <2> QED BY <1>1, <2>1
<1>6. ASSUME F # WREN, NEW j \in 1..2, d + j < m, Selects(t[d + j])
      PROVE  Command(t[d + j + 1]) \notin Programs
  <2>1. d + j <= m /\ d + (j + 1) <= m /\ j \in 1..3 /\ j + 1 \in 1..3 /\ d + k + j < n /\ d + k + j \in {d + k + 1, d + k + 2}
        /\ d + (j + 1) = d + j + 1 /\ d + k + (j + 1) = d + k + j + 1
    BY <1>1, <1>6
  <2>2. t[d + j] = u[d + k + j] /\ t[d + (j + 1)] = u[d + k + (j + 1)]
    BY <1>2, <2>1
  <2>3. Command(u[d + k + j + 1]) \notin Programs
    BY <1>1, <1>6, <2>1, <2>2 DEF After
  <2> QED BY <2>1, <2>2, <2>3
<1>7. F # WREN => \A i \in {d + 1, d + 2} : i < m /\ Selects(t[i]) => Command(t[i + 1]) \notin Programs
  BY <1>6
<1> QED BY <1>1, <1>3, <1>4, <1>5, <1>7 DEF After

LEMMA ShiftStatus ==
  ASSUME NEW t, NEW u, NEW k, NEW lo, Same(t, u, k, lo), NEW s \in Nat, s >= lo, NEW p \in 1..8, InStatus(u, s + k, p)
  PROVE  InStatus(t, s, p)
<1>1. PICK m, n : m = Len(t) /\ n = Len(u) /\ m \in Nat /\ n \in Nat /\ k \in Int /\ lo \in Nat \ {0} /\ m = n - k
  BY DEF Same
<1>2. s + 8 - p <= m
  <2>1. s + k + 8 - p <= n
    BY <1>1 DEF InStatus
  <2> QED BY <1>1, <2>1
<1>3. ASSUME NEW q \in p..8
      PROVE  t[s + q - p] = w25q_status[q]
  <2>1. s + q - p \in lo..m /\ s + q - p + k = s + k + q - p
    BY <1>1, <1>2
  <2>2. t[s + q - p] = u[s + q - p + k]
    BY <1>1, <2>1 DEF Same
  <2>3. u[s + k + q - p] = w25q_status[q]
    BY DEF InStatus
  <2> QED BY <2>1, <2>2, <2>3
<1> QED BY <1>1, <1>2, <1>3 DEF InStatus

LEMMA ShiftFrame ==
  ASSUME NEW t, NEW u, NEW k, NEW lo, Same(t, u, k, lo), NEW s \in Nat, s >= lo, NEW F, Frame(F, u, s + k)
  PROVE  Frame(F, t, s)
<1>1. PICK m, n : m = Len(t) /\ n = Len(u) /\ m \in Nat /\ n \in Nat /\ k \in Int /\ lo \in Nat \ {0} /\ m = n - k
  BY DEF Same
<1>2. CASE F = RDSR
  <2>1. InStatus(u, s + k, 2) /\ After(F, u, s + k + 6)
    BY <1>2 DEF Frame
  <2>2. s + k + 6 = s + 6 + k /\ s + 6 \in Nat /\ s + 6 + 1 >= lo /\ 2 \in 1..8
    BY <1>1
  <2>3. After(F, u, s + 6 + k)
    BY <2>1, <2>2
  <2>4. After(F, t, s + 6)
    BY <2>2, <2>3, ShiftAfter
  <2>5. InStatus(t, s, 2)
    BY <2>1, <2>2, ShiftStatus
  <2> QED BY <1>2, <2>4, <2>5 DEF Frame
<1>3. CASE F # RDSR
  <2>1. ASSUME NEW d \in s..m, \A i \in s..d - 1 : ~Deselects(t[i])
        PROVE  t[d].k # "status" /\ (Deselects(t[d]) => After(F, t, d))
    <3>1. \A i \in s..d : t[i] = u[i + k]
      BY <1>1 DEF Same
    <3>2. \A i \in s + k..d + k - 1 : ~Deselects(u[i])
      <4> SUFFICES ASSUME NEW i \in s + k..d + k - 1 PROVE ~Deselects(u[i])
        OBVIOUS
      <4>1. PICK j \in Int : j = i - k
        BY <1>1
      <4>2. j \in s..d - 1 /\ j \in s..d /\ j + k = i
        BY <1>1, <4>1
      <4> QED BY <2>1, <3>1, <4>2
    <3>3. d + k \in s + k..n /\ d \in s..d /\ d \in Nat /\ d + 1 >= lo
      BY <1>1
    <3>4. u[d + k].k # "status" /\ (Deselects(u[d + k]) => After(F, u, d + k))
      BY <1>1, <1>3, <3>2, <3>3 DEF Frame
    <3>5. t[d] = u[d + k]
      BY <3>1, <3>3
    <3> QED BY <3>3, <3>4, <3>5, ShiftAfter
  <2> QED BY <1>1, <1>3, <2>1 DEF Frame
<1> QED BY <1>2, <1>3

\* The frame goes on behind an access that is neither its end nor a status read.
LEMMA FrameOn ==
  ASSUME NEW ops, Len(ops) \in Nat, NEW s \in Nat \ {0}, s <= Len(ops), NEW F, F # RDSR, ~Deselects(ops[s]), ops[s].k # "status"
  PROVE  Frame(F, ops, s) <=> Frame(F, ops, s + 1)
<1>1. PICK n : n = Len(ops) /\ n \in Nat
  OBVIOUS
<1>2. ASSUME Frame(F, ops, s), NEW d \in s + 1..n, \A i \in s + 1..d - 1 : ~Deselects(ops[i])
      PROVE  ops[d].k # "status" /\ (Deselects(ops[d]) => After(F, ops, d))
  <2>1. \A i \in s..d - 1 : ~Deselects(ops[i])
    <3> SUFFICES ASSUME NEW i \in s..d - 1 PROVE ~Deselects(ops[i])
      OBVIOUS
    <3>1. i = s \/ i \in s + 1..d - 1
      BY <1>2
    <3> QED BY <1>2, <3>1
  <2>2. d \in s..n
    BY <1>2
  <2> QED BY <1>1, <1>2, <2>1, <2>2 DEF Frame
<1>3. ASSUME Frame(F, ops, s + 1), NEW d \in s..n, \A i \in s..d - 1 : ~Deselects(ops[i])
      PROVE  ops[d].k # "status" /\ (Deselects(ops[d]) => After(F, ops, d))
  <2>1. CASE d = s
    BY <2>1
  <2>2. CASE d # s
    <3>1. d \in s + 1..n /\ \A i \in s + 1..d - 1 : i \in s..d - 1
      BY <1>1, <2>2
    <3> QED BY <1>1, <1>3, <3>1 DEF Frame
  <2> QED BY <2>1, <2>2
<1> QED BY <1>1, <1>2, <1>3 DEF Frame

\* Where a w25q_status is.
LEMMA Stage ==
  ASSUME NEW p \in 2..8, InStatus(scode, 1, p)
  PROVE  /\ scode[1] = w25q_status[p]
         /\ (scode[1].k = "push" <=> p \in {2, 5}) /\ (scode[1].k = "busy" <=> p \in {3, 6})
         /\ (scode[1].k = "pop" <=> p = 4) /\ (scode[1].k = "status" <=> p = 7) /\ (scode[1].k = "cs" <=> p = 8)
         /\ scode[1].k # "buf"
<1>1. w25q_status[p] = scode[1]
  <2>1. p \in p..8 /\ 1 + p - p = 1
    OBVIOUS
  <2>2. scode[1 + p - p] = w25q_status[p]
    BY <2>1 DEF InStatus
  <2> QED BY <2>1, <2>2
<1>2. \A i \in 1..8 : w25q_wait_ready[i] = w25q_status[i]
  BY ThePoll
<1>3. \A k : [k |-> "busy"].k = "busy"
  OBVIOUS
<1>4. p = 2 \/ p = 3 \/ p = 4 \/ p = 5 \/ p = 6 \/ p = 7 \/ p = 8
  OBVIOUS
<1>5. CASE p \in {2, 5}
  <2>1. w25q_status[p].k = "push"
    BY <1>2, <1>5, ThePoll
  <2> QED BY <1>1, <1>5, <2>1
<1>6. CASE p \in {3, 6}
  <2>1. w25q_status[p].k = "busy"
    BY <1>2, <1>6, ThePoll
  <2> QED BY <1>1, <1>6, <2>1
<1>7. CASE p = 4
  <2>1. w25q_status[p].k = "pop"
    BY <1>2, <1>7, ThePoll
  <2> QED BY <1>1, <1>7, <2>1
<1>8. CASE p = 7
  <2>1. w25q_status[p].k = "status"
    BY <1>2, <1>8, ThePoll
  <2> QED BY <1>1, <1>8, <2>1
<1>9. CASE p = 8
  <2>1. w25q_status[p].k = "cs"
    BY <1>2, <1>9, ThePoll DEF Cs
  <2> QED BY <1>1, <1>9, <2>1
<1> QED BY <1>4, <1>5, <1>6, <1>7, <1>8, <1>9

\* The code that is left, without its first access.
LEMMA Behind ==
  ASSUME IsSeq(scode), scode # <<>>, scode' = Tail(scode)
  PROVE  /\ IsSeq(scode') /\ Same(scode', scode, 1, 1) /\ Len(scode) \in Nat \ {0} /\ Len(scode') = Len(scode) - 1
         /\ \A i \in 1..Len(scode) - 1 : scode'[i] = scode[i + 1]
         /\ (scode' = <<>> <=> Len(scode) = 1)
<1>1. /\ IsSeq(scode') /\ Len(scode) \in Nat \ {0} /\ Len(scode') = Len(scode) - 1
      /\ \A i \in 1..Len(scode) - 1 : scode'[i] = scode[i + 1]
  BY Shorter
<1>2. scode' = <<>> <=> Len(scode) = 1
  <2>1. IsSeq(scode')
    BY <1>1
  <2>2. scode' = <<>> <=> Len(scode') = 0
    BY <2>1, NoElements
  <2> QED BY <1>1, <2>2
<1> QED BY <1>1, <1>2 DEF Same

LEMMA FramesBehind ==
  ASSUME FramesLeft, IsSeq(scode), scode # <<>>, scode' = Tail(scode), sscript' = sscript, scode' # <<>> => scode'[1].k # "again"
  PROVE  FramesLeft'
<1>1. /\ Same(scode', scode, 1, 1) /\ Len(scode) \in Nat \ {0} /\ Len(scode') = Len(scode) - 1
      /\ \A i \in 1..Len(scode) - 1 : scode'[i] = scode[i + 1]
      /\ (scode' = <<>> <=> Len(scode) = 1)
  BY Behind
<1>2. scode' # <<>> => Deselects(scode'[Len(scode')]) \/ scode'[Len(scode')].k = "again"
  <2>1. scode' # <<>> => scode'[Len(scode')] = scode[Len(scode)]
    BY <1>1
  <2> QED BY <2>1 DEF FramesLeft
<1>3. ASSUME NEW i \in 1..Len(scode')
      PROVE  /\ scode'[i].k \in {"cs", "push", "busy", "pop", "status", "buf", "again"}
             /\ i < Len(scode') => Follow(scode'[i], scode'[i + 1])
             /\ Selects(scode'[i]) => Frame(Command(scode'[i + 1]), scode', i + 1)
  <2>1. i + 1 \in 1..Len(scode) /\ scode'[i] = scode[i + 1] /\ i \in Nat \ {0}
    BY <1>1
  <2>2. i < Len(scode') => i + 1 < Len(scode) /\ scode'[i + 1] = scode[i + 1 + 1]
    BY <1>1
  <2>3. Selects(scode[i + 1]) => i < Len(scode')
    <3>1. i = Len(scode') => i + 1 = Len(scode)
      BY <1>1
    <3>2. Selects(scode[Len(scode)]) => FALSE
      BY DEF FramesLeft, Selects, Deselects
    <3>3. CASE i = Len(scode')
      <4>1. i + 1 = Len(scode)
        BY <3>1, <3>3
      <4>2. ~Selects(scode[i + 1])
        BY <3>2, <4>1
      <4> QED BY <4>2
    <3>4. CASE i # Len(scode')
      <4>1. Len(scode') \in Nat
        BY <1>1
      <4> QED BY <3>4, <4>1
    <3> QED BY <3>3, <3>4
  <2>4. Selects(scode[i + 1]) => Frame(Command(scode'[i + 1]), scode, i + 1 + 1)
    BY <2>1, <2>2, <2>3 DEF FramesLeft
  <2>5. i + 1 \in Nat /\ i + 1 >= 1
    BY <2>1
  <2> QED BY <1>1, <2>1, <2>2, <2>4, <2>5, ShiftFrame DEF FramesLeft
<1>4. Sleeps(scode') => NextWakes'
  <2>1. Sleeps(scode') => Sleeps(scode)
    <3> SUFFICES ASSUME NEW i \in 1..Len(scode') - 1, Selects(scode'[i]), Command(scode'[i + 1]) = PWRDN
                 PROVE  Sleeps(scode)
      BY DEF Sleeps
    <3>1. i + 1 \in 1..Len(scode) - 1 /\ scode'[i] = scode[i + 1] /\ scode'[i + 1] = scode[i + 1 + 1]
      BY <1>1
    <3> QED BY <3>1 DEF Sleeps
  <2> QED BY <2>1 DEF FramesLeft, NextWakes
<1> QED BY <1>2, <1>3, <1>4 DEF FramesLeft

\* Sent and First, as numbers and bytes.
LEMMA Counted ==
  ASSUME SpiInv, FlashInv
  PROVE  /\ Sent \in Nat /\ Len(dev.frame) \in Nat /\ (dev.frame = <<>> <=> Len(dev.frame) = 0)
         /\ (Sent = 0 <=> dev.frame = <<>> /\ InFlight = 0) /\ InFlight \in Nat /\ Sent = Len(dev.frame) + InFlight
<1>1. Len(dev.frame) \in Nat /\ (dev.frame = <<>> <=> Len(dev.frame) = 0)
  BY NoElements DEF FlashInv
<1>2. InFlight \in Nat
  BY Held
<1> QED BY <1>1, <1>2 DEF Sent

LEMMA ReadingOn ==
  ASSUME SpiInv, NEW p \in 2..6, Reading(p), scode # <<>>, scode' = Tail(scode), dev'.wip = dev.wip
  PROVE  /\ InStatus(scode', 1, p + 1) /\ After(RDSR, scode', 9 - (p + 1))
         /\ dev'.wip => Len(scode') >= 10 - (p + 1) /\ scode'[10 - (p + 1)].k = "again"
<1>1. /\ Same(scode', scode, 1, 1) /\ Len(scode) \in Nat \ {0} /\ Len(scode') = Len(scode) - 1
      /\ \A i \in 1..Len(scode) - 1 : scode'[i] = scode[i + 1]
  BY Behind DEF SpiInv, WordsLeft
<1>2. InStatus(scode, 2, p + 1)
  <2>1. 1 + 8 - p <= Len(scode) /\ \A q \in p..8 : scode[1 + q - p] = w25q_status[q]
    BY DEF Reading, InStatus
  <2>2. 2 + 8 - (p + 1) <= Len(scode)
    BY <1>1, <2>1
  <2>3. \A q \in p + 1..8 : 2 + q - (p + 1) = 1 + q - p /\ q \in p..8
    OBVIOUS
  <2>4. \A q \in p + 1..8 : scode[2 + q - (p + 1)] = w25q_status[q]
    BY <2>1, <2>3
  <2> QED BY <2>2, <2>4 DEF InStatus
<1>3. InStatus(scode', 1, p + 1)
  <2>1. 1 \in Nat /\ 1 >= 1 /\ p + 1 \in 1..8 /\ 1 + 1 = 2
    OBVIOUS
  <2>2. InStatus(scode, 1 + 1, p + 1)
    BY <1>2, <2>1
  <2> QED BY <1>1, <2>1, <2>2, ShiftStatus
<1>4. After(RDSR, scode', 9 - (p + 1))
  <2>1. 9 - (p + 1) + 1 = 9 - p /\ 9 - (p + 1) \in Nat /\ 9 - (p + 1) + 1 >= 1
    OBVIOUS
  <2>2. After(RDSR, scode, 9 - (p + 1) + 1)
    BY <2>1 DEF Reading
  <2> QED BY <1>1, <2>1, <2>2, ShiftAfter
<1>5. dev.wip => Len(scode') >= 10 - (p + 1) /\ scode'[10 - (p + 1)].k = "again"
  <2>1. dev.wip => Len(scode) >= 10 - p /\ scode[10 - p].k = "again"
    BY DEF Reading
  <2>2. 10 - (p + 1) + 1 = 10 - p /\ (Len(scode) >= 10 - p => 10 - (p + 1) \in 1..Len(scode) - 1)
    BY <1>1
  <2>3. Len(scode) >= 10 - p => scode'[10 - (p + 1)] = scode[10 - (p + 1) + 1]
    BY <1>1, <2>2
  <2> QED BY <1>1, <2>1, <2>2, <2>3
<1> QED BY <1>3, <1>4, <1>5

\* An access within a frame.
LEMMA InsideOn ==
  ASSUME SpiInv, Flash, FlashInv, scode # <<>>, scode[1].k \in {"push", "busy", "pop", "buf"}, scode' = Tail(scode),
         cs' = cs, sscript' = sscript, dev' = dev, Sent' # 0, InFrame' = InFrame,
         \A p \in 2..6 : Reading(p) =>
           /\ p + 1 \in 3..5 => Sent' = 1
           /\ p + 1 \in 6..8 => Sent' = 2
           /\ (p + 1 = 6 /\ Len(srx') = 1) \/ p + 1 = 7 => (~StillBusy(srx'[1]) => ~dev.wip)
  PROVE  FlashInv'
<1>1. /\ IsSeq(scode) /\ Same(scode', scode, 1, 1) /\ Len(scode) \in Nat \ {0} /\ Len(scode') = Len(scode) - 1
      /\ \A i \in 1..Len(scode) - 1 : scode'[i] = scode[i + 1]
      /\ (scode' = <<>> <=> Len(scode) = 1)
  BY Behind DEF SpiInv, WordsLeft
<1>2. Len(scode) # 1
  BY DEF FlashInv, FramesLeft, Deselects
<1>3. scode' # <<>> /\ ~Selects(scode'[1]) /\ scode'[1].k # "again"
  <2>1. Follow(scode[1], scode[2]) /\ scode'[1] = scode[2]
    <3>1. 1 \in 1..Len(scode) /\ 1 < Len(scode) /\ 1 \in 1..Len(scode) - 1
      BY <1>1, <1>2
    <3> QED BY <1>1, <3>1 DEF FlashInv, FramesLeft
  <2> QED BY <1>1, <1>2, <2>1 DEF Follow
<1>4. FramesLeft'
  BY <1>1, <1>3, FramesBehind DEF FlashInv
<1>5. cs /\ Inside
  BY DEF FlashInv, Selects
<1>6. cs' /\ (cs' <=> scode' # <<>> /\ ~Selects(scode'[1]))
  BY <1>3, <1>5
<1>7. IF InFrame = RDSR THEN (\E p \in 2..8 : Reading(p))' ELSE Frame(InFrame, scode', 1)
  <2>1. CASE InFrame = RDSR
    <3>1. PICK p \in 2..8 : Reading(p)
      BY <1>5, <2>1 DEF Inside
    <3>2. p \in 2..6
      <4>1. InStatus(scode, 1, p)
        BY <3>1 DEF Reading
      <4> QED BY <4>1, Stage
    <3>3. /\ InStatus(scode', 1, p + 1) /\ After(RDSR, scode', 9 - (p + 1))
          /\ dev'.wip => Len(scode') >= 10 - (p + 1) /\ scode'[10 - (p + 1)].k = "again"
      BY <3>1, <3>2, ReadingOn
    <3>4. PICK q : q = p + 1
      OBVIOUS
    <3>5. q \in 2..8 /\ q # 2 /\ q # 8
      BY <3>2, <3>4
    <3>6. Reading(q)'
      BY <3>1, <3>2, <3>3, <3>4, <3>5 DEF Reading
    <3> QED BY <2>1, <3>5, <3>6
  <2>2. CASE InFrame # RDSR
    <3>1. Frame(InFrame, scode, 1)
      BY <1>5, <2>2 DEF Inside
    <3>2. ~Deselects(scode[1]) /\ scode[1].k # "status" /\ 1 \in Nat \ {0} /\ 1 <= Len(scode) /\ Len(scode) \in Nat
      BY <1>1 DEF Deselects
    <3>3. Frame(InFrame, scode, 1 + 1)
      BY <2>2, <3>1, <3>2, FrameOn
    <3>4. 1 \in Nat /\ 1 >= 1
      OBVIOUS
    <3>5. Frame(InFrame, scode', 1)
      BY <1>1, <3>3, <3>4, ShiftFrame
    <3> QED BY <2>2, <3>5
  <2> QED BY <2>1, <2>2
<1>8. NextWakes' <=> NextWakes
  BY DEF NextWakes
<1>9. Inside'
  BY <1>5, <1>7, <1>8 DEF Inside
<1> QED BY <1>4, <1>6, <1>9 DEF FlashInv

LEMMA FlashPush == SpiInv /\ Flash /\ FlashInv /\ SpiPush => FlashInv'
<1> SUFFICES ASSUME SpiInv, Flash, FlashInv, SpiPush PROVE FlashInv'
  OBVIOUS
<1>1. /\ scode # <<>> /\ scode[1].k = "push" /\ scode' = Tail(scode) /\ stx' = Append(stx, scode[1].b)
      /\ cs' = cs /\ sscript' = sscript /\ dev' = dev /\ srx' = srx /\ sst' = sst /\ sshift' = sshift
  BY Held DEF SpiPush, SpiAt, SpiReady
<1>2. sst = "idle" /\ stx = <<>> /\ srx = <<>> /\ InFlight = 0
  BY <1>1, Held DEF SpiInv, InStep, AtOp, Bench, Flash
<1>3. Len(stx') = 1 /\ stx'[1] = scode[1].b /\ Len(srx) = 0
  <2>1. IsSeq(stx) /\ Len(stx) = 0 /\ Len(srx) = 0
    BY <1>2, NoElements
  <2>2. Len(stx') = Len(stx) + 1 /\ stx'[Len(stx) + 1] = scode[1].b
    BY <1>1, <2>1, Longer
  <2> QED BY <2>1, <2>2
<1>4. InFlight' = 1 /\ Sent' = Sent + 1 /\ Sent \in Nat
  <2>1. InFlight' = 1
    BY <1>1, <1>2, <1>3 DEF InFlight
  <2>2. Sent' = Len(dev.frame) + InFlight'
    BY <1>1 DEF Sent
  <2> QED BY <1>2, <2>1, <2>2, Counted
<1>5. InFrame' = InFrame
  <2>1. Sent' > 0 /\ InFrame' = First'
    BY <1>4 DEF InFrame
  <2>2. CASE dev.frame = <<>>
    <3>1. First' = scode[1].b
      BY <1>1, <1>2, <1>3, <2>2 DEF First
    <3>2. Sent = 0
      BY <1>2, <2>2, Counted
    <3> QED BY <1>1, <2>1, <3>1, <3>2 DEF InFrame, Command
  <2>3. CASE dev.frame # <<>>
    <3>1. Sent > 0
      BY <1>4, <2>3, Counted
    <3> QED BY <1>1, <2>1, <2>3, <3>1 DEF InFrame, First
  <2> QED BY <2>2, <2>3
<1>6. ASSUME NEW p \in 2..6, Reading(p)
      PROVE  /\ p + 1 \in 3..5 => Sent' = 1
             /\ p + 1 \in 6..8 => Sent' = 2
             /\ (p + 1 = 6 /\ Len(srx') = 1) \/ p + 1 = 7 => (~StillBusy(srx'[1]) => ~dev.wip)
  <2>1. p \in {2, 5}
    <3>1. p \in 2..8 /\ InStatus(scode, 1, p)
      BY <1>6 DEF Reading
    <3> QED BY <1>1, <3>1, Stage
  <2>2. p = 2 => Sent = 0
    BY <1>6 DEF Reading
  <2>3. p = 5 => Sent = 1
    BY <1>6 DEF Reading
  <2> QED BY <1>1, <1>3, <1>4, <2>1, <2>2, <2>3
<1>7. Sent' # 0
  BY <1>4
<1> QED BY <1>1, <1>5, <1>6, <1>7, InsideOn

LEMMA FlashWait == SpiInv /\ Flash /\ FlashInv /\ (SpiBusyWait \/ SpiPop) => FlashInv'
<1> SUFFICES ASSUME SpiInv, Flash, FlashInv, SpiBusyWait \/ SpiPop PROVE FlashInv'
  OBVIOUS
<1>1. /\ scode # <<>> /\ scode' = Tail(scode) /\ cs' = cs /\ sscript' = sscript /\ dev' = dev
      /\ stx' = stx /\ sst' = sst /\ sshift' = sshift
      /\ (scode[1].k = "busy" /\ sst = "idle" /\ srx' = srx) \/ scode[1].k = "pop"
  BY Held DEF SpiBusyWait, SpiPop, SpiAt, SpiReady
<1>2. cs /\ Inside
  BY <1>1 DEF FlashInv, Selects
<1>3. Sent' = Sent /\ First' = First /\ Sent # 0
  <2>1. Sent # 0
    BY <1>1, <1>2 DEF Inside, AtOp
  <2> QED BY <1>1, <2>1 DEF Sent, First, InFlight
<1>4. InFrame' = InFrame /\ Sent' # 0
  BY <1>3, Counted DEF InFrame
<1>5. ASSUME NEW p \in 2..6, Reading(p)
      PROVE  /\ p + 1 \in 3..5 => Sent' = 1
             /\ p + 1 \in 6..8 => Sent' = 2
             /\ (p + 1 = 6 /\ Len(srx') = 1) \/ p + 1 = 7 => (~StillBusy(srx'[1]) => ~dev.wip)
  <2>1. p \in 2..8 /\ InStatus(scode, 1, p)
    BY <1>5 DEF Reading
  <2>2. p \in {3, 4, 6} /\ (p = 6 => scode[1].k = "busy")
    BY <1>1, <2>1, Stage
  <2>3. /\ p \in 3..5 => Sent = 1
        /\ p \in 6..8 => Sent = 2
    BY <1>5 DEF Reading
  <2>4. p = 6 => (~StillBusy(srx'[1]) => ~dev.wip)
    <3> SUFFICES ASSUME p = 6 PROVE ~StillBusy(srx'[1]) => ~dev.wip
      OBVIOUS
    <3>1. scode[1].k = "busy" /\ sst = "idle" /\ srx' = srx
      BY <1>1, <2>2
    <3>2. SpiBusyWait
      BY <3>1, Held DEF SpiPop, SpiAt, SpiReady
    <3>3. spushed /\ Level = 1 /\ ~(spushed /\ sst = "idle" /\ stx # <<>>)
      BY <1>1, <3>1, <3>2 DEF SpiInv, InStep, AtOp, Bench, Flash, SpiBusyWait, SpiAt, SpiReady
    <3>4. Len(srx) = 1
      BY <3>1, <3>3, Held DEF Level
    <3> QED BY <1>5, <3>1, <3>4 DEF Reading
  <2> QED BY <1>3, <2>2, <2>3, <2>4
<1> QED BY <1>1, <1>4, <1>5, InsideOn

\* Select: the first byte of the frame is the one that comes.
LEMMA FlashSelect ==
  ASSUME SpiInv, Flash, FlashInv, SpiCs, ~cs
  PROVE  FlashInv'
<1>1. /\ scode # <<>> /\ scode[1].k = "cs" /\ scode' = Tail(scode) /\ cs' = scode[1].v
      /\ sscript' = sscript /\ srx' = srx /\ stx' = stx /\ sst' = sst /\ sshift' = sshift /\ dev' = dev
  BY Held DEF SpiCs, SpiAt, SpiReady
<1>2. sst = "idle" /\ InFlight = 0
  BY <1>1, Held DEF SpiInv, InStep, AtOp
<1>3. Selects(scode[1]) /\ cs' /\ Between
  BY <1>1 DEF FlashInv, Selects
<1>4. /\ IsSeq(scode) /\ Same(scode', scode, 1, 1) /\ Len(scode) \in Nat \ {0} /\ Len(scode') = Len(scode) - 1
      /\ \A i \in 1..Len(scode) - 1 : scode'[i] = scode[i + 1]
      /\ (scode' = <<>> <=> Len(scode) = 1)
  BY <1>1, Behind DEF SpiInv, WordsLeft
<1>5. Len(scode) # 1
  BY <1>1, <1>3 DEF FlashInv, FramesLeft, Deselects, Selects
<1>6. 1 \in 1..Len(scode) /\ 1 < Len(scode) /\ 1 \in 1..Len(scode) - 1
  BY <1>4, <1>5
<1>7. scode'[1] = scode[2] /\ scode[2].k \in {"push", "buf"} /\ scode' # <<>> /\ Frame(Command(scode[2]), scode, 2)
  <2>1. Follow(scode[1], scode[2]) /\ (Selects(scode[1]) => Frame(Command(scode[2]), scode, 2))
    BY <1>6 DEF FlashInv, FramesLeft
  <2> QED BY <1>3, <1>4, <1>5, <1>6, <2>1 DEF Follow, Selects
<1>8. FramesLeft'
  BY <1>1, <1>4, <1>7, FramesBehind DEF FlashInv
<1>9. Sent' = 0 /\ InFrame' = Command(scode[2])
  <2>1. Sent = 0
    BY <1>2, <1>3, Counted DEF Between
  <2>2. Sent' = Sent
    BY <1>1 DEF Sent, InFlight
  <2> QED BY <1>7, <2>1, <2>2 DEF InFrame
<1>10. dev.wip => Command(scode[2]) = RDSR /\ Len(scode) >= 9 /\ scode[9].k = "again"
  <2> SUFFICES ASSUME dev.wip PROVE Command(scode[2]) = RDSR /\ Len(scode) >= 9 /\ scode[9].k = "again"
    OBVIOUS
  <2>1. Polls(scode, 1)
    BY <1>1, <1>3 DEF Between
  <2>2. Len(scode) >= 1 + 8 /\ \A q \in 1..9 : scode[1 + q - 1] = w25q_wait_ready[q]
    BY <2>1 DEF Polls
  <2>3. scode[2] = w25q_wait_ready[2] /\ scode[9] = w25q_wait_ready[9] /\ Len(scode) >= 9
    BY <2>2
  <2> QED BY <2>3, ThePoll DEF Command
<1>11. /\ dev.pd => Command(scode[2]) = RELEASE
       /\ Command(scode[2]) \in Programs => dev.wel
       /\ Command(scode[2]) = PWRDN => NextWakes
  <2>1. Command(scode[2]) = PWRDN => Sleeps(scode)
    BY <1>3, <1>6 DEF Sleeps
  <2> QED BY <1>1, <1>3, <2>1 DEF Between, FlashInv, FramesLeft
<1>12. CASE Command(scode[2]) = RDSR
  <2>1. InStatus(scode, 2, 2) /\ After(RDSR, scode, 8)
    <3>1. InStatus(scode, 2, 2) /\ After(RDSR, scode, 2 + 6)
      BY <1>7, <1>12 DEF Frame
    <3> QED BY <3>1
  <2>2. InStatus(scode', 1, 2)
    <3>1. 1 \in Nat /\ 1 >= 1 /\ 2 \in 1..8 /\ InStatus(scode, 1 + 1, 2)
      BY <2>1
    <3> QED BY <1>4, <3>1, ShiftStatus
  <2>3. After(RDSR, scode', 9 - 2)
    <3>1. 7 \in Nat /\ 7 + 1 >= 1 /\ After(RDSR, scode, 7 + 1)
      BY <2>1
    <3>2. After(RDSR, scode', 7)
      BY <1>4, <3>1, ShiftAfter
    <3> QED BY <3>2
  <2>4. dev.wip => Len(scode') >= 10 - 2 /\ scode'[10 - 2].k = "again"
    <3>1. dev.wip => 8 \in 1..Len(scode) - 1 /\ scode[8 + 1].k = "again"
      BY <1>4, <1>10
    <3>2. dev.wip => scode'[8] = scode[8 + 1]
      BY <1>4, <3>1
    <3> QED BY <1>4, <3>1, <3>2
  <2>5. PICK p : p = 2
    OBVIOUS
  <2>6. Reading(p)' /\ p \in 2..8
    BY <1>1, <1>9, <2>2, <2>3, <2>4, <2>5 DEF Reading
  <2>7. AtOp({"push"})'
    <3>1. scode'[1].k = "push"
      <4>1. 2 \in 2..8 /\ InStatus(scode', 1, 2)
        BY <2>2
      <4>2. scode'[1] = w25q_status[2]
        <5>1. 2 \in 2..8 /\ 1 + 2 - 2 = 1
          OBVIOUS
        <5>2. scode'[1 + 2 - 2] = w25q_status[2]
          BY <2>2, <5>1 DEF InStatus
        <5> QED BY <5>1, <5>2
      <4>3. w25q_status[2].k = "push"
        BY ThePoll
      <4> QED BY <4>2, <4>3
    <3> QED BY <1>7, <3>1 DEF AtOp
  <2>8. NextWakes' <=> NextWakes
    BY <1>1 DEF NextWakes
  <2>9. Inside'
    BY <1>1, <1>9, <1>10, <1>11, <1>12, <2>6, <2>7, <2>8 DEF Inside, AtOp
  <2> QED BY <1>1, <1>3, <1>7, <1>8, <2>9 DEF FlashInv, Selects
<1>13. CASE Command(scode[2]) # RDSR
  <2>1. Frame(Command(scode[2]), scode', 1)
    <3>1. 1 \in Nat /\ 1 >= 1 /\ Frame(Command(scode[2]), scode, 1 + 1)
      BY <1>7
    <3> QED BY <1>4, <3>1, ShiftFrame
  <2>2. AtOp({"push", "buf"})' /\ (AtOp({"buf"})' => scode'[1].pushed = 0)
    <3>1. 2 \in 1..Len(scode) /\ 2 > 1
      BY <1>4, <1>5
    <3>2. scode[2].k = "buf" => scode[2].pushed = 0
      BY <3>1 DEF SpiInv, WordsLeft
    <3> QED BY <1>7, <3>2 DEF AtOp
  <2>3. NextWakes' <=> NextWakes
    BY <1>1 DEF NextWakes
  <2>4. Inside'
    BY <1>1, <1>9, <1>10, <1>11, <1>13, <2>1, <2>2, <2>3 DEF Inside
  <2> QED BY <1>1, <1>3, <1>7, <1>8, <2>4 DEF FlashInv, Selects
<1> QED BY <1>12, <1>13

\* What the flash makes of a frame that it heeds.
LEMMA FlashHeeds ==
  ASSUME Device, Flash, NEW f, f # <<>>, dev.pd => f[1] = RELEASE, dev.wip => f[1] = RDSR, f[1] \in Programs => dev.wel,
         dev.wip => ~dev.pd, dev.wip \in BOOLEAN, dev.wel \in BOOLEAN, dev.pd \in BOOLEAN
  PROVE  LET d == FlashEnd(f)
         IN  /\ d.ignored = dev.ignored /\ d.wel \in BOOLEAN /\ d.wip \in BOOLEAN /\ d.pd \in BOOLEAN
             /\ d.wip <=> dev.wip \/ f[1] \in Programs
             /\ d.pd <=> (~dev.pd /\ f[1] = PWRDN)
             /\ f[1] = WREN => d.wel
<1>1. PICK v : v = dev
  OBVIOUS
<1>3. v = [x \in {"kind", "frame", "mem", "wel", "wip", "pd", "ignored"} |-> v[x]]
  BY <1>1 DEF Device, Flash
<1>4. CASE dev.pd
  <2>1. FlashEnd(f) = [v EXCEPT !.pd = FALSE] /\ ~v.wip /\ f[1] = RELEASE
    BY <1>1, <1>4 DEF FlashEnd
  <2>2. /\ [v EXCEPT !.pd = FALSE].ignored = v.ignored /\ [v EXCEPT !.pd = FALSE].wel = v.wel
        /\ [v EXCEPT !.pd = FALSE].wip = v.wip /\ [v EXCEPT !.pd = FALSE].pd = FALSE
    BY <1>3
  <2> QED BY <1>1, <1>4, <2>1, <2>2 DEF Programs, PP, SE, CE, RELEASE, PWRDN, WREN
<1>5. CASE ~dev.pd /\ dev.wip
  <2>1. FlashEnd(f) = v /\ f[1] = RDSR
    BY <1>1, <1>5 DEF FlashEnd
  <2>2. f[1] \notin Programs /\ f[1] # PWRDN /\ f[1] # WREN
    BY <2>1 DEF Programs, PP, SE, CE, RDSR, PWRDN, WREN
  <2> QED BY <1>1, <1>5, <2>1, <2>2, Zenon
<1>6. CASE ~dev.pd /\ ~dev.wip /\ f[1] = WREN
  <2>1. FlashEnd(f) = [v EXCEPT !.wel = TRUE]
    <3>1. FlashEnd(f) = [dev EXCEPT !.wel = TRUE]
      BY <1>6 DEF FlashEnd, WREN, PWRDN, PP, SE, CE
    <3> QED BY <1>1, <3>1
  <2>2. /\ [v EXCEPT !.wel = TRUE].ignored = v.ignored /\ [v EXCEPT !.wel = TRUE].wel = TRUE
        /\ [v EXCEPT !.wel = TRUE].wip = v.wip /\ [v EXCEPT !.wel = TRUE].pd = v.pd
    BY <1>3
  <2> QED BY <1>1, <1>6, <2>1, <2>2 DEF Programs, PP, SE, CE, PWRDN, WREN
<1>7. CASE ~dev.pd /\ ~dev.wip /\ f[1] = PWRDN
  <2>1. FlashEnd(f) = [v EXCEPT !.pd = TRUE]
    <3>1. FlashEnd(f) = [dev EXCEPT !.pd = TRUE]
      BY <1>7 DEF FlashEnd, WREN, PWRDN, PP, SE, CE
    <3> QED BY <1>1, <3>1
  <2>2. /\ [v EXCEPT !.pd = TRUE].ignored = v.ignored /\ [v EXCEPT !.pd = TRUE].wel = v.wel
        /\ [v EXCEPT !.pd = TRUE].wip = v.wip /\ [v EXCEPT !.pd = TRUE].pd = TRUE
    BY <1>3
  <2> QED BY <1>1, <1>7, <2>1, <2>2 DEF Programs, PP, SE, CE, PWRDN, WREN
<1>8. CASE ~dev.pd /\ ~dev.wip /\ f[1] \in Programs
  <2>1. PICK m : FlashEnd(f) = [v EXCEPT !.mem = m, !.wip = TRUE] \/ FlashEnd(f) = [v EXCEPT !.wip = TRUE, !.mem = m]
    <3>1. dev.wel
      BY <1>8
    <3>2. CASE f[1] = PP
      <4>1. FlashEnd(f) = [dev EXCEPT !.mem = Programmed(f), !.wip = TRUE]
        BY <1>8, <3>1, <3>2 DEF FlashEnd, PP, SE, CE, PWRDN, WREN
      <4> QED BY <1>1, <4>1
    <3>3. CASE f[1] = SE
      <4> DEFINE mem == [c \in DOMAIN dev.mem |-> IF c \div (2 * W25Q_PAGE_SIZE) = f[4] \div (2 * W25Q_PAGE_SIZE)
                                                  THEN FILL ELSE dev.mem[c]]
      <4>1. FlashEnd(f) = [dev EXCEPT !.wip = TRUE, !.mem = mem]
        BY <1>8, <3>1, <3>3 DEF FlashEnd, PP, SE, CE, PWRDN, WREN
      <4> HIDE DEF mem
      <4> QED BY <1>1, <4>1
    <3>4. CASE f[1] = CE
      <4> DEFINE mem == [c \in DOMAIN dev.mem |-> FILL]
      <4>1. FlashEnd(f) = [dev EXCEPT !.wip = TRUE, !.mem = mem]
        BY <1>8, <3>1, <3>4 DEF FlashEnd, PP, SE, CE, PWRDN, WREN
      <4> HIDE DEF mem
      <4> QED BY <1>1, <4>1
    <3> QED BY <1>8, <3>2, <3>3, <3>4 DEF Programs
  <2>3. \A x \in {"kind", "frame", "mem", "wel", "wip", "pd", "ignored"} \ {"mem", "wip"} :
           [v EXCEPT !.mem = m, !.wip = TRUE][x] = v[x] /\ [v EXCEPT !.wip = TRUE, !.mem = m][x] = v[x]
    BY <1>3
  <2>4. [v EXCEPT !.mem = m, !.wip = TRUE].wip = TRUE /\ [v EXCEPT !.wip = TRUE, !.mem = m].wip = TRUE
    BY <1>3
  <2>5. FlashEnd(f).wip = TRUE /\ FlashEnd(f).ignored = v.ignored /\ FlashEnd(f).wel = v.wel /\ FlashEnd(f).pd = v.pd
    <3>1. /\ [v EXCEPT !.mem = m, !.wip = TRUE].ignored = v.ignored /\ [v EXCEPT !.wip = TRUE, !.mem = m].ignored = v.ignored
          /\ [v EXCEPT !.mem = m, !.wip = TRUE].wel = v.wel /\ [v EXCEPT !.wip = TRUE, !.mem = m].wel = v.wel
          /\ [v EXCEPT !.mem = m, !.wip = TRUE].pd = v.pd /\ [v EXCEPT !.wip = TRUE, !.mem = m].pd = v.pd
      BY <2>3
    <3> QED BY <2>1, <2>4, <3>1
  <2>6. f[1] # PWRDN /\ f[1] # WREN
    BY <1>8 DEF Programs, PP, SE, CE, PWRDN, WREN
  <2> QED BY <1>1, <1>8, <2>5, <2>6
<1>9. CASE ~dev.pd /\ ~dev.wip /\ f[1] \notin Programs \cup {WREN, PWRDN}
  <2>1. FlashEnd(f) = v
    BY <1>1, <1>9 DEF FlashEnd, Programs
  <2> QED BY <1>1, <1>9, <2>1
<1> QED BY <1>4, <1>5, <1>6, <1>7, <1>8, <1>9

\* Deselect: the frame is over, and what comes is a frame that the flash can take.
LEMMA FlashDeselect ==
  ASSUME SpiInv, Flash, FlashInv, SpiCs, cs
  PROVE  FlashInv'
<1>1. /\ scode # <<>> /\ scode[1].k = "cs" /\ scode' = Tail(scode) /\ cs' = scode[1].v
      /\ sscript' = sscript /\ srx' = srx /\ stx' = stx /\ sst' = sst /\ sshift' = sshift
  BY Held DEF SpiCs, SpiAt, SpiReady
<1>2. sst = "idle" /\ InFlight = 0
  BY <1>1, Held DEF SpiInv, InStep, AtOp
<1>3. ~Selects(scode[1]) /\ Deselects(scode[1]) /\ ~cs' /\ Inside
  BY <1>1 DEF FlashInv, Selects, Deselects
<1>4. /\ IsSeq(scode) /\ Same(scode', scode, 1, 1) /\ Len(scode) \in Nat \ {0} /\ Len(scode') = Len(scode) - 1
      /\ \A i \in 1..Len(scode) - 1 : scode'[i] = scode[i + 1]
      /\ (scode' = <<>> <=> Len(scode) = 1)
  BY <1>1, Behind DEF SpiInv, WordsLeft
<1>5. Sent # 0 /\ dev.frame # <<>> /\ InFrame = dev.frame[1]
  <2>1. Sent # 0
    BY <1>1, <1>3 DEF Inside, AtOp
  <2>2. Sent > 0 /\ dev.frame # <<>>
    BY <1>2, <2>1, Counted
  <2> QED BY <2>1, <2>2 DEF InFrame, First
<1> DEFINE F == InFrame
           d == FlashEnd(dev.frame)
<1>6. dev' = [d EXCEPT !.frame = <<>>]
  BY <1>1, <1>3 DEF SpiCs, Deselected, Flash
<1>7. /\ dev.wip \in BOOLEAN /\ dev.wel \in BOOLEAN /\ dev.pd \in BOOLEAN /\ (dev.wip => ~dev.pd)
      /\ (dev.pd => F = RELEASE) /\ (dev.wip => F = RDSR) /\ (F \in Programs => dev.wel) /\ (F = PWRDN => NextWakes)
  BY <1>3 DEF FlashInv, Inside
<1> HIDE DEF F
<1>8. /\ d.ignored = dev.ignored /\ d.wel \in BOOLEAN /\ d.wip \in BOOLEAN /\ d.pd \in BOOLEAN
      /\ d.wip <=> dev.wip \/ F \in Programs
      /\ d.pd <=> (~dev.pd /\ F = PWRDN)
      /\ F = WREN => d.wel
  BY <1>5, <1>7, FlashHeeds DEF SpiInv, F
<1>9. dev' = [x \in {"kind", "frame", "mem", "wel", "wip", "pd", "ignored"} |-> dev'[x]] /\ dev'.kind = "flash"
  <2>1. Device' /\ dev'.kind = dev.kind
    BY DeviceStep DEF SpiInv, SpiNext, SpiCpu
  <2> QED BY <2>1 DEF Device, Flash
<1>10. /\ dev'.frame = <<>> /\ dev'.ignored = dev.ignored /\ dev'.wel = d.wel /\ dev'.wip = d.wip /\ dev'.pd = d.pd
  <2>1. DOMAIN d = {"kind", "frame", "mem", "wel", "wip", "pd", "ignored"}
    <3>1. DOMAIN dev' = {"kind", "frame", "mem", "wel", "wip", "pd", "ignored"}
      BY <1>9
    <3>2. DOMAIN [d EXCEPT !.frame = <<>>] = DOMAIN d
      BY Zenon
    <3> QED BY <1>6, <3>1, <3>2
  <2>2. /\ [d EXCEPT !.frame = <<>>].frame = <<>>
        /\ [d EXCEPT !.frame = <<>>].ignored = d.ignored /\ [d EXCEPT !.frame = <<>>].wel = d.wel
        /\ [d EXCEPT !.frame = <<>>].wip = d.wip /\ [d EXCEPT !.frame = <<>>].pd = d.pd
    <3> HIDE DEF d
    <3> QED BY <2>1
  <2> QED BY <1>6, <1>8, <2>2
<1> HIDE DEF d
<1>11. /\ After(F, scode, 1)
       /\ F = RDSR => (dev.wip => Polls(scode, 2)) /\ (Len(scode) > 1 => scode[2].k # "again")
  <2>1. CASE F = RDSR
    <3>1. PICK p \in 2..8 : Reading(p)
      BY <1>3, <2>1 DEF Inside, F
    <3>2. InStatus(scode, 1, p)
      BY <3>1 DEF Reading
    <3>3. p = 8
      BY <1>1, <3>2, Stage
    <3> QED BY <2>1, <3>1, <3>3 DEF Reading
  <2>2. CASE F # RDSR
    <3>1. Frame(F, scode, 1)
      BY <1>3, <2>2 DEF Inside, F
    <3>2. 1 \in 1..Len(scode) /\ \A i \in 1..1 - 1 : ~Deselects(scode[i])
      BY <1>4
    <3> QED BY <1>3, <2>2, <3>1, <3>2 DEF Frame
  <2> QED BY <2>1, <2>2
<1>12. Len(scode) > 1 => Selects(scode[2]) /\ scode'[1] = scode[2] /\ scode[2].k # "again"
  <2> SUFFICES ASSUME Len(scode) > 1 PROVE Selects(scode[2]) /\ scode'[1] = scode[2] /\ scode[2].k # "again"
    OBVIOUS
  <2>1. 1 \in 1..Len(scode) /\ 1 < Len(scode) /\ 1 \in 1..Len(scode) - 1
    BY <1>4
  <2>2. Follow(scode[1], scode[2]) /\ scode'[1] = scode[2]
    BY <1>4, <2>1 DEF FlashInv, FramesLeft
  <2>3. scode[2].k = "again" => F = RDSR
    <3>1. scode[1 + 1].k = "again" => F = RDSR
      BY <1>11, <2>1 DEF After
    <3> QED BY <3>1
  <2> QED BY <1>3, <1>11, <2>2, <2>3 DEF Follow, Deselects, Selects
<1>13. FramesLeft'
  <2>1. scode' # <<>> => scode'[1].k # "again"
    BY <1>4, <1>12
  <2> QED BY <1>1, <1>4, <2>1, FramesBehind DEF FlashInv
<1>14. d.wip => Polls(scode, 2)
  <2>1. F \in Programs => Polls(scode, 1 + 1)
    BY <1>11 DEF After
  <2> QED BY <1>7, <1>8, <1>11, <2>1
<1>15. scode' = <<>> => ~d.wip
  <2>1. Polls(scode, 2) => Len(scode) >= 2 + 8
    BY DEF Polls
  <2>2. Len(scode) = 1 => ~Polls(scode, 2)
    BY <2>1
  <2> QED BY <1>4, <1>14, <2>2
<1>16. d.pd => Len(scode) = 1 /\ NextWakes
  BY <1>7, <1>8, <1>11 DEF After
<1>17. d.wip => Polls(scode', 1)
  <2>1. Polls(scode, 2) => Polls(scode, 1 + 1)
    OBVIOUS
  <2>2. 1 \in Nat /\ 1 >= 1
    OBVIOUS
  <2> QED BY <1>4, <1>14, <2>1, <2>2, ShiftPolls
<1>18. scode' # <<>> /\ Command(scode'[2]) \in Programs => d.wel
  <2> SUFFICES ASSUME scode' # <<>>, Command(scode'[2]) \in Programs, F # WREN PROVE FALSE
    BY <1>8
  <2>1. Len(scode) > 1 /\ Selects(scode[2])
    BY <1>4, <1>12
  <2>2. Len(scode) # 2
    BY <1>4, <2>1 DEF FlashInv, FramesLeft, Selects, Deselects
  <2>3. 2 < Len(scode) /\ 2 \in 1..Len(scode) - 1 /\ 2 \in {1 + 1, 1 + 2}
    BY <1>4, <2>1, <2>2
  <2>4. Command(scode[2 + 1]) \notin Programs
    BY <1>11, <2>1, <2>3 DEF After
  <2>5. scode'[2] = scode[2 + 1]
    BY <1>4, <2>3
  <2> QED BY <2>4, <2>5
<1>19. NextWakes' <=> NextWakes
  BY <1>1 DEF NextWakes
<1>20. Between'
  BY <1>4, <1>10, <1>15, <1>16, <1>17, <1>18, <1>19 DEF Between
<1>21. scode' # <<>> => Selects(scode'[1])
  BY <1>4, <1>12
<1>22. IsSeq(dev'.frame)
  BY <1>10, NoElements
<1>23. d.wip => ~d.pd
  <2>1. F \in Programs => F # PWRDN
    BY DEF Programs, PP, SE, CE, PWRDN
  <2>2. RDSR # PWRDN
    BY DEF RDSR, PWRDN
  <2> QED BY <1>7, <1>8, <2>1, <2>2
<1> QED BY <1>1, <1>3, <1>8, <1>10, <1>13, <1>20, <1>21, <1>22, <1>23 DEF FlashInv

\* A byte more of a transfer: the frame goes on behind it.
LEMMA FlashWindow ==
  ASSUME SpiInv, Flash, FlashInv, AtOp({"buf"}), NEW e, e.k = "buf", e.b = scode[1].b, scode' = [scode EXCEPT ![1] = e],
         cs' = cs, sscript' = sscript, dev' = dev, Sent' # 0, InFrame' = InFrame
  PROVE  FlashInv'
<1>1. /\ IsSeq(scode') /\ Len(scode') = Len(scode) /\ scode' # <<>> /\ scode'[1] = e
      /\ \A i \in 2..Len(scode) : scode'[i] = scode[i]
  <2> DEFINE t == [scode EXCEPT ![1] = e]
  <2>1. IsSeq(scode) /\ scode # <<>>
    BY DEF SpiInv, WordsLeft, AtOp
  <2>2. IsSeq(t) /\ Len(t) = Len(scode) /\ t # <<>> /\ t[1] = e /\ \A i \in 2..Len(scode) : t[i] = scode[i]
    BY <2>1, FirstChanged
  <2>3. scode' = t
    OBVIOUS
  <2> HIDE DEF t
  <2> QED BY <2>2, <2>3
<1>2. Len(scode) \in Nat \ {0} /\ scode[1].k = "buf" /\ scode # <<>>
  BY NoElements DEF SpiInv, WordsLeft, AtOp
<1>3. Len(scode) # 1
  BY <1>2 DEF FlashInv, FramesLeft, Deselects
<1>4. Same(scode', scode, 0, 2)
  BY <1>1, <1>2 DEF Same
<1>5. cs /\ Inside
  BY <1>2 DEF FlashInv, Selects
<1>6. /\ InFrame # RDSR /\ Frame(InFrame, scode, 1)
  <2>1. ASSUME NEW p \in 2..8, Reading(p)
        PROVE  FALSE
    <3>1. InStatus(scode, 1, p)
      BY <2>1 DEF Reading
    <3> QED BY <1>2, <3>1, Stage
  <2> QED BY <1>5, <2>1 DEF Inside
<1>7. Frame(InFrame, scode', 1)
  <2>1. ~Deselects(scode[1]) /\ scode[1].k # "status" /\ 1 \in Nat \ {0} /\ 1 <= Len(scode) /\ Len(scode) \in Nat
    BY <1>2 DEF Deselects
  <2>2. Frame(InFrame, scode, 1 + 1)
    BY <1>6, <2>1, FrameOn
  <2>3. 2 \in Nat /\ 2 >= 2 /\ Frame(InFrame, scode, 2 + 0)
    BY <2>2
  <2>4. Frame(InFrame, scode', 2)
    BY <1>4, <2>3, ShiftFrame
  <2>5. ~Deselects(scode'[1]) /\ scode'[1].k # "status" /\ 1 <= Len(scode') /\ Len(scode') \in Nat
    BY <1>1, <1>2 DEF Deselects
  <2>6. Frame(InFrame, scode', 1 + 1)
    BY <2>4
  <2> QED BY <1>6, <2>1, <2>5, <2>6, FrameOn
<1>8. FramesLeft'
  <2>1. scode'[Len(scode')] = scode[Len(scode)]
    BY <1>1, <1>2, <1>3
  <2>2. ASSUME NEW i \in 1..Len(scode')
        PROVE  /\ scode'[i].k \in {"cs", "push", "busy", "pop", "status", "buf", "again"}
               /\ i < Len(scode') => Follow(scode'[i], scode'[i + 1])
               /\ Selects(scode'[i]) => Frame(Command(scode'[i + 1]), scode', i + 1)
    <3>1. CASE i = 1
      <4>1. Follow(scode[1], scode[2]) /\ scode'[2] = scode[2]
        <5>1. 1 \in 1..Len(scode) /\ 1 < Len(scode) /\ 2 \in 2..Len(scode)
          <6>1. PICK n : n = Len(scode)
            OBVIOUS
          <6>2. n \in Nat \ {0} /\ n # 1
            BY <1>2, <1>3, <6>1
          <6>3. 1 \in 1..n /\ 1 < n /\ 2 \in 2..n
            BY <6>2
          <6> QED BY <6>1, <6>3
        <5> QED BY <1>1, <5>1 DEF FlashInv, FramesLeft
      <4> QED BY <1>1, <1>2, <3>1, <4>1 DEF Follow, Selects
    <3>2. CASE i # 1
      <4>1. scode'[i] = scode[i] /\ i \in 1..Len(scode) /\ i \in Nat /\ (i < Len(scode) => scode'[i + 1] = scode[i + 1])
        BY <1>1, <1>2, <3>2
      <4>2. /\ scode[i].k \in {"cs", "push", "busy", "pop", "status", "buf", "again"}
            /\ i < Len(scode) => Follow(scode[i], scode[i + 1])
            /\ Selects(scode[i]) => Frame(Command(scode[i + 1]), scode, i + 1)
        BY <4>1 DEF FlashInv, FramesLeft
      <4>3. Selects(scode[i]) => i < Len(scode)
        <5>1. Selects(scode[Len(scode)]) => FALSE
          BY <1>2 DEF FlashInv, FramesLeft, Selects, Deselects
        <5> QED BY <1>2, <4>1, <5>1
      <4>4. i + 1 \in Nat /\ i + 1 >= 2 /\ i + 1 + 0 = i + 1
        BY <3>2, <4>1
      <4>5. Selects(scode[i]) => Frame(Command(scode[i + 1]), scode', i + 1)
        BY <1>4, <4>2, <4>4, ShiftFrame
      <4> QED BY <1>1, <4>1, <4>2, <4>3, <4>5
    <3> QED BY <3>1, <3>2
  <2>3. Sleeps(scode') => NextWakes'
    <3>1. ASSUME NEW i \in 1..Len(scode') - 1, Selects(scode'[i]), Command(scode'[i + 1]) = PWRDN
          PROVE  Sleeps(scode)
      <4>1. i # 1
        BY <1>1, <3>1 DEF Selects
      <4>2. i \in 1..Len(scode) - 1 /\ scode'[i] = scode[i] /\ scode'[i + 1] = scode[i + 1]
        BY <1>1, <1>2, <4>1
      <4> QED BY <3>1, <4>2 DEF Sleeps
    <3>2. Sleeps(scode') => Sleeps(scode)
      BY <3>1 DEF Sleeps
    <3> QED BY <3>2 DEF FlashInv, FramesLeft, NextWakes
  <2> QED BY <1>1, <1>2, <2>1, <2>2, <2>3 DEF FlashInv, FramesLeft, Deselects
<1>9. NextWakes' <=> NextWakes
  BY DEF NextWakes
<1>10. Inside'
  BY <1>5, <1>6, <1>7, <1>9 DEF Inside
<1>11. cs' /\ ~Selects(scode'[1])
  BY <1>1, <1>5 DEF Selects
<1> QED BY <1>1, <1>8, <1>10, <1>11 DEF FlashInv

LEMMA FlashBufPush == SpiInv /\ Flash /\ FlashInv /\ SpiBufPush => FlashInv'
<1> SUFFICES ASSUME SpiInv, Flash, FlashInv, SpiBufPush PROVE FlashInv'
  OBVIOUS
<1>1. PICK o, e : o = scode[1] /\ e = [o EXCEPT !.pushed = @ + 1]
  OBVIOUS
<1>2. /\ AtOp({"buf"}) /\ o.k = "buf" /\ scode # <<>> /\ scode' = [scode EXCEPT ![1] = e]
      /\ stx' = Append(stx, o.b[o.pushed + 1])
      /\ cs' = cs /\ sscript' = sscript /\ dev' = dev /\ sst' = sst /\ sshift' = sshift
  BY <1>1, Held DEF SpiBufPush, SpiAt, SpiReady, AtOp
<1>3. Buf(o)
  BY <1>1, <1>2 DEF SpiInv, InStep, BufInv
<1>4. e.k = "buf" /\ e.b = o.b
  BY <1>1, <1>3 DEF Buf
<1>5. cs /\ Inside
  BY <1>1, <1>2 DEF FlashInv, Selects
<1>6. /\ IsSeq(stx) /\ Len(stx) \in Nat /\ Len(stx') = Len(stx) + 1 /\ stx'[Len(stx) + 1] = o.b[o.pushed + 1]
      /\ \A i \in 1..Len(stx) : stx'[i] = stx[i]
  <2>1. IsSeq(stx)
    BY DEF SpiInv
  <2> QED BY <1>2, <2>1, Longer
<1>7. Sent' = Sent + 1 /\ Sent \in Nat
  <2>1. InFlight' = InFlight + 1
    BY <1>2, <1>6 DEF InFlight
  <2>2. PICK n : n = Len(dev.frame)
    OBVIOUS
  <2>3. n \in Nat /\ InFlight \in Nat /\ Sent = n + InFlight
    BY <2>2, Counted
  <2>4. Sent' = n + InFlight'
    BY <1>2, <2>2 DEF Sent
  <2> QED BY <2>1, <2>3, <2>4
<1>8. InFrame' = First'
  BY <1>7 DEF InFrame
<1>9. InFrame' = InFrame
  <2>1. CASE Sent = 0
    <3>1. dev.frame = <<>> /\ sst = "idle" /\ stx = <<>> /\ o.pushed = 0
      BY <1>1, <1>2, <1>5, <2>1, Counted, Held DEF Inside
    <3>2. stx'[1] = o.b[1]
      <4>1. Len(stx) + 1 = 1 /\ o.pushed + 1 = 1
        BY <3>1, NoElements
      <4> QED BY <1>6, <4>1
    <3>3. First' = o.b[1]
      BY <1>2, <3>1, <3>2 DEF First
    <3>4. InFrame = o.b[1]
      BY <1>1, <1>2, <2>1 DEF InFrame, Command
    <3> QED BY <1>8, <3>3, <3>4
  <2>2. CASE Sent # 0
    <3>1. InFrame = First
      BY <1>7, <2>2 DEF InFrame
    <3>2. dev.frame = <<>> /\ sst # "shift" => stx'[1] = stx[1]
      <4> SUFFICES ASSUME dev.frame = <<>>, sst # "shift" PROVE stx'[1] = stx[1]
        OBVIOUS
      <4>1. InFlight # 0
        BY <2>2, Counted
      <4>2. stx # <<>> /\ Len(stx) # 0
        BY <4>1, Held DEF SpiInv
      <4>3. 1 \in 1..Len(stx)
        BY <1>6, <4>2
      <4> QED BY <1>6, <4>3
    <3>3. First' = First
      BY <1>2, <3>2 DEF First
    <3> QED BY <1>8, <3>1, <3>3
  <2> QED BY <2>1, <2>2
<1>10. Sent' # 0 /\ e.b = scode[1].b
  BY <1>1, <1>4, <1>7
<1> QED BY <1>2, <1>4, <1>9, <1>10, FlashWindow

LEMMA FlashBufPop == SpiInv /\ Flash /\ FlashInv /\ SpiBufPop => FlashInv'
<1> SUFFICES ASSUME SpiInv, Flash, FlashInv, SpiBufPop PROVE FlashInv'
  OBVIOUS
<1>1. PICK o, e : o = scode[1] /\ e = [o EXCEPT !.popped = @ + 1]
  OBVIOUS
<1>2. /\ AtOp({"buf"}) /\ o.k = "buf" /\ scode # <<>> /\ srx # <<>>
      /\ cs' = cs /\ sscript' = sscript /\ dev' = dev /\ sst' = sst /\ sshift' = sshift /\ stx' = stx
      /\ scode' = (IF o.popped + 1 = Len(o.b) THEN Tail(scode) ELSE [scode EXCEPT ![1] = e])
  BY <1>1, Held DEF SpiBufPop, SpiAt, SpiReady, AtOp
<1>3. BufInv(o)
  BY <1>1, <1>2 DEF SpiInv, InStep
<1>4. e.k = "buf" /\ e.b = scode[1].b
  BY <1>1, <1>2, <1>3 DEF Buf, BufInv
<1>5. cs /\ Inside
  BY <1>1, <1>2 DEF FlashInv, Selects
<1>6. Sent # 0
  <2>1. Level > 0
    BY <1>2, Held DEF Level
  <2>2. Len(o.b) \in Nat
    BY <1>3 DEF BufInv, Buf
  <2>3. o.pushed # 0
    BY <1>3, <2>1, <2>2 DEF BufInv
  <2> QED BY <1>1, <1>2, <1>5, <2>3 DEF Inside
<1>7. Sent' = Sent /\ First' = First
  BY <1>2 DEF Sent, First, InFlight
<1>8. Sent' # 0 /\ InFrame' = InFrame
  BY <1>6, <1>7, Counted DEF InFrame
<1>9. CASE o.popped + 1 = Len(o.b)
  <2>1. ASSUME NEW p \in 2..6, Reading(p)
        PROVE  FALSE
    <3>1. p \in 2..8 /\ InStatus(scode, 1, p)
      BY <2>1 DEF Reading
    <3> QED BY <1>1, <1>2, <3>1, Stage
  <2> QED BY <1>1, <1>2, <1>8, <1>9, <2>1, InsideOn
<1>10. CASE o.popped + 1 # Len(o.b)
  <2>1. scode' = [scode EXCEPT ![1] = e]
    BY <1>2, <1>10
  <2> QED BY <1>2, <1>4, <1>8, <2>1, FlashWindow
<1> QED BY <1>9, <1>10

\* What a step keeps that leaves the code, the select and the calls alone.
LEMMA FlashStays ==
  ASSUME SpiInv, Flash, FlashInv, scode' = scode, cs' = cs, sscript' = sscript, IsSeq(dev'.frame),
         dev'.ignored = dev.ignored, dev'.pd = dev.pd, dev'.wip \in BOOLEAN, dev'.wel \in BOOLEAN, dev'.wip => dev.wip,
         ~cs => Between', cs => Inside'
  PROVE  FlashInv'
<1>1. FramesLeft'
  BY DEF FlashInv, FramesLeft, NextWakes
<1> QED BY <1>1 DEF FlashInv

LEMMA FlashLaunch == SpiInv /\ Flash /\ FlashInv /\ SpiLaunch => FlashInv'
<1> SUFFICES ASSUME SpiInv, Flash, FlashInv, SpiLaunch PROVE FlashInv'
  OBVIOUS
<1>1. /\ sst = "idle" /\ stx # <<>> /\ sst' = "shift" /\ sshift' = stx[1] /\ stx' = Tail(stx)
      /\ srx' = srx /\ cs' = cs /\ dev' = dev /\ sscript' = sscript /\ scode' = scode
  BY Shorter DEF SpiLaunch, SpiInv
<1>2. InFlight' = InFlight /\ InFlight # 0
  <2>1. Len(stx') = Len(stx) - 1 /\ Len(stx) \in Nat \ {0}
    BY <1>1, Shorter DEF SpiInv
  <2> QED BY <1>1, <2>1 DEF InFlight
<1>3. cs /\ Inside
  BY <1>2 DEF SpiInv, InStep, AtOp, FlashInv, Selects
<1>4. Sent' = Sent /\ Sent > 0 /\ First' = First
  <2>1. Sent' = Sent
    BY <1>1, <1>2 DEF Sent
  <2> QED BY <1>1, <1>2, <2>1, Counted DEF First
<1>5. InFrame' = InFrame
  BY <1>4 DEF InFrame
<1>6. ASSUME NEW p \in 2..8
      PROVE  Reading(p) => Reading(p)'
  BY <1>1, <1>4 DEF Reading
<1>7. Inside'
  BY <1>1, <1>3, <1>4, <1>5, <1>6 DEF Inside, NextWakes, AtOp
<1> QED BY <1>1, <1>3, <1>7, FlashStays DEF FlashInv

\* The byte is with the flash, and what it answers to the second of RDSR is its status.
LEMMA FlashByte == SpiInv /\ Flash /\ FlashInv /\ SpiByte => FlashInv'
<1> SUFFICES ASSUME SpiInv, Flash, FlashInv, SpiByte PROVE FlashInv'
  OBVIOUS
<1>1. /\ sst = "shift" /\ sst' = "idle" /\ stx' = stx
      /\ cs' = cs /\ sscript' = sscript /\ scode' = scode
  BY DEF SpiByte
<1>2. InFlight # 0 /\ InFlight' = InFlight - 1 /\ AtOp({"busy", "buf"})
  <2>1. InFlight # 0
    BY <1>1, Held
  <2>2. InFlight' = InFlight - 1
    BY <1>1, Held DEF InFlight
  <2> QED BY <2>1, <2>2 DEF SpiInv, InStep
<1>3. cs /\ Inside
  BY <1>2 DEF AtOp, FlashInv, Selects
<1>4. srx' = Append(srx, FlashReply)
  <2>1. SpiInv'
    BY EngineKeeps DEF SpiEngine
  <2>2. ~Bench'
    <3>1. dev'.kind = dev.kind
      BY DeviceStep DEF SpiInv, SpiNext, SpiEngine
    <3> QED BY <3>1 DEF Bench, Flash
  <2>3. ~sovr'
    BY <2>1, <2>2 DEF SpiInv
  <2>4. Reply = FlashReply
    BY DEF Reply, Flash
  <2>5. sovr' = TRUE \/ srx' = Append(srx, Reply)
    BY <1>3 DEF SpiByte
  <2> QED BY <2>3, <2>4, <2>5
<1>5. /\ dev' = [dev EXCEPT !.frame = Append(dev.frame, sshift)]
      /\ dev'.frame = Append(dev.frame, sshift) /\ dev'.ignored = dev.ignored
      /\ dev'.pd = dev.pd /\ dev'.wip = dev.wip /\ dev'.wel = dev.wel
  <2>1. dev' = [dev EXCEPT !.frame = Append(dev.frame, sshift)]
    BY <1>3 DEF SpiByte
  <2>2. dev = [x \in {"kind", "frame", "mem", "wel", "wip", "pd", "ignored"} |-> dev[x]]
    BY DEF SpiInv, Device, Flash
  <2> QED BY <2>1, <2>2
<1>6. /\ IsSeq(dev'.frame) /\ Len(dev'.frame) = Len(dev.frame) + 1 /\ dev'.frame # <<>>
      /\ (dev.frame # <<>> => dev'.frame[1] = dev.frame[1]) /\ (dev.frame = <<>> => dev'.frame[1] = sshift)
  <2>1. IsSeq(dev.frame)
    BY DEF FlashInv
  <2>2. /\ IsSeq(dev'.frame) /\ Len(dev.frame) \in Nat /\ Len(dev'.frame) = Len(dev.frame) + 1
        /\ \A i \in 1..Len(dev.frame) : dev'.frame[i] = dev.frame[i]
        /\ dev'.frame[Len(dev.frame) + 1] = sshift
    BY <1>5, <2>1, Longer
  <2>3. dev'.frame # <<>>
    <3>1. Len(dev'.frame) # 0
      BY <2>2
    <3> QED BY <3>1, NoElements
  <2>4. dev.frame # <<>> => 1 \in 1..Len(dev.frame)
    BY <2>2, Counted
  <2>5. dev.frame = <<>> => Len(dev.frame) + 1 = 1
    BY Counted
  <2> QED BY <2>2, <2>3, <2>4, <2>5
<1>7. Sent' = Sent /\ Sent > 0 /\ First' = First
  <2>1. Sent' = Sent /\ Sent > 0
    BY <1>2, <1>6, Counted DEF Sent
  <2>2. First' = First
    BY <1>1, <1>6 DEF First
  <2> QED BY <2>1, <2>2
<1>8. InFrame' = InFrame /\ InFrame = First
  BY <1>7 DEF InFrame
<1>9. ASSUME NEW p \in 2..8, InFrame = RDSR, Reading(p)
      PROVE  Reading(p)'
  <2>1. p \in {3, 6}
    <3>1. InStatus(scode, 1, p)
      BY <1>9 DEF Reading
    <3> QED BY <1>2, <3>1, Stage DEF AtOp
  <2>2. p = 6 => (~StillBusy(srx'[1]) => ~dev.wip)
    <3> SUFFICES ASSUME p = 6, dev.wip PROVE StillBusy(srx'[1])
      OBVIOUS
    <3>1. scode[1].k = "busy"
      <4>1. InStatus(scode, 1, p)
        BY <1>9 DEF Reading
      <4> QED BY <4>1, Stage
    <3>2. Level = 1
      BY <1>2, <3>1 DEF SpiInv, InStep, AtOp, Bench, Flash
    <3>3. Len(srx) = 0 /\ InFlight = 1
      BY <1>2, <3>2, Held DEF Level
    <3>4. Sent = 2
      BY <1>9 DEF Reading
    <3>5. dev.frame # <<>> /\ dev.frame[1] = RDSR
      <4>1. Len(dev.frame) = 1
        <5>1. PICK l \in Nat : l = Len(dev.frame) /\ Sent = l + InFlight
          BY Counted
        <5>2. 2 = l + 1
          BY <3>3, <3>4, <5>1
        <5>3. l = 1
          BY <5>2
        <5> QED BY <5>1, <5>3
      <4>2. dev.frame # <<>>
        BY <4>1, Counted
      <4> QED BY <1>8, <1>9, <4>2 DEF First
    <3>6. ~dev.pd
      BY DEF FlashInv
    <3>7. FlashReply = 1 + (IF dev.wel THEN 2 ELSE 0)
      BY <3>5, <3>6 DEF FlashReply
    <3>8. srx'[1] = FlashReply
      <4>1. IsSeq(srx)
        BY DEF SpiInv
      <4>2. Append(srx, FlashReply)[Len(srx) + 1] = FlashReply
        BY <4>1, Longer
      <4>3. Len(srx) + 1 = 1
        BY <3>3
      <4> QED BY <1>4, <4>2, <4>3
    <3> QED BY <3>7, <3>8 DEF StillBusy
  <2> QED BY <1>1, <1>5, <1>7, <1>9, <2>1, <2>2 DEF Reading
<1>10. Inside'
  BY <1>1, <1>3, <1>5, <1>7, <1>8, <1>9 DEF Inside, NextWakes, AtOp
<1> QED BY <1>1, <1>3, <1>5, <1>6, <1>10, FlashStays DEF FlashInv

LEMMA FlashEnds == SpiInv /\ Flash /\ FlashInv /\ FlashDone => FlashInv'
<1> SUFFICES ASSUME SpiInv, Flash, FlashInv, FlashDone PROVE FlashInv'
  OBVIOUS
<1>1. UNCHANGED <<sst, sshift, stx, srx, cs, sscript, scode>> /\ dev.wip /\ ~dev.pd
  BY DEF FlashDone, FlashInv
<1>2. dev'.frame = dev.frame /\ dev'.ignored = dev.ignored /\ dev'.pd = dev.pd /\ dev'.wip = FALSE /\ dev'.wel = FALSE
  <2>1. dev' = [dev EXCEPT !.wip = FALSE, !.wel = FALSE]
    BY DEF FlashDone
  <2>2. dev = [x \in {"kind", "frame", "mem", "wel", "wip", "pd", "ignored"} |-> dev[x]]
    BY DEF SpiInv, Device, Flash
  <2> QED BY <2>1, <2>2
<1>3. RDSR \notin Programs
  BY DEF RDSR, Programs, PP, SE, CE
<1>4. ~cs => Between'
  <2> SUFFICES ASSUME ~cs PROVE Between'
    OBVIOUS
  <2>1. Between
    BY DEF FlashInv
  <2>2. scode # <<>> => Command(scode[2]) = RDSR
    <3>1. scode # <<>> => Polls(scode, 1)
      BY <1>1, <2>1 DEF Between
    <3>2. Polls(scode, 1) => scode[1 + 2 - 1] = w25q_wait_ready[2]
      BY DEF Polls
    <3>3. Polls(scode, 1) => scode[2] = w25q_wait_ready[2]
      BY <3>2
    <3> QED BY <3>1, <3>3, ThePoll DEF Command
  <2> QED BY <1>1, <1>2, <1>3, <2>1, <2>2 DEF Between
<1>5. cs => Inside'
  <2> SUFFICES ASSUME cs PROVE Inside'
    OBVIOUS
  <2>1. Inside /\ InFrame = RDSR
    BY <1>1 DEF FlashInv, Inside
  <2>2. Sent' = Sent /\ InFrame' = InFrame
    BY <1>1, <1>2 DEF Sent, InFlight, InFrame, First
  <2>3. ASSUME NEW p \in 2..8
        PROVE  Reading(p) => Reading(p)'
    BY <1>1, <1>2, <2>2 DEF Reading
  <2> QED BY <1>1, <1>2, <1>3, <2>1, <2>2, <2>3 DEF Inside, NextWakes, AtOp
<1> QED BY <1>1, <1>2, <1>4, <1>5, FlashStays DEF FlashInv

LEMMA FlashReturn == SpiInv /\ Flash /\ FlashInv /\ SpiReturn => FlashInv'
<1> SUFFICES ASSUME SpiInv, Flash, FlashInv, SpiReturn PROVE FlashInv'
  OBVIOUS
<1>1. /\ scode = <<>> /\ sscript # <<>> /\ sscript' = Tail(sscript)
      /\ scode' = (IF sscript' = <<>> THEN <<>> ELSE Head(sscript').ops)
      /\ UNCHANGED <<sst, stx, srx, cs, dev>>
  BY DEF SpiReturn
<1>2. /\ IsSeq(sscript') /\ Len(sscript) \in Nat \ {0} /\ Len(sscript') = Len(sscript) - 1
      /\ \A c \in 1..Len(sscript) - 1 : sscript'[c] = sscript[c + 1]
  BY <1>1, Shorter DEF SpiInv
<1>3. ~cs /\ Between /\ ~dev.wip /\ (dev.pd => NextWakes)
  BY <1>1 DEF FlashInv, Between
<1>4. ASSUME NEW c \in 1..Len(sscript')
      PROVE  /\ UsesFlashLib(sscript'[c].ops)
             /\ c < Len(sscript') /\ Sleeps(sscript'[c].ops) => Command(sscript'[c + 1].ops[2]) = RELEASE
  <2>1. c + 1 \in 1..Len(sscript) /\ sscript'[c] = sscript[c + 1]
        /\ (c < Len(sscript') => c + 1 < Len(sscript) /\ sscript'[c + 1] = sscript[c + 1 + 1])
    BY <1>2
  <2> QED BY <2>1 DEF FlashInv
<1>5. CASE sscript' = <<>>
  <2>1. scode' = <<>> /\ Len(scode') = 0 /\ Len(sscript') = 0
    BY <1>1, <1>5, NoElements
  <2>2. NextWakes'
    BY <2>1 DEF NextWakes
  <2>3. FramesLeft'
    BY <2>1, <2>2 DEF FramesLeft
  <2>4. Between'
    BY <1>1, <1>3, <2>1, <2>2 DEF Between
  <2> QED BY <1>1, <1>3, <1>4, <2>1, <2>3, <2>4 DEF FlashInv
<1>6. CASE sscript' # <<>>
  <2>1. Len(sscript') # 0
    BY <1>2, <1>6, NoElements
  <2>2. 1 \in 1..Len(sscript') /\ Len(sscript) >= 2 /\ 1 \in 1..Len(sscript) - 1
    BY <1>2, <2>1
  <2>3. scode' = sscript'[1].ops /\ sscript'[1] = sscript[2]
    BY <1>1, <1>2, <1>6, <2>2, Shorter
  <2>4. UsesFlashLib(scode')
    BY <1>4, <2>2, <2>3
  <2>5. Sleeps(scode') => NextWakes'
    <3>1. Sleeps(scode') /\ 1 < Len(sscript') => Command(sscript'[2].ops[2]) = RELEASE
      <4>1. 1 < Len(sscript') /\ Sleeps(sscript'[1].ops) => Command(sscript'[1 + 1].ops[2]) = RELEASE
        BY <1>4, <2>2
      <4> QED BY <2>3, <4>1
    <3>2. Len(sscript') >= 2 => 1 < Len(sscript')
      BY <1>2
    <3> QED BY <3>1, <3>2 DEF NextWakes
  <2>6. Selects(scode'[1]) /\ Command(scode'[2]) \notin Programs
    BY <2>4 DEF UsesFlashLib
  <2>7. dev.pd => Command(scode'[2]) = RELEASE
    BY <1>3, <2>2, <2>3 DEF NextWakes
  <2>8. scode' # <<>>
    <3>1. Len(scode') >= 2
      BY <2>4 DEF UsesFlashLib
    <3>2. Len(scode') # 0
      BY <3>1
    <3> QED BY <3>2, NoElements
  <2>9. FramesLeft'
    BY <2>4, <2>5, <2>6, <2>8 DEF FramesLeft, UsesFlashLib, Selects
  <2>10. Between'
    BY <1>1, <1>3, <2>6, <2>7, <2>8 DEF Between
  <2> QED BY <1>1, <1>2, <1>3, <1>4, <2>6, <2>8, <2>9, <2>10 DEF FlashInv
<1> QED BY <1>5, <1>6

LEMMA FlashBegins == SpiInit /\ Flash => FlashInv
<1> SUFFICES ASSUME SpiInit, Flash PROVE FlashInv
  OBVIOUS
<1>1. PICK p \in SpiScripts : dev = DevInit(p.dev) /\ sscript = p.calls /\ scode = Head(p.calls).ops
  BY DEF SpiInit
<1>2. SpiInv /\ ~cs
  BY InitBegins DEF SpiInit, SpiReset
<1>3. dev = FlashInit /\ p.dev = "flash"
  BY <1>1 DEF DevInit, Flash
<1>4. dev.frame = <<>> /\ dev.wel = FALSE /\ dev.wip = FALSE /\ dev.pd = FALSE /\ dev.ignored = 0 /\ IsSeq(dev.frame)
  BY <1>3, NoElements DEF FlashInit
<1>5. /\ Len(sscript) \in Nat \ {0} /\ sscript = [c \in 1..Len(sscript) |-> sscript[c]]
      /\ \A c \in 1..Len(sscript) :
            /\ UsesFlashLib(sscript[c].ops)
            /\ c < Len(sscript) /\ Sleeps(sscript[c].ops) => Command(sscript[c + 1].ops[2]) = RELEASE
  BY <1>1, <1>3, SpiAssumption
<1>6. IsSeq(sscript) /\ sscript # <<>> /\ Head(sscript) = sscript[1] /\ 1 \in 1..Len(sscript)
  <2>1. IsSeq(sscript)
    BY <1>5, Listed
  <2>2. sscript # <<>>
    BY <1>5, <2>1, NoElements
  <2> QED BY <1>5, <2>1, <2>2, Shorter
<1>7. scode = sscript[1].ops
  BY <1>1, <1>6
<1>8. UsesFlashLib(scode)
  BY <1>5, <1>6, <1>7
<1>9. Sleeps(scode) => NextWakes
  <2>1. 1 < Len(sscript) /\ Sleeps(scode) => Command(sscript[1 + 1].ops[2]) = RELEASE
    BY <1>5, <1>6, <1>7
  <2>2. Len(sscript) >= 2 => 1 < Len(sscript)
    BY <1>5
  <2> QED BY <2>1, <2>2 DEF NextWakes
<1>10. Selects(scode[1]) /\ Command(scode[2]) \notin Programs /\ scode # <<>>
  <2>1. Len(scode) # 0
    <3>1. Len(scode) >= 2
      BY <1>8 DEF UsesFlashLib
    <3> QED BY <3>1
  <2> QED BY <1>8, <2>1, NoElements DEF UsesFlashLib
<1>11. FramesLeft
  BY <1>8, <1>9, <1>10 DEF FramesLeft, UsesFlashLib, Selects
<1>12. Between
  BY <1>4, <1>10 DEF Between
<1> QED BY <1>2, <1>4, <1>5, <1>10, <1>11, <1>12 DEF FlashInv

\* The status is read: before its deselect.
LEMMA StatusRead ==
  ASSUME SpiInv, Flash, FlashInv, SpiStatus
  PROVE  /\ scode # <<>> /\ scode[1].k = "status" /\ Len(scode) \in Nat \ {0, 1} /\ scode[2] = Cs(FALSE)
         /\ scode[2] = w25q_status[8] /\ cs /\ Inside /\ InFrame = RDSR
         /\ dev' = dev /\ cs' = cs /\ sscript' = sscript /\ Sent' = Sent /\ InFrame' = InFrame /\ Sent = 2
         /\ After(RDSR, scode, 2) /\ (~StillBusy(SpiRx) => ~dev.wip)
         /\ dev.wip => Len(scode) >= 3 /\ scode[3].k = "again"
<1>1. /\ scode # <<>> /\ scode[1].k = "status" /\ UNCHANGED <<sst, sshift, stx, cs, dev, sscript>>
  BY Held DEF SpiStatus, SpiAt, SpiReady
<1>2. sst = "idle" /\ stx = <<>> /\ Len(srx) = 1
  BY <1>1, Held DEF SpiInv, InStep, AtOp, Bench, Flash
<1>3. cs /\ Inside
  BY <1>1 DEF FlashInv, Selects
<1>4. Len(scode) \in Nat \ {0}
  BY <1>1, NoElements DEF SpiInv, WordsLeft
<1>5. InFrame = RDSR
  <2> SUFFICES ASSUME InFrame # RDSR PROVE FALSE
    OBVIOUS
  <2>1. Frame(InFrame, scode, 1)
    BY <1>3 DEF Inside
  <2>2. 1 \in 1..Len(scode) /\ \A i \in 1..1 - 1 : ~Deselects(scode[i])
    BY <1>4
  <2> QED BY <1>1, <2>1, <2>2 DEF Frame
<1>6. PICK p \in 2..8 : Reading(p)
  BY <1>3, <1>5 DEF Inside
<1>7. p = 7 /\ InStatus(scode, 1, p)
  <2>1. InStatus(scode, 1, p)
    BY <1>6 DEF Reading
  <2> QED BY <1>1, <2>1, Stage
<1>8. scode[2] = w25q_status[8] /\ Len(scode) >= 2
  <2>1. 1 + 8 - 7 <= Len(scode) /\ 8 \in 7..8 /\ \A q \in 7..8 : scode[1 + q - 7] = w25q_status[q]
    BY <1>7 DEF InStatus
  <2>2. scode[1 + 8 - 7] = w25q_status[8]
    BY <2>1
  <2> QED BY <1>4, <2>1, <2>2
<1>9. w25q_status[8] = Cs(FALSE)
  <2>1. w25q_wait_ready[8] = w25q_status[8]
    <3>1. \A i \in 1..8 : w25q_wait_ready[i] = w25q_status[i]
      BY ThePoll
    <3> QED BY <3>1
  <2>2. w25q_wait_ready[8] = Cs(FALSE)
    BY ThePoll
  <2> QED BY <2>1, <2>2
<1>10. Sent = 2 /\ After(RDSR, scode, 2) /\ (~StillBusy(srx[1]) => ~dev.wip)
       /\ (dev.wip => Len(scode) >= 3 /\ scode[3].k = "again")
  <2>1. Reading(7) /\ 9 - 7 = 2 /\ 10 - 7 = 3
    BY <1>6, <1>7
  <2> QED BY <2>1 DEF Reading
<1>11. SpiRx = srx[1]
  <2>1. srx # <<>>
    BY <1>2, Held
  <2>2. Head(srx) = srx[1]
    BY <2>1, Shorter DEF SpiInv
  <2> QED BY <2>1, <2>2 DEF SpiRx
<1>12. Sent' = Sent /\ InFrame' = InFrame
  <2>1. Sent' = Sent /\ First' = First
    BY <1>1 DEF Sent, First, InFlight
  <2>2. Sent > 0 /\ Sent' > 0
    BY <1>10, <2>1
  <2> QED BY <2>1, <2>2 DEF InFrame
<1>13. Len(scode) \in Nat \ {0, 1}
  BY <1>4, <1>8
<1>14. ~StillBusy(SpiRx) => ~dev.wip
  BY <1>10, <1>11, Zenon
<1> QED BY <1>1, <1>3, <1>5, <1>8, <1>9, <1>10, <1>12, <1>13, <1>14

\* What makes the rest of the code the deselect of a status that has been read.
LEMMA StatusEnds ==
  ASSUME SpiInv, Flash, FlashInv, SpiStatus, IsSeq(scode'), scode' # <<>>, scode'[1] = scode[2], FramesLeft',
         After(RDSR, scode', 1), Len(scode') > 1 => scode'[2].k # "again", dev.wip => Polls(scode', 2)
  PROVE  FlashInv'
<1>1. Len(scode') \in Nat \ {0}
  BY NoElements
<1>2. InStatus(scode', 1, 8)
  <2>1. 1 + 8 - 8 <= Len(scode')
    BY <1>1
  <2>2. \A q \in 8..8 : scode'[1 + q - 8] = w25q_status[q]
    BY StatusRead
  <2> QED BY <2>1, <2>2 DEF InStatus
<1>3. PICK p : p = 8
  OBVIOUS
<1>4. Reading(p)' /\ p \in 2..8
  BY <1>2, <1>3, StatusRead DEF Reading
<1>5. Inside'
  <2>1. NextWakes' <=> NextWakes
    BY StatusRead DEF NextWakes
  <2>2. Inside /\ InFrame' = InFrame /\ InFrame = RDSR /\ dev' = dev /\ Sent' # 0
    BY StatusRead
  <2> QED BY <1>4, <2>1, <2>2 DEF Inside
<1>6. cs' /\ ~Selects(scode'[1])
  BY StatusRead DEF Selects, Cs
<1> QED BY <1>5, <1>6, StatusRead DEF FlashInv

LEMMA StatusOnce ==
  ASSUME SpiInv, Flash, FlashInv, SpiStatus, ~(Len(scode) >= 3 /\ scode[3].k = "again")
  PROVE  FlashInv'
<1>1. /\ IsSeq(Tail(scode)) /\ Len(Tail(scode)) = Len(scode) - 1 /\ Len(scode) \in Nat \ {0, 1} /\ scode # <<>>
      /\ \A i \in 1..Len(scode) - 1 : Tail(scode)[i] = scode[i + 1]
  BY Shorter, StatusRead DEF SpiInv, WordsLeft
<1>2. scode' = Tail(scode)
  <2>1. ~(Len(Tail(scode)) >= 2 /\ Tail(scode)[2].k = "again")
    BY <1>1
  <2> QED BY <2>1 DEF SpiStatus
<1>3. Same(scode', scode, 1, 1) /\ IsSeq(scode') /\ Len(scode') = Len(scode) - 1
      /\ \A i \in 1..Len(scode) - 1 : scode'[i] = scode[i + 1]
  BY <1>1, <1>2, Behind DEF SpiInv, WordsLeft
<1>4. scode'[1] = scode[2] /\ scode' # <<>> /\ (Len(scode') > 1 => scode'[2] = scode[3])
  <2>1. Len(scode') # 0
    BY <1>1, <1>3
  <2>2. scode' # <<>>
    BY <1>3, <2>1, NoElements
  <2> QED BY <1>1, <1>3, <2>2
<1>5. FramesLeft'
  BY <1>1, <1>2, <1>4, FramesBehind, StatusRead DEF FlashInv, SpiInv, WordsLeft, Cs
<1>6. After(RDSR, scode', 1)
  <2>1. 1 \in Nat /\ 1 + 1 >= 1 /\ After(RDSR, scode, 1 + 1)
    BY StatusRead
  <2> QED BY <1>3, <2>1, ShiftAfter
<1>7. ~dev.wip
  BY StatusRead
<1>8. Len(scode') > 1 => scode'[2].k # "again"
  BY <1>1, <1>3, <1>4
<1> QED BY <1>3, <1>4, <1>5, <1>6, <1>7, <1>8, StatusEnds

\* The poll goes on: its nine accesses once more.
LEMMA StatusAgain ==
  ASSUME SpiInv, Flash, FlashInv, SpiStatus, Len(scode) >= 3, scode[3].k = "again"
  PROVE  FlashInv'
<1> DEFINE rest == Tail(scode)
           more == SubSeq(rest, 3, Len(rest))
<1>1. /\ IsSeq(rest) /\ Len(scode) \in Nat \ {0, 1, 2} /\ Len(rest) = Len(scode) - 1
      /\ \A i \in 1..Len(scode) - 1 : rest[i] = scode[i + 1]
  BY Shorter, StatusRead DEF SpiInv, WordsLeft
<1>2. rest[2] = scode[3] /\ Len(rest) >= 2 /\ IsSeq(scode)
  BY <1>1 DEF SpiInv, WordsLeft
<1>3. scode' = (IF StillBusy(SpiRx) THEN <<rest[1]>> \o w25q_wait_ready \o more ELSE <<rest[1]>> \o more)
  BY <1>2 DEF SpiStatus
<1>4. ~StillBusy(SpiRx) =>
        /\ IsSeq(scode') /\ Len(scode') = Len(scode) - 2 /\ scode'[1] = scode[2]
        /\ \A i \in 2..Len(scode) - 2 : scode'[i] = scode[i + 2]
  BY <1>2, <1>3, Resumed
<1>5. StillBusy(SpiRx) =>
        /\ IsSeq(scode') /\ Len(scode') = Len(scode) + 7 /\ scode'[1] = scode[2]
        /\ \A i \in 2..10 : scode'[i] = w25q_wait_ready[i - 1]
        /\ \A i \in 11..Len(scode) + 7 : scode'[i] = scode[i - 7]
  BY <1>2, <1>3, Resumed
<1> HIDE DEF rest, more
<1>6. FramesLeft /\ scode[2] = Cs(FALSE) /\ After(RDSR, scode, 2)
  BY StatusRead DEF FlashInv
<1>7. Len(scode) > 3 => Selects(scode[4]) /\ Len(scode) > 4 /\ scode[5].k \in {"push", "buf"} /\ Command(scode[5]) \notin Programs
  <2> SUFFICES ASSUME Len(scode) > 3
               PROVE  Selects(scode[4]) /\ Len(scode) > 4 /\ scode[5].k \in {"push", "buf"} /\ Command(scode[5]) \notin Programs
    OBVIOUS
  <2>1. 3 \in 1..Len(scode) /\ 3 < Len(scode)
    BY <1>1
  <2>2. Follow(scode[3], scode[3 + 1])
    BY <1>6, <2>1 DEF FramesLeft
  <2>3. Selects(scode[4])
    BY <2>2 DEF Follow
  <2>4. Len(scode) # 4
    BY <1>6, <2>3 DEF FramesLeft, Selects, Deselects
  <2>5. 4 \in 1..Len(scode) /\ 4 < Len(scode) /\ 4 \in {2 + 1, 2 + 2} /\ 4 + 1 = 5
    BY <1>1, <2>1, <2>4
  <2>6. Follow(scode[4], scode[4 + 1])
    BY <1>6, <2>5 DEF FramesLeft
  <2>7. scode[5].k \in {"push", "buf"}
    BY <2>3, <2>6 DEF Follow, Selects
  <2>8. RDSR # WREN
    BY DEF RDSR, WREN
  <2>9. Command(scode[4 + 1]) \notin Programs
    BY <1>6, <2>3, <2>5, <2>8 DEF After
  <2> QED BY <2>3, <2>5, <2>7, <2>9
<1>8. /\ \A i \in 4..Len(scode) :
          /\ scode[i].k \in {"cs", "push", "busy", "pop", "status", "buf", "again"}
          /\ i < Len(scode) => Follow(scode[i], scode[i + 1])
          /\ Selects(scode[i]) => i < Len(scode) /\ Frame(Command(scode[i + 1]), scode, i + 1)
  <2> SUFFICES ASSUME NEW i \in 4..Len(scode)
               PROVE  /\ scode[i].k \in {"cs", "push", "busy", "pop", "status", "buf", "again"}
                      /\ i < Len(scode) => Follow(scode[i], scode[i + 1])
                      /\ Selects(scode[i]) => i < Len(scode) /\ Frame(Command(scode[i + 1]), scode, i + 1)
    OBVIOUS
  <2>1. i \in 1..Len(scode)
    BY <1>1
  <2>2. Selects(scode[Len(scode)]) => FALSE
    BY <1>1, <1>6 DEF FramesLeft, Selects, Deselects
  <2>3. i = Len(scode) \/ i < Len(scode)
    BY <1>1
  <2> QED BY <1>6, <2>1, <2>2, <2>3 DEF FramesLeft
<1>9. Deselects(scode[Len(scode)]) \/ scode[Len(scode)].k = "again"
  BY <1>1, <1>6 DEF FramesLeft
<1>10. RDSR \notin Programs /\ RDSR # PWRDN /\ RDSR # WREN
  BY DEF RDSR, Programs, PP, SE, CE, PWRDN, WREN
<1>11. CASE ~StillBusy(SpiRx)
  <2>1. /\ IsSeq(scode') /\ Len(scode') = Len(scode) - 2 /\ scode'[1] = scode[2]
        /\ \A i \in 2..Len(scode) - 2 : scode'[i] = scode[i + 2]
    BY <1>4, <1>11
  <2>2. PICK n \in Nat : n = Len(scode') /\ Len(scode) = n + 2 /\ n >= 1
    BY <1>1, <2>1
  <2>3. Same(scode', scode, 2, 2)
    BY <1>1, <2>1, <2>2 DEF Same
  <2>4. scode' # <<>>
    <3>1. Len(scode') # 0
      BY <2>2
    <3> QED BY <3>1, NoElements
  <2>5. \A i \in 2..n : scode'[i] = scode[i + 2] /\ i + 2 \in 4..Len(scode)
    BY <2>1, <2>2
  <2>6. n > 1 => Selects(scode'[2]) /\ n > 2 /\ scode'[3] = scode[5]
    <3>1. n > 1 => scode'[2] = scode[4] /\ Len(scode) > 3
      <4>1. n > 1 => 2 \in 2..n /\ 2 + 2 = 4 /\ n + 2 > 3
        OBVIOUS
      <4> QED BY <2>2, <2>5, <4>1
    <3>2. n > 2 => scode'[3] = scode[5]
      <4>1. n > 2 => 3 \in 2..n /\ 3 + 2 = 5
        OBVIOUS
      <4> QED BY <2>5, <4>1
    <3>3. n > 1 => n > 2
      BY <1>7, <2>2, <3>1
    <3> QED BY <1>7, <3>1, <3>2, <3>3
  <2>7. ASSUME NEW i \in 1..n
        PROVE  /\ scode'[i].k \in {"cs", "push", "busy", "pop", "status", "buf", "again"}
               /\ i < n => Follow(scode'[i], scode'[i + 1])
               /\ Selects(scode'[i]) => i < n /\ Frame(Command(scode'[i + 1]), scode', i + 1)
    <3>1. CASE i = 1
      BY <1>6, <2>1, <2>6, <3>1 DEF Cs, Follow, Selects
    <3>2. CASE i # 1
      <4>1. i \in 2..n /\ i + 2 \in 4..Len(scode) /\ scode'[i] = scode[i + 2]
        BY <2>5, <3>2
      <4>2. (i < n <=> i + 2 < Len(scode)) /\ i + 1 \in Nat /\ i + 1 >= 2 /\ i + 1 + 2 = i + 2 + 1
        BY <2>2, <4>1
      <4>3. i < n => scode'[i + 1] = scode[i + 2 + 1]
        <5>1. i < n => i + 1 \in 2..n
          OBVIOUS
        <5> QED BY <2>5, <4>2, <5>1
      <4>4. /\ scode[i + 2].k \in {"cs", "push", "busy", "pop", "status", "buf", "again"}
            /\ i + 2 < Len(scode) => Follow(scode[i + 2], scode[i + 2 + 1])
            /\ Selects(scode[i + 2]) => i + 2 < Len(scode) /\ Frame(Command(scode[i + 2 + 1]), scode, i + 2 + 1)
        BY <1>8, <4>1
      <4>5. Selects(scode[i + 2]) => Frame(Command(scode[i + 2 + 1]), scode, i + 1 + 2)
        BY <4>2, <4>4
      <4>6. Selects(scode[i + 2]) => Frame(Command(scode[i + 2 + 1]), scode', i + 1)
        BY <2>3, <4>2, <4>5, ShiftFrame
      <4> QED BY <4>1, <4>2, <4>3, <4>4, <4>6
    <3> QED BY <3>1, <3>2
  <2>8. Deselects(scode'[n]) \/ scode'[n].k = "again"
    <3>1. CASE n = 1
      BY <1>6, <2>1, <3>1 DEF Cs, Deselects
    <3>2. CASE n # 1
      <4>1. n \in 2..n
        BY <2>2, <3>2
      <4>2. scode'[n] = scode[Len(scode)]
        BY <2>2, <2>5, <4>1
      <4> QED BY <1>9, <4>2
    <3> QED BY <3>1, <3>2
  <2>9. Sleeps(scode') => Sleeps(scode)
    <3> SUFFICES ASSUME NEW i \in 1..n - 1, Selects(scode'[i]), Command(scode'[i + 1]) = PWRDN
                 PROVE  Sleeps(scode)
      BY <2>2 DEF Sleeps
    <3>1. i # 1
      BY <1>6, <2>1 DEF Cs, Selects
    <3>2. i \in 2..n /\ i + 1 \in 2..n /\ i + 1 + 2 = i + 2 + 1 /\ i + 2 \in 1..n + 2 - 1
      BY <3>1
    <3>3. scode'[i] = scode[i + 2] /\ scode'[i + 1] = scode[i + 2 + 1]
      BY <2>5, <3>2
    <3>4. i + 2 \in 1..Len(scode) - 1
      BY <2>2, <3>2
    <3> QED BY <3>3, <3>4 DEF Sleeps
  <2>10. FramesLeft'
    BY <1>6, <2>1, <2>2, <2>4, <2>7, <2>8, <2>9, StatusRead DEF FramesLeft, NextWakes, Cs
  <2>11. After(RDSR, scode', 1)
    <3>1. ASSUME NEW j \in {1 + 1, 1 + 2}, j < n, Selects(scode'[j])
          PROVE  Command(scode'[j + 1]) \notin Programs
      <4>1. n > 1
        BY <2>2, <3>1
      <4>2. j # 3
        <5>1. scode'[3].k \in {"push", "buf"}
          BY <1>7, <2>2, <2>6, <4>1
        <5> QED BY <3>1, <5>1 DEF Selects
      <4>3. j = 2
        BY <4>2
      <4> QED BY <1>7, <2>2, <2>6, <4>1, <4>3
    <3> QED BY <1>10, <2>2, <3>1 DEF After
  <2>12. ~dev.wip
    BY <1>11, StatusRead
  <2>13. Len(scode') > 1 => scode'[2].k # "again"
    BY <2>2, <2>6 DEF Selects
  <2> QED BY <2>1, <2>4, <2>10, <2>11, <2>12, <2>13, StatusEnds
<1>12. CASE StillBusy(SpiRx)
  <2>1. /\ IsSeq(scode') /\ Len(scode') = Len(scode) + 7 /\ scode'[1] = scode[2]
        /\ \A i \in 2..10 : scode'[i] = w25q_wait_ready[i - 1]
        /\ \A i \in 11..Len(scode) + 7 : scode'[i] = scode[i - 7]
    BY <1>5, <1>12
  <2>2. PICK n \in Nat : n = Len(scode') /\ Len(scode) = n - 7 /\ n >= 10
    BY <1>1, <2>1
  <2>3. Same(scode', scode, -7, 11)
    BY <1>1, <2>1, <2>2 DEF Same
  <2>4. scode' # <<>>
    <3>1. Len(scode') # 0
      BY <2>2
    <3> QED BY <3>1, NoElements
  <2>5. \A i \in 11..n : scode'[i] = scode[i - 7] /\ i - 7 \in 4..Len(scode)
    BY <2>1, <2>2
  <2>6. /\ scode'[1] = Cs(FALSE) /\ scode'[2] = Cs(TRUE) /\ scode'[3] = [k |-> "push", b |-> RDSR]
        /\ scode'[4] = [k |-> "busy"] /\ scode'[5] = [k |-> "pop", keep |-> FALSE]
        /\ scode'[6] = [k |-> "push", b |-> FILL] /\ scode'[7] = [k |-> "busy"] /\ scode'[8] = [k |-> "status"]
        /\ scode'[9] = Cs(FALSE) /\ scode'[10] = [k |-> "again"]
    <3>1. /\ scode'[2] = w25q_wait_ready[1] /\ scode'[3] = w25q_wait_ready[2] /\ scode'[4] = w25q_wait_ready[3]
          /\ scode'[5] = w25q_wait_ready[4] /\ scode'[6] = w25q_wait_ready[5] /\ scode'[7] = w25q_wait_ready[6]
          /\ scode'[8] = w25q_wait_ready[7] /\ scode'[9] = w25q_wait_ready[8] /\ scode'[10] = w25q_wait_ready[9]
      BY <2>1
    <3> QED BY <1>6, <2>1, <3>1, ThePoll
  <2>7. n > 10 => Selects(scode'[11]) /\ n > 11 /\ scode'[12] = scode[5]
    <3>1. n > 10 => scode'[11] = scode[4] /\ Len(scode) > 3
      <4>1. n > 10 => 11 \in 11..n /\ 11 - 7 = 4 /\ n - 7 > 3
        OBVIOUS
      <4> QED BY <2>2, <2>5, <4>1
    <3>2. n > 11 => scode'[12] = scode[5]
      <4>1. n > 11 => 12 \in 11..n /\ 12 - 7 = 5
        OBVIOUS
      <4> QED BY <2>5, <4>1
    <3>3. n > 10 => n > 11
      BY <1>7, <2>2, <3>1
    <3> QED BY <1>7, <3>1, <3>2, <3>3
  <2>8. InStatus(scode', 3, 2)
    <3>1. 3 + 8 - 2 <= Len(scode')
      BY <2>2
    <3>2. \A q \in 2..8 : scode'[3 + q - 2] = w25q_wait_ready[q]
      <4>1. \A q \in 2..8 : 3 + q - 2 \in 2..10 /\ 3 + q - 2 - 1 = q
        OBVIOUS
      <4> QED BY <2>1, <4>1
    <3>3. \A q \in 2..8 : w25q_wait_ready[q] = w25q_status[q]
      <4>1. \A q \in 1..8 : w25q_wait_ready[q] = w25q_status[q]
        BY ThePoll
      <4> QED BY <4>1
    <3> QED BY <3>1, <3>2, <3>3 DEF InStatus
  <2>9. After(RDSR, scode', 9)
    <3>1. ASSUME NEW j \in {9 + 1, 9 + 2}, j < n, Selects(scode'[j])
          PROVE  Command(scode'[j + 1]) \notin Programs
      <4>1. j # 10
        BY <2>6, <3>1 DEF Selects
      <4>2. j = 11
        BY <4>1
      <4> QED BY <1>7, <2>2, <2>7, <3>1, <4>2
    <3> QED BY <1>10, <2>2, <3>1 DEF After
  <2>10. Frame(RDSR, scode', 3)
    BY <2>8, <2>9 DEF Frame
  <2>11. ASSUME NEW i \in 1..n
         PROVE  /\ scode'[i].k \in {"cs", "push", "busy", "pop", "status", "buf", "again"}
                /\ i < n => Follow(scode'[i], scode'[i + 1])
                /\ Selects(scode'[i]) => i < n /\ Frame(Command(scode'[i + 1]), scode', i + 1)
    <3>1. CASE i = 1
      BY <2>6, <3>1 DEF Cs, Follow, Selects
    <3>2. CASE i = 2
      <4>1. Command(scode'[3]) = RDSR /\ 2 < n
        BY <2>2, <2>6 DEF Command
      <4> QED BY <2>6, <2>10, <3>2, <4>1 DEF Cs, Follow, Selects
    <3>3. CASE i \in 3..9
      <4>1. i = 3 => Follow(scode'[i], scode'[i + 1]) /\ ~Selects(scode'[i])
        BY <2>6 DEF Cs, Follow, Selects
      <4>2. i = 4 => Follow(scode'[i], scode'[i + 1]) /\ ~Selects(scode'[i])
        BY <2>6 DEF Cs, Follow, Selects
      <4>3. i = 5 => Follow(scode'[i], scode'[i + 1]) /\ ~Selects(scode'[i])
        BY <2>6 DEF Cs, Follow, Selects
      <4>4. i = 6 => Follow(scode'[i], scode'[i + 1]) /\ ~Selects(scode'[i])
        BY <2>6 DEF Cs, Follow, Selects
      <4>5. i = 7 => Follow(scode'[i], scode'[i + 1]) /\ ~Selects(scode'[i])
        BY <2>6 DEF Cs, Follow, Selects
      <4>6. i = 8 => Follow(scode'[i], scode'[i + 1]) /\ ~Selects(scode'[i])
        BY <2>6 DEF Cs, Follow, Selects
      <4>7. i = 9 => Follow(scode'[i], scode'[i + 1]) /\ ~Selects(scode'[i])
        BY <2>6 DEF Cs, Follow, Selects
      <4>8. scode'[i].k \in {"cs", "push", "busy", "pop", "status", "buf", "again"}
        BY <2>6, <3>3 DEF Cs
      <4>9. i = 3 \/ i = 4 \/ i = 5 \/ i = 6 \/ i = 7 \/ i = 8 \/ i = 9
        BY <3>3
      <4> QED BY <4>1, <4>2, <4>3, <4>4, <4>5, <4>6, <4>7, <4>8, <4>9
    <3>4. CASE i = 10
      BY <2>6, <2>7, <3>4 DEF Follow, Selects
    <3>5. CASE i > 10
      <4>1. i \in 11..n /\ i - 7 \in 4..Len(scode) /\ scode'[i] = scode[i - 7]
        BY <2>5, <3>5
      <4>2. (i < n <=> i - 7 < Len(scode)) /\ i + 1 \in Nat /\ i + 1 >= 11 /\ i + 1 + (-7) = i - 7 + 1 /\ i + 1 - 7 = i - 7 + 1
        BY <2>2, <4>1
      <4>3. i < n => scode'[i + 1] = scode[i - 7 + 1]
        <5>1. i < n => i + 1 \in 11..n
          BY <4>1
        <5> QED BY <2>5, <4>2, <5>1
      <4>4. /\ scode[i - 7].k \in {"cs", "push", "busy", "pop", "status", "buf", "again"}
            /\ i - 7 < Len(scode) => Follow(scode[i - 7], scode[i - 7 + 1])
            /\ Selects(scode[i - 7]) => i - 7 < Len(scode) /\ Frame(Command(scode[i - 7 + 1]), scode, i - 7 + 1)
        BY <1>8, <4>1
      <4>5. Selects(scode[i - 7]) => Frame(Command(scode[i - 7 + 1]), scode, i + 1 + (-7))
        BY <4>2, <4>4
      <4>6. Selects(scode[i - 7]) => Frame(Command(scode[i - 7 + 1]), scode', i + 1)
        BY <2>3, <4>2, <4>5, ShiftFrame
      <4> QED BY <4>1, <4>2, <4>3, <4>4, <4>6
    <3>6. i = 1 \/ i = 2 \/ i \in 3..9 \/ i = 10 \/ i > 10
      OBVIOUS
    <3> QED BY <3>1, <3>2, <3>3, <3>4, <3>5, <3>6
  <2>12. Deselects(scode'[n]) \/ scode'[n].k = "again"
    <3>1. CASE n = 10
      BY <2>6, <3>1
    <3>2. CASE n # 10
      <4>1. n \in 11..n
        BY <2>2, <3>2
      <4>2. scode'[n] = scode[Len(scode)]
        BY <2>2, <2>5, <4>1
      <4> QED BY <1>9, <4>2
    <3> QED BY <3>1, <3>2
  <2>13. Sleeps(scode') => Sleeps(scode)
    <3> SUFFICES ASSUME NEW i \in 1..n - 1, Selects(scode'[i]), Command(scode'[i + 1]) = PWRDN
                 PROVE  Sleeps(scode)
      BY <2>2 DEF Sleeps
    <3>1. i # 1 /\ i # 3 /\ i # 4 /\ i # 5 /\ i # 6 /\ i # 7 /\ i # 8 /\ i # 9 /\ i # 10
      BY <2>6 DEF Cs, Selects
    <3>2. i # 2
      BY <1>10, <2>6 DEF Command
    <3>3. i \in 11..n /\ i + 1 \in 11..n /\ i + 1 - 7 = i - 7 + 1 /\ i - 7 \in 1..n - 7 - 1
      BY <3>1, <3>2
    <3>4. scode'[i] = scode[i - 7] /\ scode'[i + 1] = scode[i - 7 + 1]
      BY <2>5, <3>3
    <3>5. i - 7 \in 1..Len(scode) - 1
      BY <2>2, <3>3
    <3> QED BY <3>4, <3>5 DEF Sleeps
  <2>14. FramesLeft'
    BY <1>6, <2>2, <2>4, <2>6, <2>11, <2>12, <2>13, StatusRead DEF FramesLeft, NextWakes, Cs
  <2>15. After(RDSR, scode', 1)
    <3>1. ASSUME NEW j \in {1 + 1, 1 + 2}, j < n, Selects(scode'[j])
          PROVE  Command(scode'[j + 1]) \notin Programs
      <4>1. j # 3
        BY <2>6, <3>1 DEF Selects
      <4>2. j = 2
        BY <4>1
      <4> QED BY <1>10, <2>6, <4>2 DEF Command
    <3>2. scode'[1 + 1].k # "again"
      BY <2>6 DEF Cs
    <3> QED BY <1>10, <2>2, <3>1, <3>2 DEF After
  <2>16. Polls(scode', 2)
    <3>1. \A q \in 1..9 : 2 + q - 1 \in 2..10 /\ 2 + q - 1 - 1 = q
      OBVIOUS
    <3>2. \A q \in 1..9 : scode'[2 + q - 1] = w25q_wait_ready[q]
      BY <2>1, <3>1
    <3> QED BY <2>2, <3>2 DEF Polls
  <2>17. scode'[2].k # "again"
    BY <2>6 DEF Cs
  <2> QED BY <2>1, <2>4, <2>14, <2>15, <2>16, <2>17, StatusEnds
<1> QED BY <1>11, <1>12

\* No driver of the flash reads or clears the overrun bit.
LEMMA NoOverrun ==
  ASSUME SpiInv, Flash, FlashInv
  PROVE  ~SpiOvr /\ ~SpiClearOvr
<1> SUFFICES ASSUME SpiOvr \/ SpiClearOvr PROVE FALSE
  OBVIOUS
<1>1. scode # <<>> /\ scode[1].k \in {"ovr", "w1c"}
  BY Held DEF SpiOvr, SpiClearOvr, SpiAt, SpiReady
<1>2. 1 \in 1..Len(scode)
  BY <1>1, Shorter DEF SpiInv, WordsLeft
<1> QED BY <1>1, <1>2 DEF FlashInv, FramesLeft

LEMMA FlashKeeps == SpiInv /\ (Flash => FlashInv) /\ [SpiNext]_spiVars => (Flash => FlashInv)'
<1> SUFFICES ASSUME SpiInv, Flash => FlashInv, [SpiNext]_spiVars, Flash' PROVE FlashInv'
  OBVIOUS
<1>1. Flash
  <2>1. CASE SpiNext
    BY <2>1, DeviceStep DEF SpiInv, Flash
  <2>2. CASE UNCHANGED spiVars
    BY <2>2 DEF spiVars, Flash
  <2> QED BY <2>1, <2>2
<1>2. FlashInv
  BY <1>1
<1>3. CASE UNCHANGED spiVars
  <2>1. UNCHANGED <<sst, sshift, stx, srx, cs, dev, sscript, scode>>
    BY <1>3 DEF spiVars
  <2>2. Sent' = Sent /\ First' = First /\ InFrame' = InFrame
    BY <2>1 DEF Sent, First, InFrame, InFlight
  <2>3. Between' <=> Between
    BY <2>1 DEF Between, NextWakes
  <2>4. Inside' <=> Inside
    BY <2>1, <2>2 DEF Inside, NextWakes, Reading, AtOp
  <2> QED BY <1>2, <2>1, <2>3, <2>4 DEF FlashInv, FramesLeft, NextWakes
<1>4. CASE SpiCpu
  <2>1. CASE SpiCs
    BY <1>1, <1>2, <2>1, FlashSelect, FlashDeselect
  <2>2. CASE SpiPush
    BY <1>1, <1>2, <2>2, FlashPush
  <2>3. CASE SpiBusyWait \/ SpiPop
    BY <1>1, <1>2, <2>3, FlashWait
  <2>4. CASE SpiStatus
    BY <1>1, <1>2, <2>4, StatusOnce, StatusAgain
  <2>5. CASE SpiBufPush \/ SpiBufPop
    BY <1>1, <1>2, <2>5, FlashBufPush, FlashBufPop
  <2>6. CASE SpiReturn
    BY <1>1, <1>2, <2>6, FlashReturn
  <2> QED BY <1>1, <1>2, <1>4, <2>1, <2>2, <2>3, <2>4, <2>5, <2>6, NoOverrun DEF SpiCpu
<1>5. CASE SpiEngine
  BY <1>1, <1>2, <1>5, FlashLaunch, FlashByte DEF SpiEngine
<1>6. CASE FlashDone
  BY <1>1, <1>2, <1>6, FlashEnds
<1> QED BY <1>3, <1>4, <1>5, <1>6 DEF SpiNext

\* What is left of the calls on w25q.h is whole frames, each of a command that the flash heeds when it comes.
THEOREM FlashInvariant == SpiSpec => [](Flash => FlashInv)
<1>1. SpiInit => (Flash => FlashInv)
  BY FlashBegins
<1> QED BY <1>1, FlashKeeps, SpiInvariant, PTL DEF SpiSpec

\* The flash heeds every command of w25q.h: none reaches it while w25q_wait_ready has not seen its busy bit
\* clear, none but the wake after w25q_power_down, and no program or erase without its write enable.
THEOREM FlashHeeded == SpiSpec => []FlashHeedsAll
<1>1. (Flash => FlashInv) => FlashHeedsAll
  BY DEF Flash, FlashInv, FlashHeedsAll
<1> QED BY <1>1, FlashInvariant, PTL

-----------------------------------------------------------------------------
(***************************************************************************)
(* The calls of spi.h and w25q.h are of the kind the theorems assume.      *)
(***************************************************************************)
LEMMA AsList ==
  ASSUME NEW s, IsSeq(s)
  PROVE  Len(s) \in Nat /\ s = [i \in 1..Len(s) |-> s[i]]
<1> DEFINE S == {s[i] : i \in 1..Len(s)}
<1>1. s \in Seq(S)
  BY DEF IsSeq
<1> HIDE DEF S
<1>2. s \in [1..Len(s) -> S] /\ Len(s) \in Nat
  BY <1>1
<1> QED BY <1>2

LEMMA SpiJoin ==
  ASSUME NEW kind, NEW a, NEW b, UsesSpiLib(kind, a), UsesSpiLib(kind, b)
  PROVE  UsesSpiLib(kind, a \o b)
<1> DEFINE t == a \o b
<1>1. IsSeq(a) /\ IsSeq(b)
  <2>1. Len(a) \in Nat /\ a = [i \in 1..Len(a) |-> a[i]] /\ Len(b) \in Nat /\ b = [i \in 1..Len(b) |-> b[i]]
    BY DEF UsesSpiLib
  <2> QED BY <2>1, Listed
<1>2. PICK m, n : m = Len(a) /\ n = Len(b) /\ m \in Nat /\ n \in Nat
  BY DEF UsesSpiLib
<1>3. IsSeq(t) /\ Len(t) = m + n /\ (\A i \in 1..m : t[i] = a[i]) /\ (\A i \in 1..n : t[m + i] = b[i])
  BY <1>1, <1>2, Joined
<1>4. (a = <<>> <=> m = 0) /\ (b = <<>> <=> n = 0) /\ (t = <<>> <=> m + n = 0)
  BY <1>1, <1>2, <1>3, NoElements
<1> HIDE DEF t
<1>5. t = [i \in 1..Len(t) |-> t[i]]
  BY <1>3, AsList
<1>6. ASSUME NEW i \in 1..m + n
      PROVE  (i \in 1..m /\ t[i] = a[i]) \/ \E j \in 1..n : i = m + j /\ t[i] = b[j]
  <2>1. CASE i <= m
    BY <1>3, <2>1
  <2>2. CASE i > m
    <3>1. i - m \in 1..n /\ m + (i - m) = i
      BY <1>2, <2>2
    <3> QED BY <1>3, <3>1
  <2> QED BY <1>2, <2>1, <2>2
<1>7. ASSUME NEW i \in 1..m + n - 1
      PROVE  Fits(kind, t[i], t[i + 1])
  <2>1. CASE i < m
    <3>1. i \in 1..m - 1 /\ i \in 1..m /\ i + 1 \in 1..m
      BY <1>2, <2>1
    <3>2. t[i] = a[i] /\ t[i + 1] = a[i + 1]
      BY <1>3, <3>1
    <3> QED BY <1>2, <3>1, <3>2 DEF UsesSpiLib
  <2>2. CASE i = m
    <3>1. m \in 1..m /\ 1 \in 1..n /\ m # 0 /\ n # 0
      BY <1>2, <2>2
    <3>2. t[i] = a[m] /\ t[i + 1] = b[1] /\ a # <<>> /\ b # <<>>
      BY <1>3, <1>4, <2>2, <3>1
    <3>3. /\ a[m].k # "push" /\ b[1].k # "busy"
          /\ kind # "bench" => a[m].k # "busy" /\ b[1].k \notin {"pop", "status"}
      BY <1>2, <3>2 DEF UsesSpiLib
    <3> QED BY <3>2, <3>3 DEF Fits
  <2>3. CASE i > m
    <3>1. PICK j : j = i - m
      OBVIOUS
    <3>2. j \in 1..n - 1 /\ j \in 1..n /\ j + 1 \in 1..n /\ m + j = i /\ m + (j + 1) = i + 1
      BY <1>2, <2>3, <3>1
    <3>3. t[i] = b[j] /\ t[i + 1] = b[j + 1]
      BY <1>3, <3>2
    <3> QED BY <1>2, <3>2, <3>3 DEF UsesSpiLib
  <2> QED BY <1>2, <2>1, <2>2, <2>3
<1>8. ASSUME t # <<>>
      PROVE  /\ t[1].k # "busy" /\ t[Len(t)].k # "push"
             /\ kind # "bench" => t[1].k \notin {"pop", "status"} /\ t[Len(t)].k # "busy"
  <2>1. t[1].k # "busy" /\ (kind # "bench" => t[1].k \notin {"pop", "status"})
    <3>1. CASE m = 0
      <4>1. 1 \in 1..n /\ m + 1 = 1 /\ b # <<>>
        BY <1>2, <1>4, <1>8, <3>1
      <4>2. t[1] = b[1]
        BY <1>3, <4>1
      <4> QED BY <4>1, <4>2 DEF UsesSpiLib
    <3>2. CASE m # 0
      <4>1. 1 \in 1..m /\ a # <<>>
        BY <1>2, <1>4, <3>2
      <4>2. t[1] = a[1]
        BY <1>3, <4>1
      <4> QED BY <4>1, <4>2 DEF UsesSpiLib
    <3> QED BY <3>1, <3>2
  <2>2. t[Len(t)].k # "push" /\ (kind # "bench" => t[Len(t)].k # "busy")
    <3>1. CASE n = 0
      <4>1. m \in 1..m /\ m + n = m /\ a # <<>>
        BY <1>2, <1>4, <1>8, <3>1
      <4>2. t[Len(t)] = a[m]
        BY <1>3, <4>1
      <4> QED BY <1>2, <4>1, <4>2 DEF UsesSpiLib
    <3>2. CASE n # 0
      <4>1. n \in 1..n /\ b # <<>>
        BY <1>2, <1>4, <3>2
      <4>2. t[Len(t)] = b[n]
        BY <1>3, <4>1
      <4> QED BY <1>2, <4>1, <4>2 DEF UsesSpiLib
    <3> QED BY <3>1, <3>2
  <2> QED BY <2>1, <2>2
<1>9. ASSUME NEW i \in 1..m + n, t[i].k = "buf"
      PROVE  /\ kind # "bench" /\ t[i].b \in Seq(0..255)
             /\ t[i] = [k |-> "buf", b |-> t[i].b, pushed |-> 0, popped |-> 0, keep |-> t[i].keep]
  <2>1. CASE i \in 1..m /\ t[i] = a[i]
    BY <1>2, <1>9, <2>1 DEF UsesSpiLib
  <2>2. CASE \E j \in 1..n : i = m + j /\ t[i] = b[j]
    BY <1>2, <1>9, <2>2 DEF UsesSpiLib
  <2> QED BY <1>6, <2>1, <2>2
<1>10. Len(t) \in Nat /\ (\A i \in 1..Len(t) - 1 : Fits(kind, t[i], t[i + 1]))
  BY <1>2, <1>3, <1>7
<1>11. \A i \in 1..Len(t) : t[i].k = "buf" =>
         /\ kind # "bench" /\ t[i].b \in Seq(0..255)
         /\ t[i] = [k |-> "buf", b |-> t[i].b, pushed |-> 0, popped |-> 0, keep |-> t[i].keep]
  BY <1>3, <1>9
<1>12. UsesSpiLib(kind, t)
  BY <1>5, <1>8, <1>10, <1>11 DEF UsesSpiLib
<1> QED BY <1>12 DEF t

\* The transfers of spi.h are.
LEMMA SpiUnits ==
  ASSUME NEW kind, NEW b
  PROVE  /\ UsesSpiLib(kind, spi_select) /\ UsesSpiLib(kind, spi_deselect)
         /\ UsesSpiLib(kind, spi_send1(b)) /\ UsesSpiLib(kind, spi_transfer(b))
         /\ UsesSpiLib(kind, <<[k |-> "push", b |-> b], [k |-> "busy"], [k |-> "status"]>>)
         /\ UsesSpiLib(kind, <<[k |-> "again"]>>)
         /\ UsesSpiLib(kind, <<>>)
<1>1. ASSUME NEW e, e.k \notin {"push", "busy", "pop", "status", "buf"}
      PROVE  UsesSpiLib(kind, <<e>>)
  <2>1. IsSeq(<<e>>) /\ Len(<<e>>) = 1 /\ <<e>>[1] = e
    BY Few
  <2>2. <<e>> = [i \in 1..Len(<<e>>) |-> <<e>>[i]]
    BY <2>1 DEF IsSeq
  <2> QED BY <1>1, <2>1, <2>2 DEF UsesSpiLib
<1>2. UsesSpiLib(kind, spi_select) /\ UsesSpiLib(kind, spi_deselect) /\ UsesSpiLib(kind, <<[k |-> "again"]>>)
  BY <1>1 DEF spi_select, spi_deselect, Cs
<1>3. ASSUME NEW e, e.k \in {"pop", "status"}, NEW t, IsSeq(t), Len(t) = 3,
             t[1] = [k |-> "push", b |-> b], t[2] = [k |-> "busy"], t[3] = e
      PROVE  UsesSpiLib(kind, t)
  <2>1. t[1].k = "push" /\ t[2].k = "busy"
    BY <1>3
  <2>2. t = [i \in 1..Len(t) |-> t[i]]
    BY <1>3, AsList
  <2>3. Fits(kind, t[1], t[2]) /\ Fits(kind, t[2], t[3])
    BY <1>3, <2>1 DEF Fits
  <2>4. ASSUME NEW i \in 1..2
        PROVE  Fits(kind, t[i], t[i + 1])
    <3>1. i = 1 \/ i = 2
      OBVIOUS
    <3> QED BY <2>3, <3>1
  <2>5. ASSUME NEW i \in 1..3
        PROVE  t[i].k # "buf"
    <3>1. i = 1 \/ i = 2 \/ i = 3
      OBVIOUS
    <3> QED BY <1>3, <2>1, <3>1
  <2>6. t # <<>>
    BY <1>3, NoElements
  <2> QED BY <1>3, <2>1, <2>2, <2>4, <2>5, <2>6 DEF UsesSpiLib
<1> DEFINE T(e) ==
             UsesSpiLib(kind, <<[k |-> "push", b |-> b], [k |-> "busy"], e>>) /\ UsesSpiLib(kind, SpiWord(b) \o <<e>>)
<1>4. ASSUME NEW e, e.k \in {"pop", "status"}
      PROVE  T(e)
  <2> DEFINE p == [k |-> "push", b |-> b]
             w == [k |-> "busy"]
             t == <<p, w, e>>
             u == SpiWord(b) \o <<e>>
  <2>1. IsSeq(t) /\ Len(t) = 3 /\ t[1] = p /\ t[2] = w /\ t[3] = e
    <3> HIDE DEF p, w
    <3>1. \A x, z, v : /\ IsSeq(<<x, z, v>>) /\ Len(<<x, z, v>>) = 3
                       /\ <<x, z, v>>[1] = x /\ <<x, z, v>>[2] = z /\ <<x, z, v>>[3] = v
      BY Few
    <3> QED BY <3>1
  <2>2. IsSeq(u) /\ Len(u) = 3 /\ u[1] = p /\ u[2] = w /\ u[3] = e
    <3> DEFINE s == SpiWord(b)
               r == <<e>>
    <3>1. IsSeq(s) /\ Len(s) = 2 /\ s[1] = p /\ s[2] = w
      BY Few DEF SpiWord
    <3>2. IsSeq(r) /\ Len(r) = 1 /\ r[1] = e
      BY Few
    <3> HIDE DEF s, r, p, w
    <3>3. /\ IsSeq(s \o r) /\ Len(s \o r) = 3 /\ \A i \in 1..2 : (s \o r)[i] = s[i]
          /\ \A i \in 1..1 : (s \o r)[2 + i] = r[i]
      <4>1. IsSeq(s) /\ IsSeq(r)
        BY <3>1, <3>2
      <4>2. Len(s) = 2 /\ Len(r) = 1
        BY <3>1, <3>2
      <4>3. /\ IsSeq(s \o r) /\ Len(s \o r) = Len(s) + Len(r) /\ \A i \in 1..Len(s) : (s \o r)[i] = s[i]
            /\ \A i \in 1..Len(r) : (s \o r)[Len(s) + i] = r[i]
        BY <4>1, Joined
      <4> QED BY <4>2, <4>3
    <3>4. (s \o r)[1] = s[1] /\ (s \o r)[2] = s[2] /\ (s \o r)[3] = r[1]
      BY <3>3
    <3> QED BY <3>1, <3>2, <3>3, <3>4 DEF s, r
  <2> HIDE DEF t, u
  <2>3. UsesSpiLib(kind, t) /\ UsesSpiLib(kind, u)
    BY <1>3, <1>4, <2>1, <2>2
  <2> QED BY <2>3 DEF t, u
<1>5. /\ UsesSpiLib(kind, spi_send1(b)) /\ UsesSpiLib(kind, spi_transfer(b))
      /\ UsesSpiLib(kind, <<[k |-> "push", b |-> b], [k |-> "busy"], [k |-> "status"]>>)
  <2>1. PICK d, e, f : d = [k |-> "pop", keep |-> TRUE] /\ e = [k |-> "pop", keep |-> FALSE] /\ f = [k |-> "status"]
    OBVIOUS
  <2>2. d.k \in {"pop", "status"} /\ e.k \in {"pop", "status"} /\ f.k \in {"pop", "status"}
    BY <2>1
  <2> HIDE DEF T
  <2>3. T(d) /\ T(e) /\ T(f)
    BY <1>4, <2>2
  <2> QED BY <2>1, <2>3 DEF T, spi_send1, spi_transfer
<1>6. UsesSpiLib(kind, <<>>)
  BY DEF UsesSpiLib
<1> QED BY <1>2, <1>5, <1>6

LEMMA SpiWindow ==
  ASSUME NEW kind, kind # "bench", NEW b \in Seq(0..255), NEW keep
  PROVE  UsesSpiLib(kind, spi_transfer_buf(b, keep))
<1>1. PICK e : e = [k |-> "buf", b |-> b, pushed |-> 0, popped |-> 0, keep |-> keep]
  OBVIOUS
<1>2. e.k = "buf" /\ e.b = b /\ e.keep = keep
  BY <1>1
<1>3. e = [k |-> "buf", b |-> e.b, pushed |-> 0, popped |-> 0, keep |-> e.keep]
  BY <1>1, <1>2
<1>4. UsesSpiLib(kind, <<e>>)
  <2>1. IsSeq(<<e>>) /\ Len(<<e>>) = 1 /\ <<e>>[1] = e
    BY Few
  <2>2. <<e>> = [i \in 1..Len(<<e>>) |-> <<e>>[i]]
    BY <2>1, AsList
  <2> QED BY <1>2, <1>3, <2>1, <2>2 DEF UsesSpiLib
<1>5. UsesSpiLib(kind, <<>>)
  BY SpiUnits
<1> QED BY <1>1, <1>4, <1>5 DEF spi_transfer_buf

\* What is sent and taken between a select and its deselect: transfers, the first with the command.
Transfers(b) == IsSeq(b) /\ \A i \in 1..Len(b) : b[i].k \in {"push", "busy", "pop", "buf"}
Body(b) == Transfers(b) /\ b # <<>> /\ b[1].k \in {"push", "buf"}

LEMMA Framed ==
  ASSUME NEW b, IsSeq(b), NEW n, n = Len(b)
  PROVE  LET f == spi_framed(b)
         IN  /\ IsSeq(f) /\ n \in Nat /\ Len(f) = n + 2 /\ f[1] = Cs(TRUE) /\ f[n + 2] = Cs(FALSE)
             /\ \A i \in 1..n : f[i + 1] = b[i]
<1> DEFINE a == spi_select \o b
           f == a \o spi_deselect
<1>1. IsSeq(spi_select) /\ Len(spi_select) = 1 /\ spi_select[1] = Cs(TRUE)
  BY Few DEF spi_select
<1>2. IsSeq(spi_deselect) /\ Len(spi_deselect) = 1 /\ spi_deselect[1] = Cs(FALSE)
  BY Few DEF spi_deselect
<1>3. n \in Nat
  BY NoElements
<1>4. IsSeq(a) /\ Len(a) = 1 + n /\ a[1] = Cs(TRUE) /\ \A i \in 1..n : a[1 + i] = b[i]
  <2>1. IsSeq(spi_select)
    BY <1>1
  <2>2. /\ IsSeq(a) /\ Len(a) = Len(spi_select) + Len(b) /\ \A i \in 1..Len(spi_select) : a[i] = spi_select[i]
        /\ \A i \in 1..Len(b) : a[Len(spi_select) + i] = b[i]
    BY <2>1, Joined
  <2> HIDE DEF a
  <2>3. Len(spi_select) = 1 /\ spi_select[1] = Cs(TRUE) /\ 1 \in 1..1
    BY <1>1
  <2>4. IsSeq(a) /\ Len(a) = 1 + n
    BY <2>2, <2>3
  <2>5. a[1] = Cs(TRUE)
    BY <2>2, <2>3
  <2>6. \A i \in 1..n : a[1 + i] = b[i]
    BY <2>2, <2>3
  <2> QED BY <2>4, <2>5, <2>6
<1> HIDE DEF a
<1>5. /\ IsSeq(f) /\ Len(f) = 1 + n + 1 /\ (\A i \in 1..1 + n : f[i] = a[i]) /\ f[1 + n + 1] = Cs(FALSE)
  <2>1. IsSeq(spi_deselect) /\ IsSeq(a)
    BY <1>2, <1>4
  <2>2. /\ IsSeq(f) /\ Len(f) = Len(a) + Len(spi_deselect) /\ \A i \in 1..Len(a) : f[i] = a[i]
        /\ \A i \in 1..Len(spi_deselect) : f[Len(a) + i] = spi_deselect[i]
    BY <2>1, Joined
  <2> HIDE DEF f
  <2>3. 1 \in 1..1
    OBVIOUS
  <2> QED BY <1>2, <1>4, <2>2, <2>3
<1>6. spi_framed(b) = f
  BY DEF spi_framed, a
<1> HIDE DEF f
<1>7. 1 \in 1..1 + n /\ \A i \in 1..n : i + 1 \in 1..1 + n /\ i + 1 = 1 + i
  BY <1>3
<1>8. f[1] = Cs(TRUE) /\ \A i \in 1..n : f[i + 1] = b[i]
  BY <1>4, <1>5, <1>7
<1>9. 1 + n + 1 = n + 2
  BY <1>3
<1> QED BY <1>3, <1>5, <1>6, <1>8, <1>9

\* A frame of its own: neither a status nor a program or erase.
LEMMA OneFrame ==
  ASSUME NEW b, Body(b), Command(b[1]) \notin Programs, Command(b[1]) # RDSR
  PROVE  UsesFlashLib(spi_framed(b)) /\ (Sleeps(spi_framed(b)) => Command(b[1]) = PWRDN)
<1> DEFINE f == spi_framed(b)
           F == Command(b[1])
<1>1. PICK n : n = Len(b)
  OBVIOUS
<1>2. /\ IsSeq(f) /\ n \in Nat \ {0} /\ Len(f) = n + 2 /\ f[1] = Cs(TRUE) /\ f[n + 2] = Cs(FALSE)
      /\ \A i \in 1..n : f[i + 1] = b[i]
  <2>1. IsSeq(b) /\ b # <<>>
    BY DEF Body, Transfers
  <2>2. n # 0
    BY <1>1, <2>1, NoElements
  <2> QED BY <1>1, <2>1, <2>2, Framed
<1> HIDE DEF f
<1>3. Command(f[2]) = F /\ f[2].k \in {"push", "buf"}
  <2>1. 1 \in 1..n /\ 1 + 1 = 2
    BY <1>2
  <2>2. f[2] = b[1]
    BY <1>2, <2>1
  <2> QED BY <2>2 DEF Body, Transfers
<1> HIDE DEF F
<1>4. \A i \in 2..n + 1 : f[i].k \in {"push", "busy", "pop", "buf"}
  <2> SUFFICES ASSUME NEW i \in 2..n + 1 PROVE f[i].k \in {"push", "busy", "pop", "buf"}
    OBVIOUS
  <2>1. i - 1 \in 1..n /\ i - 1 + 1 = i
    BY <1>2
  <2>2. f[i] = b[i - 1]
    BY <1>2, <2>1
  <2> QED BY <1>1, <2>1, <2>2 DEF Body, Transfers
<1>5. \A i \in 1..n + 2 : i = 1 \/ i = n + 2 \/ i \in 2..n + 1
  BY <1>2
<1>6. After(F, f, n + 2)
  <2>1. ~(n + 2 < Len(f)) /\ \A i \in {n + 2 + 1, n + 2 + 2} : ~(i < Len(f))
    BY <1>2
  <2>2. F \notin Programs /\ n + 2 = Len(f)
    BY <1>2 DEF F
  <2> QED BY <2>1, <2>2 DEF After
<1>7. Frame(F, f, 2)
  <2>1. F # RDSR
    BY DEF F
  <2>2. ASSUME NEW d \in 2..n + 2
        PROVE  f[d].k # "status" /\ (Deselects(f[d]) => After(F, f, d))
    <3>1. d = n + 2 \/ d \in 2..n + 1
      BY <1>2
    <3> QED BY <1>2, <1>4, <1>6, <3>1 DEF Cs, Deselects
  <2> QED BY <1>2, <2>1, <2>2 DEF Frame
<1>8. ASSUME NEW i \in 1..n + 2
      PROVE  /\ f[i].k \in {"cs", "push", "busy", "pop", "status", "buf", "again"}
             /\ i < n + 2 => Follow(f[i], f[i + 1])
             /\ Selects(f[i]) => Frame(Command(f[i + 1]), f, i + 1)
  <2>1. CASE i = 1
    <3>1. Follow(f[1], f[1 + 1])
      BY <1>2, <1>3 DEF Follow, Cs
    <3>2. f[1].k = "cs" /\ 1 + 1 = 2
      BY <1>2 DEF Cs
    <3>3. Frame(Command(f[1 + 1]), f, 1 + 1)
      BY <1>3, <1>7, <3>2
    <3> QED BY <2>1, <3>1, <3>2, <3>3
  <2>2. CASE i = n + 2
    BY <1>2, <2>2 DEF Cs, Selects
  <2>3. CASE i \in 2..n + 1
    <3>1. f[i].k \in {"push", "busy", "pop", "buf"}
      BY <1>4, <2>3
    <3>2. i + 1 = n + 2 \/ i + 1 \in 2..n + 1
      BY <1>2, <2>3
    <3>3. f[i + 1].k \in {"push", "busy", "pop", "buf"} \/ f[i + 1] = Cs(FALSE)
      BY <1>2, <1>4, <3>2
    <3> QED BY <3>1, <3>3 DEF Follow, Selects, Cs
  <2> QED BY <1>5, <2>1, <2>2, <2>3
<1>9. UsesFlashLib(f)
  <2>1. Len(f) >= 2
    BY <1>2
  <2> QED BY <1>2, <1>3, <1>8, <2>1 DEF UsesFlashLib, F, Selects, Deselects, Cs
<1>10. Sleeps(f) => F = PWRDN
  <2> SUFFICES ASSUME NEW i \in 1..Len(f) - 1, Selects(f[i]), Command(f[i + 1]) = PWRDN PROVE F = PWRDN
    BY DEF Sleeps
  <2>1. i = 1 \/ i \in 2..n + 1
    BY <1>2
  <2>2. i = 1
    BY <1>4, <2>1 DEF Selects
  <2> QED BY <1>3, <2>2
<1> QED BY <1>9, <1>10 DEF f, F

\* A command and more transfers.
LEMMA BodyJoin ==
  ASSUME NEW a, Body(a), NEW b, Transfers(b), NEW t, t = a \o b
  PROVE  Body(t) /\ t[1] = a[1]
<1>1. IsSeq(a) /\ IsSeq(b) /\ a # <<>>
  BY DEF Body, Transfers
<1>2. PICK m, n : m = Len(a) /\ n = Len(b)
  OBVIOUS
<1>3. m \in Nat \ {0} /\ n \in Nat
  BY <1>1, <1>2, NoElements
<1>4. IsSeq(t) /\ Len(t) = m + n /\ (\A i \in 1..m : t[i] = a[i]) /\ (\A i \in 1..n : t[m + i] = b[i])
  <2> DEFINE u == a \o b
  <2>1. IsSeq(u) /\ Len(u) = m + n /\ (\A i \in 1..m : u[i] = a[i]) /\ (\A i \in 1..n : u[m + i] = b[i])
    BY <1>1, <1>2, Joined
  <2>2. t = u
    OBVIOUS
  <2> HIDE DEF u
  <2> QED BY <2>1, <2>2
<1>5. t # <<>> /\ t[1] = a[1]
  <2>1. 1 \in 1..m /\ m + n # 0
    BY <1>3
  <2>2. t # <<>>
    BY <1>4, <2>1, NoElements
  <2> QED BY <1>4, <2>1, <2>2
<1>6. ASSUME NEW i \in 1..m + n
      PROVE  t[i].k \in {"push", "busy", "pop", "buf"}
  <2>1. CASE i <= m
    <3>1. i \in 1..m
      BY <1>3, <2>1
    <3>2. t[i] = a[i]
      BY <1>4, <3>1
    <3> QED BY <1>2, <3>1, <3>2 DEF Body, Transfers
  <2>2. CASE i > m
    <3>1. i - m \in 1..n /\ m + (i - m) = i
      BY <1>3, <2>2
    <3>2. t[i] = b[i - m]
      BY <1>4, <3>1
    <3> QED BY <1>2, <3>1, <3>2 DEF Transfers
  <2>3. i <= m \/ i > m
    BY <1>3
  <2> QED BY <2>1, <2>2, <2>3
<1>7. Body(t)
  BY <1>4, <1>5, <1>6 DEF Body, Transfers
<1> QED BY <1>5, <1>7

\* What spi_send1 and spi_transfer_buf are.
LEMMA Sends ==
  ASSUME NEW x
  PROVE  LET s == spi_send1(x)
         IN  /\ IsSeq(s) /\ Len(s) = 3 /\ s[1] = [k |-> "push", b |-> x] /\ s[2] = [k |-> "busy"]
             /\ s[3] = [k |-> "pop", keep |-> FALSE] /\ Body(s) /\ Transfers(s) /\ Command(s[1]) = x
<1> DEFINE p == [k |-> "push", b |-> x]
           w == [k |-> "busy"]
           e == [k |-> "pop", keep |-> FALSE]
           s == SpiWord(x)
           r == <<e>>
<1>1. IsSeq(s) /\ Len(s) = 2 /\ s[1] = p /\ s[2] = w
  BY Few DEF SpiWord
<1>2. IsSeq(r) /\ Len(r) = 1 /\ r[1] = e
  BY Few
<1>3. p.k = "push" /\ p.b = x /\ w.k = "busy" /\ e.k = "pop"
  OBVIOUS
<1> HIDE DEF s, r, p, w, e
<1>4. /\ IsSeq(s \o r) /\ Len(s \o r) = 3 /\ \A i \in 1..2 : (s \o r)[i] = s[i]
      /\ \A i \in 1..1 : (s \o r)[2 + i] = r[i]
  <2>1. IsSeq(s) /\ IsSeq(r)
    BY <1>1, <1>2
  <2>2. Len(s) = 2 /\ Len(r) = 1
    BY <1>1, <1>2
  <2>3. /\ IsSeq(s \o r) /\ Len(s \o r) = Len(s) + Len(r) /\ \A i \in 1..Len(s) : (s \o r)[i] = s[i]
        /\ \A i \in 1..Len(r) : (s \o r)[Len(s) + i] = r[i]
    BY <2>1, Joined
  <2> QED BY <2>2, <2>3
<1>5. (s \o r)[1] = s[1] /\ (s \o r)[2] = s[2] /\ (s \o r)[3] = r[1]
  BY <1>4
<1>6. PICK u : u = spi_send1(x)
  OBVIOUS
<1>7. u = s \o r
  BY <1>6 DEF spi_send1, s, r, e
<1>8. IsSeq(u) /\ Len(u) = 3 /\ u[1] = p /\ u[2] = w /\ u[3] = e
  BY <1>1, <1>2, <1>4, <1>5, <1>7
<1>9. u # <<>>
  <2>1. Len(u) # 0
    BY <1>8
  <2> QED BY <1>8, <2>1, NoElements
<1>10. \A i \in 1..3 : u[i].k \in {"push", "busy", "pop", "buf"}
  <2> SUFFICES ASSUME NEW i \in 1..3 PROVE u[i].k \in {"push", "busy", "pop", "buf"}
    OBVIOUS
  <2>1. i = 1 \/ i = 2 \/ i = 3
    OBVIOUS
  <2> QED BY <1>3, <1>8, <2>1
<1>11. Body(u) /\ Transfers(u) /\ Command(u[1]) = x
  BY <1>3, <1>8, <1>9, <1>10 DEF Body, Transfers, Command
<1> QED BY <1>6, <1>8, <1>11 DEF p, w, e

LEMMA Windows ==
  ASSUME NEW x, NEW keep
  PROVE  LET s == spi_transfer_buf(x, keep)
         IN  Transfers(s) /\ (x # <<>> => Body(s) /\ Command(s[1]) = x[1])
<1>1. PICK e : e = [k |-> "buf", b |-> x, pushed |-> 0, popped |-> 0, keep |-> keep]
  OBVIOUS
<1>2. e.k = "buf" /\ e.b = x
  BY <1>1
<1>3. PICK u : u = <<e>>
  OBVIOUS
<1>4. IsSeq(u) /\ Len(u) = 1 /\ u[1] = e
  BY <1>3, Few
<1>5. u # <<>>
  <2>1. Len(u) # 0
    BY <1>4
  <2> QED BY <1>4, <2>1, NoElements
<1>6. Transfers(u) /\ Body(u) /\ Command(u[1]) = x[1]
  <2>1. \A i \in 1..1 : u[i].k = "buf"
    BY <1>2, <1>4
  <2> QED BY <1>2, <1>4, <1>5, <2>1 DEF Body, Transfers, Command
<1>7. Transfers(<<>>)
  BY NoElements DEF Transfers
<1> QED BY <1>1, <1>3, <1>6, <1>7 DEF spi_transfer_buf

\* A program or erase: write enable, its own frame, the poll.
LEMMA ProgramFrames ==
  ASSUME NEW b, Body(b), Command(b[1]) \in Programs
  PROVE  LET t == w25q_wren \o spi_framed(b) \o w25q_wait_ready
         IN  UsesFlashLib(t) /\ ~Sleeps(t)
<1> DEFINE f == spi_framed(b)
           u == w25q_wren \o f
           t == u \o w25q_wait_ready
           F == Command(b[1])
<1>1. PICK n : n = Len(b)
  OBVIOUS
<1>2. /\ IsSeq(f) /\ n \in Nat \ {0} /\ Len(f) = n + 2 /\ f[1] = Cs(TRUE) /\ f[n + 2] = Cs(FALSE)
      /\ \A i \in 1..n : f[i + 1] = b[i]
  <2>1. IsSeq(b) /\ b # <<>>
    BY DEF Body, Transfers
  <2>2. n # 0
    BY <1>1, <2>1, NoElements
  <2> QED BY <1>1, <2>1, <2>2, Framed
<1> HIDE DEF f
<1>3. /\ IsSeq(w25q_wren) /\ Len(w25q_wren) = 5 /\ w25q_wren[1] = Cs(TRUE) /\ w25q_wren[5] = Cs(FALSE)
      /\ w25q_wren[2] = [k |-> "push", b |-> WREN] /\ w25q_wren[3] = [k |-> "busy"]
      /\ w25q_wren[4] = [k |-> "pop", keep |-> FALSE]
  <2>1. PICK c : c = spi_send1(WREN)
    OBVIOUS
  <2>2. /\ IsSeq(c) /\ Len(c) = 3 /\ c[1] = [k |-> "push", b |-> WREN] /\ c[2] = [k |-> "busy"]
        /\ c[3] = [k |-> "pop", keep |-> FALSE]
    BY <2>1, Sends
  <2>3. PICK v : v = spi_framed(c)
    OBVIOUS
  <2>4. IsSeq(v) /\ Len(v) = 3 + 2 /\ v[1] = Cs(TRUE) /\ v[3 + 2] = Cs(FALSE) /\ \A i \in 1..3 : v[i + 1] = c[i]
    BY <2>2, <2>3, Framed
  <2>5. v[2] = c[1] /\ v[3] = c[2] /\ v[4] = c[3]
    <3>1. 1 \in 1..3 /\ 2 \in 1..3 /\ 3 \in 1..3 /\ 1 + 1 = 2 /\ 2 + 1 = 3 /\ 3 + 1 = 4
      OBVIOUS
    <3>2. v[1 + 1] = c[1] /\ v[2 + 1] = c[2] /\ v[3 + 1] = c[3]
      BY <2>4, <3>1
    <3> QED BY <3>1, <3>2
  <2>6. v = w25q_wren /\ 3 + 2 = 5
    BY <2>1, <2>3 DEF w25q_wren
  <2> QED BY <2>2, <2>4, <2>5, <2>6
<1>4. IsSeq(u) /\ Len(u) = n + 7 /\ (\A i \in 1..5 : u[i] = w25q_wren[i]) /\ (\A i \in 1..n + 2 : u[5 + i] = f[i])
  <2>1. PICK w : w = w25q_wren
    OBVIOUS
  <2>2. IsSeq(w) /\ IsSeq(f)
    BY <1>2, <1>3, <2>1
  <2>3. /\ IsSeq(w \o f) /\ Len(w \o f) = Len(w) + Len(f) /\ (\A i \in 1..Len(w) : (w \o f)[i] = w[i])
        /\ \A i \in 1..Len(f) : (w \o f)[Len(w) + i] = f[i]
    BY <2>2, Joined
  <2>4. PICK z : z = w \o f
    OBVIOUS
  <2>5. Len(w) = 5 /\ Len(f) = n + 2 /\ 5 + (n + 2) = n + 7
    BY <1>2, <1>3, <2>1
  <2>6. IsSeq(z) /\ Len(z) = n + 7 /\ (\A i \in 1..5 : z[i] = w[i]) /\ (\A i \in 1..n + 2 : z[5 + i] = f[i])
    BY <2>3, <2>4, <2>5
  <2> QED BY <2>1, <2>4, <2>6
<1> HIDE DEF u
<1>5. /\ IsSeq(t) /\ Len(t) = n + 16 /\ (\A i \in 1..n + 7 : t[i] = u[i])
      /\ \A i \in 1..9 : t[n + 7 + i] = w25q_wait_ready[i]
  <2>1. PICK w : w = w25q_wait_ready
    OBVIOUS
  <2>2. IsSeq(w) /\ IsSeq(u)
    BY <1>4, <2>1, ThePoll
  <2>3. /\ IsSeq(u \o w) /\ Len(u \o w) = Len(u) + Len(w) /\ (\A i \in 1..Len(u) : (u \o w)[i] = u[i])
        /\ \A i \in 1..Len(w) : (u \o w)[Len(u) + i] = w[i]
    BY <2>2, Joined
  <2>4. PICK z : z = u \o w
    OBVIOUS
  <2>5. Len(u) = n + 7 /\ n + 7 + 9 = n + 16 /\ Len(w) = 9
    BY <1>2, <1>4, <2>1, ThePoll
  <2>6. /\ IsSeq(z) /\ Len(z) = n + 16 /\ (\A i \in 1..n + 7 : z[i] = u[i])
        /\ \A i \in 1..9 : z[n + 7 + i] = w[i]
    BY <2>3, <2>4, <2>5
  <2> QED BY <2>1, <2>4, <2>6
<1> HIDE DEF t, F
\* what is where
<1>6. /\ t[1] = Cs(TRUE) /\ t[2] = [k |-> "push", b |-> WREN] /\ t[3] = [k |-> "busy"]
      /\ t[4] = [k |-> "pop", keep |-> FALSE] /\ t[5] = Cs(FALSE)
  <2>1. \A i \in 1..5 : i \in 1..n + 7
    BY <1>2
  <2>2. \A i \in 1..5 : t[i] = w25q_wren[i]
    BY <1>4, <1>5, <2>1
  <2>3. t[1] = w25q_wren[1] /\ t[2] = w25q_wren[2] /\ t[3] = w25q_wren[3] /\ t[4] = w25q_wren[4] /\ t[5] = w25q_wren[5]
    BY <2>2
  <2> QED BY <1>3, <2>3
<1>7. \A i \in 1..n + 2 : t[5 + i] = f[i]
  <2> SUFFICES ASSUME NEW i \in 1..n + 2 PROVE t[5 + i] = f[i]
    OBVIOUS
  <2>1. 5 + i \in 1..n + 7
    BY <1>2
  <2> QED BY <1>4, <1>5, <2>1
<1>8. t[6] = Cs(TRUE) /\ t[n + 7] = Cs(FALSE) /\ Command(t[7]) = F /\ t[7].k \in {"push", "buf"}
  <2>1. 1 \in 1..n + 2 /\ 2 \in 1..n + 2 /\ n + 2 \in 1..n + 2 /\ 5 + 1 = 6 /\ 5 + 2 = 7 /\ 5 + (n + 2) = n + 7
    BY <1>2
  <2>2. t[6] = f[1] /\ t[7] = f[2] /\ t[n + 7] = f[n + 2]
    BY <1>7, <2>1
  <2>3. 1 \in 1..n /\ 1 + 1 = 2
    BY <1>2
  <2>4. f[2] = b[1]
    BY <1>2, <2>3
  <2> QED BY <1>2, <2>2, <2>4 DEF F, Body, Transfers
<1>9. \A i \in 7..n + 6 : t[i].k \in {"push", "busy", "pop", "buf"}
  <2> SUFFICES ASSUME NEW i \in 7..n + 6 PROVE t[i].k \in {"push", "busy", "pop", "buf"}
    OBVIOUS
  <2>1. PICK j : j = i - 6
    OBVIOUS
  <2>2. j \in 1..n /\ j + 1 \in 1..n + 2 /\ 5 + (j + 1) = i
    BY <1>2, <2>1
  <2>3. t[i] = f[j + 1] /\ f[j + 1] = b[j]
    BY <1>2, <1>7, <2>2
  <2>4. b[j].k \in {"push", "busy", "pop", "buf"}
    BY <1>1, <2>2 DEF Body, Transfers
  <2> QED BY <2>3, <2>4
<1>10. /\ t[n + 8] = Cs(TRUE) /\ t[n + 9] = [k |-> "push", b |-> RDSR] /\ t[n + 10] = [k |-> "busy"]
       /\ t[n + 11] = [k |-> "pop", keep |-> FALSE] /\ t[n + 12] = [k |-> "push", b |-> FILL]
       /\ t[n + 13] = [k |-> "busy"] /\ t[n + 14] = [k |-> "status"] /\ t[n + 15] = Cs(FALSE)
       /\ t[n + 16] = [k |-> "again"]
  <2>1. /\ n + 7 + 1 = n + 8 /\ n + 7 + 2 = n + 9 /\ n + 7 + 3 = n + 10 /\ n + 7 + 4 = n + 11 /\ n + 7 + 5 = n + 12
        /\ n + 7 + 6 = n + 13 /\ n + 7 + 7 = n + 14 /\ n + 7 + 8 = n + 15 /\ n + 7 + 9 = n + 16
    BY <1>2
  <2>2. PICK w : w = w25q_wait_ready
    OBVIOUS
  <2>3. \A i \in 1..9 : t[n + 7 + i] = w[i]
    BY <1>5, <2>2
  <2>4. /\ t[n + 7 + 1] = w[1] /\ t[n + 7 + 2] = w[2] /\ t[n + 7 + 3] = w[3] /\ t[n + 7 + 4] = w[4] /\ t[n + 7 + 5] = w[5]
        /\ t[n + 7 + 6] = w[6] /\ t[n + 7 + 7] = w[7] /\ t[n + 7 + 8] = w[8] /\ t[n + 7 + 9] = w[9]
    BY <2>3
  <2>5. /\ t[n + 8] = w[1] /\ t[n + 9] = w[2] /\ t[n + 10] = w[3] /\ t[n + 11] = w[4] /\ t[n + 12] = w[5]
        /\ t[n + 13] = w[6] /\ t[n + 14] = w[7] /\ t[n + 15] = w[8] /\ t[n + 16] = w[9]
    BY <2>1, <2>4
  <2> QED BY <2>2, <2>5, ThePoll
<1>11. \A i \in 1..n + 16 : \/ i \in {1, 2, 3, 4, 5, 6} \/ i \in 7..n + 6 \/ i = n + 7
                            \/ i \in {n + 8, n + 9, n + 10, n + 11, n + 12, n + 13, n + 14, n + 15, n + 16}
  BY <1>2
\* the three frames
<1>12. Frame(WREN, t, 2)
  <2>1. t[6].k # "again" /\ 5 < Len(t) /\ 5 + 1 = 6
    BY <1>2, <1>5, <1>8 DEF Cs
  <2>2. After(WREN, t, 5)
    BY <2>1 DEF After, WREN, RDSR, PWRDN, Programs, PP, SE, CE
  <2>3. ASSUME NEW d \in 2..n + 16, \A i \in 2..d - 1 : ~Deselects(t[i])
        PROVE  t[d].k # "status" /\ (Deselects(t[d]) => After(WREN, t, d))
    <3>1. d \in {2, 3, 4, 5}
      <4>1. Deselects(t[5])
        BY <1>6 DEF Deselects, Cs
      <4>2. ~(5 \in 2..d - 1)
        BY <2>3, <4>1
      <4> QED BY <1>2, <4>2
    <3> QED BY <1>6, <2>2, <3>1 DEF Deselects, Cs
  <2>4. WREN # RDSR
    BY DEF WREN, RDSR
  <2> QED BY <1>5, <2>3, <2>4 DEF Frame
<1>13. Frame(F, t, 7)
  <2>1. F \in Programs /\ F # RDSR /\ F # PWRDN
    BY DEF F, Programs, PP, SE, CE, RDSR, PWRDN
  <2>2. Polls(t, n + 7 + 1)
    <3>1. Len(t) >= n + 7 + 1 + 8
      BY <1>2, <1>5
    <3>2. \A q \in 1..9 : t[n + 7 + 1 + q - 1] = w25q_wait_ready[q]
      <4> SUFFICES ASSUME NEW q \in 1..9 PROVE t[n + 7 + 1 + q - 1] = w25q_wait_ready[q]
        OBVIOUS
      <4>1. n + 7 + 1 + q - 1 = n + 7 + q
        BY <1>2
      <4> QED BY <1>5, <4>1
    <3> QED BY <3>1, <3>2 DEF Polls
  <2>3. After(F, t, n + 7)
    <3>1. n + 7 + 1 = n + 8 /\ n + 7 + 2 = n + 9 /\ n + 8 + 1 = n + 9
      BY <1>2
    <3>2. t[n + 8].k # "again"
      BY <1>10 DEF Cs
    <3>3. Command(t[n + 8 + 1]) \notin Programs
      BY <1>10, <3>1 DEF Command, RDSR, Programs, PP, SE, CE
    <3>4. ~Selects(t[n + 9])
      BY <1>10 DEF Selects
    <3> QED BY <2>1, <2>2, <3>1, <3>2, <3>3, <3>4 DEF After
  <2>4. ASSUME NEW d \in 7..n + 16, \A i \in 7..d - 1 : ~Deselects(t[i])
        PROVE  t[d].k # "status" /\ (Deselects(t[d]) => After(F, t, d))
    <3>1. d \in 7..n + 6 \/ d = n + 7
      <4>1. Deselects(t[n + 7])
        BY <1>8 DEF Deselects, Cs
      <4>2. ~(n + 7 \in 7..d - 1)
        BY <2>4, <4>1
      <4> QED BY <1>2, <4>2
    <3>2. t[d].k # "status"
      BY <1>8, <1>9, <3>1 DEF Cs
    <3>3. CASE d = n + 7
      BY <2>3, <3>2, <3>3
    <3>4. CASE d \in 7..n + 6
      BY <1>9, <3>2, <3>4 DEF Deselects
    <3> QED BY <3>1, <3>3, <3>4
  <2> QED BY <1>5, <2>1, <2>4 DEF Frame
<1>14. Frame(RDSR, t, n + 9)
  <2>1. InStatus(t, n + 9, 2)
    <3>1. n + 9 + 8 - 2 <= Len(t)
      BY <1>2, <1>5
    <3>2. \A q \in 2..8 : t[n + 9 + q - 2] = w25q_status[q]
      <4> SUFFICES ASSUME NEW q \in 2..8 PROVE t[n + 9 + q - 2] = w25q_status[q]
        OBVIOUS
      <4>1. n + 9 + q - 2 = n + 7 + q /\ q \in 1..9 /\ q \in 1..8
        BY <1>2
      <4>2. t[n + 9 + q - 2] = w25q_wait_ready[q]
        BY <1>5, <4>1
      <4> QED BY <4>1, <4>2, ThePoll
    <3> QED BY <3>1, <3>2 DEF InStatus
  <2>2. After(RDSR, t, n + 9 + 6)
    <3>1. \A i \in {n + 9 + 6 + 1, n + 9 + 6 + 2} : ~(i < Len(t))
      BY <1>2, <1>5
    <3>2. RDSR \notin Programs /\ RDSR # PWRDN
      BY DEF Programs, RDSR, PWRDN, PP, SE, CE
    <3> QED BY <3>1, <3>2 DEF After
  <2> QED BY <2>1, <2>2 DEF Frame
\* the whole
<1>15. ASSUME NEW i \in 1..n + 16
       PROVE  t[i].k \in {"cs", "push", "busy", "pop", "status", "buf", "again"}
  BY <1>6, <1>8, <1>9, <1>10, <1>11 DEF Cs
<1>16. ASSUME NEW i \in 1..n + 16, Selects(t[i])
       PROVE  i = 1 \/ i = 6 \/ i = n + 8
  <2>1. i \notin {2, 3, 4, 5}
    BY <1>6, <1>16 DEF Selects, Cs
  <2>2. i \notin 7..n + 6
    BY <1>9, <1>16 DEF Selects
  <2>3. i # n + 7 /\ i \notin {n + 9, n + 10, n + 11, n + 12, n + 13, n + 14, n + 15, n + 16}
    BY <1>8, <1>10, <1>16 DEF Selects, Cs
  <2> QED BY <1>11, <2>1, <2>2, <2>3
<1>17. ASSUME NEW i \in 1..n + 16, Selects(t[i])
       PROVE  Frame(Command(t[i + 1]), t, i + 1) /\ Command(t[i + 1]) # PWRDN
  <2>1. CASE i = 1
    <3>1. 1 + 1 = 2 /\ Command(t[2]) = WREN /\ WREN # PWRDN
      BY <1>6 DEF Command, WREN, PWRDN
    <3> QED BY <1>12, <2>1, <3>1
  <2>2. CASE i = 6
    <3>1. 6 + 1 = 7 /\ F # PWRDN
      BY DEF F, Programs, PP, SE, CE, PWRDN
    <3> QED BY <1>8, <1>13, <2>2, <3>1
  <2>3. CASE i = n + 8
    <3>1. n + 8 + 1 = n + 9 /\ Command(t[n + 9]) = RDSR /\ RDSR # PWRDN
      BY <1>2, <1>10 DEF Command, RDSR, PWRDN
    <3> QED BY <1>14, <2>3, <3>1
  <2> QED BY <1>16, <1>17, <2>1, <2>2, <2>3
<1>18. ASSUME NEW i \in 1..n + 15
       PROVE  Follow(t[i], t[i + 1])
  <2>1. CASE i \in 1..5
    <3>1. i = 1 \/ i = 2 \/ i = 3 \/ i = 4 \/ i = 5
      BY <2>1
    <3>2. 1 + 1 = 2 /\ 2 + 1 = 3 /\ 3 + 1 = 4 /\ 4 + 1 = 5 /\ 5 + 1 = 6
      OBVIOUS
    <3>3. Follow(t[1], t[2]) /\ Follow(t[2], t[3]) /\ Follow(t[3], t[4]) /\ Follow(t[4], t[5]) /\ Follow(t[5], t[6])
      BY <1>6, <1>8 DEF Follow, Selects, Cs
    <3> QED BY <3>1, <3>2, <3>3
  <2>2. CASE i = 6
    <3>1. i + 1 = 7
      BY <2>2
    <3> QED BY <1>8, <2>2, <3>1 DEF Follow, Cs
  <2>3. CASE i \in 7..n + 6
    <3>1. i + 1 \in 7..n + 6 \/ i + 1 = n + 7
      BY <1>2, <2>3
    <3>2. t[i + 1].k \in {"push", "busy", "pop", "buf"} \/ t[i + 1] = Cs(FALSE)
      BY <1>8, <1>9, <3>1
    <3>3. t[i].k \in {"push", "busy", "pop", "buf"}
      BY <1>9, <2>3
    <3> QED BY <3>2, <3>3 DEF Follow, Selects, Cs
  <2>4. CASE i = n + 7
    <3>1. i + 1 = n + 8
      BY <1>2, <2>4
    <3> QED BY <1>8, <1>10, <2>4, <3>1 DEF Follow, Selects, Cs
  <2>5. CASE i \in n + 8..n + 15
    <3>1. \/ i = n + 8 \/ i = n + 9 \/ i = n + 10 \/ i = n + 11
          \/ i = n + 12 \/ i = n + 13 \/ i = n + 14 \/ i = n + 15
      <4>1. PICK j : j = i - n
        OBVIOUS
      <4>0. n \in Nat
        BY <1>2
      <4>2. j \in 8..15 /\ i = n + j
        BY <2>5, <4>0, <4>1
      <4>3. j = 8 \/ j = 9 \/ j = 10 \/ j = 11 \/ j = 12 \/ j = 13 \/ j = 14 \/ j = 15
        BY <4>2
      <4> QED BY <4>2, <4>3
    <3>2. /\ n + 8 + 1 = n + 9 /\ n + 9 + 1 = n + 10 /\ n + 10 + 1 = n + 11 /\ n + 11 + 1 = n + 12
          /\ n + 12 + 1 = n + 13 /\ n + 13 + 1 = n + 14 /\ n + 14 + 1 = n + 15 /\ n + 15 + 1 = n + 16
      BY <1>2
    <3>3. /\ Follow(t[n + 8], t[n + 9]) /\ Follow(t[n + 9], t[n + 10]) /\ Follow(t[n + 10], t[n + 11])
          /\ Follow(t[n + 11], t[n + 12]) /\ Follow(t[n + 12], t[n + 13]) /\ Follow(t[n + 13], t[n + 14])
          /\ Follow(t[n + 14], t[n + 15]) /\ Follow(t[n + 15], t[n + 16])
      BY <1>10 DEF Follow, Selects, Cs
    <3> QED BY <3>1, <3>2, <3>3
  <2>6. i \in 1..5 \/ i = 6 \/ i \in 7..n + 6 \/ i = n + 7 \/ i \in n + 8..n + 15
    BY <1>2
  <2> QED BY <2>1, <2>2, <2>3, <2>4, <2>5, <2>6
<1>19. UsesFlashLib(t)
  <2>1. Len(t) >= 2 /\ \A i \in 1..Len(t) : i < Len(t) => i \in 1..n + 15
    BY <1>2, <1>5
  <2>2. Selects(t[1]) /\ Command(t[2]) \notin Programs
    BY <1>6 DEF Selects, Cs, Command, WREN, Programs, PP, SE, CE
  <2>3. t[Len(t)].k = "again"
    BY <1>5, <1>10
  <2>4. \A i \in 1..Len(t) :
          /\ t[i].k \in {"cs", "push", "busy", "pop", "status", "buf", "again"}
          /\ i < Len(t) => Follow(t[i], t[i + 1])
          /\ Selects(t[i]) => Frame(Command(t[i + 1]), t, i + 1)
    BY <1>5, <1>15, <1>17, <1>18, <2>1
  <2> QED BY <2>1, <2>2, <2>3, <2>4 DEF UsesFlashLib
<1>20. ~Sleeps(t)
  <2>1. \A i \in 1..Len(t) - 1 : i \in 1..n + 16
    BY <1>2, <1>5
  <2> QED BY <1>17, <2>1 DEF Sleeps
<1> QED BY <1>19, <1>20 DEF t, u, f

\* Two calls in a row, the first leaving the flash awake.
LEMMA FramesJoin ==
  ASSUME NEW a, IsSeq(a), UsesFlashLib(a), ~Sleeps(a), NEW b, IsSeq(b), UsesFlashLib(b)
  PROVE  UsesFlashLib(a \o b) /\ (Sleeps(a \o b) => Sleeps(b))
<1> DEFINE t == a \o b
<1>1. PICK m, n : m = Len(a) /\ n = Len(b)
  OBVIOUS
<1>2. m \in Nat /\ n \in Nat /\ m >= 2 /\ n >= 2
  <2>1. m \in Nat /\ n \in Nat
    BY <1>1, NoElements
  <2>2. m >= 2 /\ n >= 2
    BY <1>1 DEF UsesFlashLib
  <2> QED BY <2>1, <2>2
<1>3. IsSeq(t) /\ Len(t) = m + n /\ (\A i \in 1..m : t[i] = a[i]) /\ (\A i \in 1..n : t[m + i] = b[i])
  BY <1>1, Joined
<1> HIDE DEF t
<1>4. t[m + 1] = b[1] /\ t[m + 2] = b[2] /\ t[1] = a[1] /\ t[2] = a[2] /\ t[m] = a[m] /\ t[m + n] = b[n]
  <2>1. 1 \in 1..n /\ 2 \in 1..n /\ n \in 1..n /\ 1 \in 1..m /\ 2 \in 1..m /\ m \in 1..m
    BY <1>2
  <2> QED BY <1>3, <2>1
<1>5. Selects(b[1]) /\ Command(b[2]) \notin Programs /\ b[2].k \in {"push", "buf"} /\ b[1].k = "cs" /\ ~Selects(b[2])
  <2>1. Selects(b[1]) /\ Command(b[2]) \notin Programs /\ Follow(b[1], b[1 + 1]) /\ 1 + 1 = 2
    <3>1. 1 \in 1..n /\ 1 < n /\ 1 + 1 = 2
      BY <1>2
    <3> QED BY <1>1, <3>1 DEF UsesFlashLib
  <2> QED BY <2>1 DEF Follow, Selects
<1>6. /\ \A i \in 1..m : i < m => Follow(a[i], a[i + 1])
      /\ Deselects(a[m]) \/ a[m].k = "again"
      /\ ~Selects(a[m])
  <2>1. /\ \A i \in 1..m : i < m => Follow(a[i], a[i + 1])
        /\ Deselects(a[m]) \/ a[m].k = "again"
    BY <1>1 DEF UsesFlashLib
  <2>2. ~Selects(a[m])
    BY <2>1 DEF Selects, Deselects
  <2> QED BY <2>1, <2>2
\* what may come after a frame of a
<1>7. ASSUME NEW F, F # PWRDN, NEW d \in 1..m, After(F, a, d)
      PROVE  After(F, t, d)
  <2>1. ASSUME d < Len(t), t[d + 1].k = "again"
        PROVE  F = RDSR
    <3>1. d < m
      BY <1>2, <1>4, <1>5, <2>1
    <3>2. d + 1 \in 1..m
      BY <1>2, <3>1
    <3>3. t[d + 1] = a[d + 1]
      BY <1>3, <3>2
    <3> QED BY <1>1, <1>7, <2>1, <3>1, <3>3 DEF After
  <2>2. ASSUME F \in Programs
        PROVE  Polls(t, d + 1)
    <3>1. Polls(a, d + 1)
      BY <1>7, <2>2 DEF After
    <3>2. m >= d + 1 + 8
      BY <1>1, <3>1 DEF Polls
    <3>3. ASSUME NEW q \in 1..9
          PROVE  t[d + 1 + q - 1] = w25q_wait_ready[q]
      <4>1. d + 1 + q - 1 \in 1..m
        BY <1>2, <3>2
      <4>2. t[d + 1 + q - 1] = a[d + 1 + q - 1]
        BY <1>3, <4>1
      <4> QED BY <3>1, <4>2 DEF Polls
    <3>4. Len(t) >= d + 1 + 8
      BY <1>2, <1>3, <3>2
    <3> QED BY <3>3, <3>4 DEF Polls
  <2>3. ASSUME F # WREN, NEW i \in {d + 1, d + 2}, i < Len(t), Selects(t[i])
        PROVE  Command(t[i + 1]) \notin Programs
    <3>1. i < m \/ i = m \/ i = m + 1 \/ i = m + 2
      BY <1>2
    <3>2. CASE i < m
      <4>1. i \in 1..m /\ i + 1 \in 1..m
        BY <1>2, <3>2
      <4>2. t[i] = a[i] /\ t[i + 1] = a[i + 1]
        BY <1>3, <4>1
      <4> QED BY <1>1, <1>7, <2>3, <3>2, <4>2 DEF After
    <3>3. CASE i = m
      BY <1>4, <1>6, <2>3, <3>3
    <3>4. CASE i = m + 1
      <4>1. m + 1 + 1 = m + 2
        BY <1>2
      <4> QED BY <1>4, <1>5, <3>4, <4>1
    <3>5. CASE i = m + 2
      BY <1>4, <1>5, <2>3, <3>5
    <3> QED BY <3>1, <3>2, <3>3, <3>4, <3>5
  <2> QED BY <1>7, <2>1, <2>2, <2>3 DEF After
\* a frame of a
<1>8. ASSUME NEW i \in 1..m, Selects(t[i])
      PROVE  i < m /\ Frame(Command(t[i + 1]), t, i + 1) /\ Command(t[i + 1]) # PWRDN
  <2>1. t[i] = a[i]
    BY <1>3
  <2>2. i < m
    <3>1. i # m
      BY <1>6, <1>8, <2>1
    <3> QED BY <1>2, <3>1
  <2>3. PICK s, F : s = i + 1 /\ F = Command(a[s])
    OBVIOUS
  <2>4. s \in 1..m /\ s \in Nat /\ s >= 2
    BY <1>2, <2>2, <2>3
  <2>5. t[s] = a[s]
    BY <1>3, <2>4
  <2>6. Frame(F, a, s)
    BY <1>1, <1>8, <2>1, <2>3 DEF UsesFlashLib
  <2>7. F # PWRDN
    <3>1. i \in 1..m - 1
      BY <1>2, <2>2
    <3> QED BY <1>1, <1>8, <2>1, <2>3, <3>1 DEF Sleeps
  <2>8. CASE F = RDSR
    <3>1. InStatus(a, s, 2) /\ After(F, a, s + 6)
      BY <2>6, <2>8 DEF Frame
    <3>2. s + 8 - 2 <= m
      BY <1>1, <3>1 DEF InStatus
    <3>3. After(F, t, s + 6)
      <4>1. s + 6 \in 1..m
        BY <1>2, <2>4, <3>2
      <4> QED BY <1>7, <2>7, <3>1, <4>1
    <3>4. InStatus(t, s, 2)
      <4>1. ASSUME NEW q \in 2..8
            PROVE  t[s + q - 2] = w25q_status[q]
        <5>1. s + q - 2 \in 1..m
          BY <1>2, <2>4, <3>2
        <5>2. t[s + q - 2] = a[s + q - 2]
          BY <1>3, <5>1
        <5> QED BY <3>1, <5>2 DEF InStatus
      <4>2. s + 8 - 2 <= Len(t)
        BY <1>2, <1>3, <2>4, <3>2
      <4> QED BY <4>1, <4>2 DEF InStatus
    <3>5. Frame(F, t, s)
      BY <2>8, <3>3, <3>4 DEF Frame
    <3> QED BY <2>2, <2>3, <2>5, <2>7, <3>5
  <2>9. CASE F # RDSR
    <3>1. ASSUME NEW d \in s..m + n, \A j \in s..d - 1 : ~Deselects(t[j])
          PROVE  t[d].k # "status" /\ (Deselects(t[d]) => After(F, t, d))
      <4>1. d <= m
        <5> SUFFICES ASSUME d > m PROVE FALSE
          BY <1>2, <2>4
        <5>1. m \in s..d - 1
          BY <1>2, <2>4
        <5>2. a[m].k = "again"
          BY <1>4, <1>6, <3>1, <5>1
        <5>3. m - 1 \in 1..m /\ m - 1 < m /\ m - 1 + 1 = m
          BY <1>2
        <5>4. Follow(a[m - 1], a[m])
          BY <1>6, <5>3
        <5>5. Deselects(a[m - 1])
          BY <5>2, <5>4 DEF Follow, Selects, Deselects
        <5>6. CASE m - 1 >= s
          <6>1. m - 1 \in s..d - 1
            BY <1>2, <2>4, <5>1, <5>6
          <6>2. t[m - 1] = a[m - 1]
            BY <1>3, <5>3
          <6> QED BY <3>1, <5>5, <6>1, <6>2
        <5>7. CASE m - 1 < s
          <6>1. i = m - 1
            BY <1>2, <2>3, <2>4, <5>7
          <6> QED BY <1>8, <2>1, <5>5, <6>1 DEF Selects, Deselects
        <5> QED BY <1>2, <2>4, <5>6, <5>7
      <4>2. d \in 1..m /\ d \in s..m
        BY <1>2, <2>4, <4>1
      <4>3. t[d] = a[d]
        BY <1>3, <4>2
      <4>4. \A j \in s..d - 1 : ~Deselects(a[j])
        <5> SUFFICES ASSUME NEW j \in s..d - 1 PROVE ~Deselects(a[j])
          OBVIOUS
        <5>1. j \in 1..m
          BY <1>2, <2>4, <4>2
        <5> QED BY <1>3, <3>1, <5>1
      <4>5. a[d].k # "status" /\ (Deselects(a[d]) => After(F, a, d))
        BY <1>1, <2>6, <2>9, <4>2, <4>4 DEF Frame
      <4> QED BY <1>7, <2>7, <4>2, <4>3, <4>5
    <3>2. Frame(F, t, s)
      BY <1>3, <2>9, <3>1 DEF Frame
    <3> QED BY <2>2, <2>3, <2>5, <2>7, <3>2
  <2> QED BY <2>8, <2>9
\* a frame of b
<1>9. ASSUME NEW j \in 1..n, Selects(t[m + j])
      PROVE  j < n /\ Frame(Command(t[m + j + 1]), t, m + j + 1) /\ (Command(t[m + j + 1]) = PWRDN => Sleeps(b))
  <2>1. t[m + j] = b[j]
    BY <1>3
  <2>2. j < n
    <3>1. Deselects(b[n]) \/ b[n].k = "again"
      BY <1>1 DEF UsesFlashLib
    <3>2. j # n
      BY <1>9, <2>1, <3>1 DEF Selects, Deselects
    <3> QED BY <1>2, <3>2
  <2>3. PICK s, F, k : s = m + j + 1 /\ F = Command(b[j + 1]) /\ k = -m
    OBVIOUS
  <2>4. j + 1 \in 1..n /\ m + (j + 1) = s /\ s \in Nat /\ s >= m + 1 /\ s + k = j + 1
    BY <1>2, <2>2, <2>3
  <2>5. t[s] = b[j + 1]
    BY <1>3, <2>4
  <2>6. Frame(F, b, j + 1)
    BY <1>1, <1>9, <2>1, <2>3 DEF UsesFlashLib
  <2>7. Same(t, b, k, m + 1)
    <3>1. Len(t) \in Nat /\ Len(b) \in Nat /\ k \in Int /\ m + 1 \in Nat \ {0} /\ m + 1 + k >= 1 /\ Len(t) = Len(b) - k
      BY <1>1, <1>2, <1>3, <2>3
    <3>2. ASSUME NEW i \in m + 1..Len(t)
          PROVE  t[i] = b[i + k]
      <4>1. i + k \in 1..n /\ m + (i + k) = i
        BY <1>2, <1>3, <2>3
      <4> QED BY <1>3, <4>1
    <3> QED BY <3>1, <3>2 DEF Same
  <2>8. Frame(F, t, s)
    <3>1. Frame(F, b, s + k)
      BY <2>4, <2>6
    <3>2. m + 1 \in Nat
      BY <1>2
    <3> QED BY <2>4, <2>7, <3>1, <3>2, ShiftFrame
  <2>9. F = PWRDN => Sleeps(b)
    <3>1. j \in 1..n - 1
      BY <1>2, <2>2
    <3> QED BY <1>1, <1>9, <2>1, <2>3, <3>1 DEF Sleeps
  <2> QED BY <2>2, <2>3, <2>5, <2>8, <2>9
<1>10. ASSUME NEW i \in 1..m + n
       PROVE  i \in 1..m \/ \E j \in 1..n : i = m + j
  <2>1. i <= m \/ (i - m \in 1..n /\ i = m + (i - m))
    BY <1>2
  <2> QED BY <1>2, <2>1
<1>11. ASSUME NEW i \in 1..m + n
       PROVE  /\ t[i].k \in {"cs", "push", "busy", "pop", "status", "buf", "again"}
              /\ Selects(t[i]) => i < m + n /\ Frame(Command(t[i + 1]), t, i + 1) /\ (Command(t[i + 1]) = PWRDN => Sleeps(b))
  <2>1. CASE i \in 1..m
    <3>1. t[i].k \in {"cs", "push", "busy", "pop", "status", "buf", "again"}
      BY <1>1, <1>3, <2>1 DEF UsesFlashLib
    <3> QED BY <1>2, <1>8, <2>1, <3>1
  <2>2. CASE \E j \in 1..n : i = m + j
    <3>1. PICK j \in 1..n : i = m + j
      BY <2>2
    <3>2. t[i].k \in {"cs", "push", "busy", "pop", "status", "buf", "again"}
      BY <1>1, <1>3, <3>1 DEF UsesFlashLib
    <3> QED BY <1>2, <1>9, <3>1, <3>2
  <2> QED BY <1>10, <2>1, <2>2
<1>12. ASSUME NEW i \in 1..m + n, i < m + n
       PROVE  Follow(t[i], t[i + 1])
  <2>1. CASE i < m
    <3>1. i \in 1..m /\ i + 1 \in 1..m
      BY <1>2, <2>1
    <3>2. t[i] = a[i] /\ t[i + 1] = a[i + 1]
      BY <1>3, <3>1
    <3> QED BY <1>6, <2>1, <3>1, <3>2
  <2>2. CASE i = m
    BY <1>4, <1>5, <1>6, <2>2 DEF Follow, Deselects
  <2>3. CASE i > m
    <3>1. PICK j : j = i - m
      OBVIOUS
    <3>2. j \in 1..n /\ j < n /\ j + 1 \in 1..n /\ m + j = i /\ m + (j + 1) = i + 1
      BY <1>2, <1>12, <2>3, <3>1
    <3>3. t[i] = b[j] /\ t[i + 1] = b[j + 1]
      BY <1>3, <3>2
    <3> QED BY <1>1, <3>2, <3>3 DEF UsesFlashLib
  <2> QED BY <1>2, <2>1, <2>2, <2>3
<1>13. UsesFlashLib(t)
  <2>1. Selects(t[1]) /\ Command(t[2]) \notin Programs
    BY <1>4 DEF UsesFlashLib
  <2>2. Deselects(t[Len(t)]) \/ t[Len(t)].k = "again"
    BY <1>1, <1>3, <1>4 DEF UsesFlashLib
  <2>3. Len(t) >= 2
    BY <1>2, <1>3
  <2> QED BY <1>3, <1>11, <1>12, <2>1, <2>2, <2>3 DEF UsesFlashLib
<1>14. Sleeps(t) => Sleeps(b)
  <2>1. \A i \in 1..Len(t) - 1 : i \in 1..m + n
    BY <1>2, <1>3
  <2> SUFFICES ASSUME NEW i \in 1..Len(t) - 1, Selects(t[i]), Command(t[i + 1]) = PWRDN PROVE Sleeps(b)
    BY DEF Sleeps
  <2> QED BY <1>11, <2>1
<1> QED BY <1>13, <1>14 DEF t

\* What the flash theorems assume of a call, and that it leaves the flash awake.
Awake(ops) == IsSeq(ops) /\ UsesSpiLib("flash", ops) /\ UsesFlashLib(ops) /\ ~Sleeps(ops)

LEMMA SpiFramed ==
  ASSUME NEW kind, NEW b, UsesSpiLib(kind, b)
  PROVE  UsesSpiLib(kind, spi_framed(b))
<1>1. UsesSpiLib(kind, spi_select \o b)
  BY SpiUnits, SpiJoin
<1> QED BY <1>1, SpiUnits, SpiJoin DEF spi_framed

LEMMA PollIs ==
  /\ IsSeq(w25q_status) /\ Len(w25q_status) = 8
  /\ \A kind : UsesSpiLib(kind, w25q_status) /\ UsesSpiLib(kind, w25q_wait_ready)
<1> DEFINE s == spi_send1(RDSR)
           r == <<[k |-> "push", b |-> FILL], [k |-> "busy"], [k |-> "status"]>>
           b == s \o r
<1>1. IsSeq(s) /\ Len(s) = 3
  BY Sends
<1>2. IsSeq(r) /\ Len(r) = 3
  BY Few
<1>3. \A kind : UsesSpiLib(kind, s) /\ UsesSpiLib(kind, r) /\ UsesSpiLib(kind, <<[k |-> "again"]>>)
  BY SpiUnits
<1> HIDE DEF s, r
<1>4. IsSeq(b) /\ Len(b) = 6
  <2>1. IsSeq(s) /\ IsSeq(r)
    BY <1>1, <1>2
  <2>2. IsSeq(b) /\ Len(b) = Len(s) + Len(r)
    BY <2>1, Joined
  <2> HIDE DEF b
  <2> QED BY <1>1, <1>2, <2>2
<1>5. \A kind : UsesSpiLib(kind, b)
  BY <1>3, SpiJoin
<1> HIDE DEF b
<1>6. w25q_status = spi_framed(b)
  BY DEF w25q_status, b, s, r
<1>7. IsSeq(spi_framed(b)) /\ Len(spi_framed(b)) = 8
  <2>1. PICK n : n = Len(b) /\ n = 6
    BY <1>4
  <2>2. IsSeq(spi_framed(b)) /\ Len(spi_framed(b)) = n + 2
    BY <1>4, <2>1, Framed
  <2> QED BY <2>1, <2>2
<1>8. \A kind : UsesSpiLib(kind, w25q_status)
  BY <1>5, <1>6, SpiFramed
<1>9. \A kind : UsesSpiLib(kind, w25q_wait_ready)
  <2>1. PICK e : e = <<[k |-> "again"]>> /\ w25q_wait_ready = w25q_status \o e
    BY DEF w25q_wait_ready
  <2>2. \A kind : UsesSpiLib(kind, e)
    BY <1>3, <2>1
  <2> QED BY <1>8, <2>1, <2>2, SpiJoin
<1> QED BY <1>6, <1>7, <1>8, <1>9

\* A status, or a status that is repeated.
LEMMA PollFrame ==
  ASSUME NEW t, IsSeq(t), NEW n \in {8, 9}, Len(t) = n, \A i \in 1..n : t[i] = w25q_wait_ready[i]
  PROVE  UsesFlashLib(t) /\ ~Sleeps(t)
<1>1. /\ t[1] = Cs(TRUE) /\ t[2] = [k |-> "push", b |-> RDSR] /\ t[3] = [k |-> "busy"]
      /\ t[4] = [k |-> "pop", keep |-> FALSE] /\ t[5] = [k |-> "push", b |-> FILL]
      /\ t[6] = [k |-> "busy"] /\ t[7] = [k |-> "status"] /\ t[8] = Cs(FALSE)
      /\ n = 9 => t[9] = [k |-> "again"]
  <2>1. PICK w : w = w25q_wait_ready
    OBVIOUS
  <2>2. \A i \in 1..n : t[i] = w[i]
    BY <2>1
  <2>3. /\ t[1] = w[1] /\ t[2] = w[2] /\ t[3] = w[3] /\ t[4] = w[4] /\ t[5] = w[5] /\ t[6] = w[6] /\ t[7] = w[7]
        /\ t[8] = w[8] /\ (n = 9 => t[9] = w[9])
    BY <2>2
  <2> QED BY <2>1, <2>3, ThePoll
<1>2. \A i \in 1..n : i \in {1, 2, 3, 4, 5, 6, 7, 8} \/ (i = 9 /\ n = 9)
  <2>1. n = 8 \/ n = 9
    OBVIOUS
  <2>2. (\A i \in 1..8 : i \in {1, 2, 3, 4, 5, 6, 7, 8}) /\ \A i \in 1..9 : i \in {1, 2, 3, 4, 5, 6, 7, 8} \/ i = 9
    OBVIOUS
  <2> QED BY <2>1, <2>2
<1>3. Frame(RDSR, t, 2)
  <2>1. InStatus(t, 2, 2)
    <3>1. 2 + 8 - 2 <= Len(t)
      OBVIOUS
    <3>2. \A q \in 2..8 : t[2 + q - 2] = w25q_status[q]
      <4> SUFFICES ASSUME NEW q \in 2..8 PROVE t[2 + q - 2] = w25q_status[q]
        OBVIOUS
      <4>1. 2 + q - 2 = q /\ q \in 1..n /\ q \in 1..8
        OBVIOUS
      <4>2. t[2 + q - 2] = w25q_wait_ready[q]
        BY <4>1
      <4> QED BY <4>1, <4>2, ThePoll
    <3> QED BY <3>1, <3>2 DEF InStatus
  <2>2. After(RDSR, t, 2 + 6)
    <3>1. \A i \in {2 + 6 + 1, 2 + 6 + 2} : ~(i < Len(t))
      OBVIOUS
    <3>2. RDSR \notin Programs /\ RDSR # PWRDN
      BY DEF Programs, RDSR, PWRDN, PP, SE, CE
    <3> QED BY <3>1, <3>2 DEF After
  <2> QED BY <2>1, <2>2 DEF Frame
<1>4. ASSUME NEW i \in 1..n
      PROVE  /\ t[i].k \in {"cs", "push", "busy", "pop", "status", "buf", "again"}
             /\ Selects(t[i]) => i = 1
  <2>1. i = 1 \/ i = 2 \/ i = 3 \/ i = 4 \/ i = 5 \/ i = 6 \/ i = 7 \/ i = 8 \/ (i = 9 /\ n = 9)
    BY <1>2
  <2>2. t[i].k \in {"cs", "push", "busy", "pop", "status", "buf", "again"}
    BY <1>1, <2>1 DEF Cs
  <2>3. Selects(t[i]) => i = 1
    BY <1>1, <2>1 DEF Cs, Selects
  <2> QED BY <2>2, <2>3
<1>5. Command(t[1 + 1]) = RDSR /\ RDSR \notin Programs /\ RDSR # PWRDN /\ 1 + 1 = 2
  BY <1>1 DEF Command, Programs, RDSR, PWRDN, PP, SE, CE
<1>6. ASSUME NEW i \in 1..n, i < n
      PROVE  Follow(t[i], t[i + 1])
  <2>1. i = 1 \/ i = 2 \/ i = 3 \/ i = 4 \/ i = 5 \/ i = 6 \/ i = 7 \/ (i = 8 /\ n = 9)
    BY <1>6
  <2>2. 1 + 1 = 2 /\ 2 + 1 = 3 /\ 3 + 1 = 4 /\ 4 + 1 = 5 /\ 5 + 1 = 6 /\ 6 + 1 = 7 /\ 7 + 1 = 8 /\ 8 + 1 = 9
    OBVIOUS
  <2>3. /\ Follow(t[1], t[2]) /\ Follow(t[2], t[3]) /\ Follow(t[3], t[4]) /\ Follow(t[4], t[5]) /\ Follow(t[5], t[6])
        /\ Follow(t[6], t[7]) /\ Follow(t[7], t[8])
    BY <1>1 DEF Follow, Selects, Cs
  <2>4. n = 9 => Follow(t[8], t[9])
    BY <1>1 DEF Follow, Cs
  <2> QED BY <2>1, <2>2, <2>3, <2>4
<1>7. Deselects(t[n]) \/ t[n].k = "again"
  <2>1. n = 8 \/ n = 9
    OBVIOUS
  <2> QED BY <1>1, <2>1 DEF Deselects, Cs
<1>8. UsesFlashLib(t)
  <2>1. Selects(t[1])
    BY <1>1 DEF Selects, Cs
  <2>2. \A i \in 1..n : Selects(t[i]) => Frame(Command(t[i + 1]), t, i + 1)
    BY <1>3, <1>4, <1>5
  <2> QED BY <1>4, <1>5, <1>6, <1>7, <2>1, <2>2 DEF UsesFlashLib
<1>9. ~Sleeps(t)
  <2>1. \A i \in 1..n - 1 : i \in 1..n
    OBVIOUS
  <2> QED BY <1>4, <1>5, <2>1 DEF Sleeps
<1> QED BY <1>8, <1>9

LEMMA PollAwake == Awake(w25q_status) /\ Awake(w25q_wait_ready)
<1>1. Awake(w25q_status)
  <2>1. PICK t, w : t = w25q_status /\ w = w25q_wait_ready
    OBVIOUS
  <2>2. IsSeq(t) /\ Len(t) = 8 /\ \A i \in 1..8 : t[i] = w[i]
    BY <2>1, PollIs, ThePoll
  <2>3. UsesFlashLib(t) /\ ~Sleeps(t)
    BY <2>1, <2>2, PollFrame
  <2> QED BY <2>1, <2>2, <2>3, PollIs DEF Awake
<1>2. Awake(w25q_wait_ready)
  <2>1. PICK t : t = w25q_wait_ready
    OBVIOUS
  <2>2. IsSeq(t) /\ Len(t) = 9
    BY <2>1, ThePoll
  <2>3. UsesFlashLib(t) /\ ~Sleeps(t)
    BY <2>1, <2>2, PollFrame
  <2> QED BY <2>1, <2>2, <2>3, PollIs DEF Awake
<1> QED BY <1>1, <1>2

\* A frame of one call.
LEMMA FrameAwake ==
  ASSUME NEW b, Body(b), UsesSpiLib("flash", b), Command(b[1]) \notin Programs \cup {RDSR, PWRDN}
  PROVE  Awake(spi_framed(b))
<1>1. IsSeq(spi_framed(b))
  <2>1. PICK n : n = Len(b)
    OBVIOUS
  <2>2. IsSeq(b)
    BY DEF Body, Transfers
  <2> QED BY <2>1, <2>2, Framed
<1> QED BY <1>1, OneFrame, SpiFramed DEF Awake

LEMMA ProgramAwake ==
  ASSUME NEW b, Body(b), UsesSpiLib("flash", b), Command(b[1]) \in Programs
  PROVE  Awake(w25q_wren \o spi_framed(b) \o w25q_wait_ready)
<1> DEFINE t == w25q_wren \o spi_framed(b) \o w25q_wait_ready
<1>1. UsesSpiLib("flash", w25q_wren)
  BY SpiUnits, SpiFramed DEF w25q_wren
<1>2. UsesSpiLib("flash", w25q_wren \o spi_framed(b))
  BY <1>1, SpiFramed, SpiJoin
<1>3. UsesSpiLib("flash", t)
  BY <1>2, PollIs, SpiJoin
<1>4. IsSeq(t)
  <2> HIDE DEF t
  <2>1. Len(t) \in Nat /\ t = [i \in 1..Len(t) |-> t[i]]
    BY <1>3 DEF UsesSpiLib
  <2> QED BY <2>1, Listed
<1> QED BY <1>3, <1>4, ProgramFrames DEF Awake

\* The command byte and three bytes of address, sent one at a time.
LEMMA Addressed ==
  ASSUME NEW c, NEW a1, NEW a2, NEW a3
  PROVE  LET h == spi_send1(c) \o spi_send1(a1) \o spi_send1(a2) \o spi_send1(a3)
         IN  Body(h) /\ Command(h[1]) = c /\ UsesSpiLib("flash", h)
<1> DEFINE h1 == spi_send1(c)
           h2 == h1 \o spi_send1(a1)
           h3 == h2 \o spi_send1(a2)
           h4 == h3 \o spi_send1(a3)
<1>1. Body(h1) /\ Command(h1[1]) = c /\ UsesSpiLib("flash", h1)
  BY Sends, SpiUnits
<1>2. \A v : Transfers(spi_send1(v)) /\ UsesSpiLib("flash", spi_send1(v))
  BY Sends, SpiUnits
<1> HIDE DEF h1
<1>3. Body(h2) /\ h2[1] = h1[1] /\ UsesSpiLib("flash", h2)
  <2>1. PICK v : v = spi_send1(a1)
    OBVIOUS
  <2>2. Transfers(v) /\ UsesSpiLib("flash", v) /\ Body(h1) /\ UsesSpiLib("flash", h1)
    BY <1>1, <1>2, <2>1
  <2>3. PICK u : u = h1 \o v
    OBVIOUS
  <2>4. Body(u) /\ u[1] = h1[1]
    BY <2>2, <2>3, BodyJoin
  <2>5. UsesSpiLib("flash", u)
    BY <2>2, <2>3, SpiJoin
  <2> QED BY <2>1, <2>3, <2>4, <2>5
<1> HIDE DEF h2
<1>4. Body(h3) /\ h3[1] = h2[1] /\ UsesSpiLib("flash", h3)
  <2>1. PICK v : v = spi_send1(a2)
    OBVIOUS
  <2>2. Transfers(v) /\ UsesSpiLib("flash", v) /\ Body(h2) /\ UsesSpiLib("flash", h2)
    BY <1>3, <1>2, <2>1
  <2>3. PICK u : u = h2 \o v
    OBVIOUS
  <2>4. Body(u) /\ u[1] = h2[1]
    BY <2>2, <2>3, BodyJoin
  <2>5. UsesSpiLib("flash", u)
    BY <2>2, <2>3, SpiJoin
  <2> QED BY <2>1, <2>3, <2>4, <2>5
<1> HIDE DEF h3
<1>5. Body(h4) /\ h4[1] = h3[1] /\ UsesSpiLib("flash", h4)
  <2>1. PICK v : v = spi_send1(a3)
    OBVIOUS
  <2>2. Transfers(v) /\ UsesSpiLib("flash", v) /\ Body(h3) /\ UsesSpiLib("flash", h3)
    BY <1>4, <1>2, <2>1
  <2>3. PICK u : u = h3 \o v
    OBVIOUS
  <2>4. Body(u) /\ u[1] = h3[1]
    BY <2>2, <2>3, BodyJoin
  <2>5. UsesSpiLib("flash", u)
    BY <2>2, <2>3, SpiJoin
  <2> QED BY <2>1, <2>3, <2>4, <2>5
<1> HIDE DEF h4
<1>6. Command(h4[1]) = c
  BY <1>1, <1>3, <1>4, <1>5
<1> QED BY <1>5, <1>6 DEF h4, h3, h2, h1

\* A chunk stays within its page, and is not empty.
LEMMA ChunkInPage ==
  ASSUME NEW a \in Nat, NEW len \in Nat \ {0}
  PROVE  ChunkLen(a, len) \in 1..len /\ (a % W25Q_PAGE_SIZE) + ChunkLen(a, len) <= W25Q_PAGE_SIZE
<1> DEFINE p == W25Q_PAGE_SIZE
           r == p - (a % p)
<1>1. p \in Nat \ {0} /\ a % p \in 0..p - 1
  BY PageAssumption
<1>2. r \in Nat \ {0} /\ (a % p) + r = p
  BY <1>1
<1>3. ChunkLen(a, len) = Min({len, r})
  BY DEF ChunkLen
<1> HIDE DEF r
<1>4. \E x \in {len, r} : \A w \in {len, r} : x =< w
  BY <1>2
<1>5. Min({len, r}) \in {len, r} /\ Min({len, r}) <= len /\ Min({len, r}) <= r
  BY <1>4 DEF Min
<1> HIDE DEF p
<1>6. ChunkLen(a, len) \in 1..len /\ ChunkLen(a, len) <= r
  BY <1>2, <1>3, <1>5
<1>7. (a % p) + ChunkLen(a, len) <= p
  BY <1>1, <1>2, <1>6
<1> QED BY <1>6, <1>7 DEF p

LEMMA ChunkAwake ==
  ASSUME NEW a, NEW buf \in Seq(0..255)
  PROVE  Awake(w25q_chunk(a, buf))
<1> DEFINE h == spi_send1(PP) \o spi_send1(0) \o spi_send1(0) \o spi_send1(a)
           b == h \o spi_send(buf)
<1>1. Body(h) /\ Command(h[1]) = PP /\ UsesSpiLib("flash", h)
  BY Addressed
<1>2. Transfers(spi_send(buf)) /\ UsesSpiLib("flash", spi_send(buf))
  BY Windows, SpiWindow DEF spi_send
<1> HIDE DEF h
<1>3. Body(b) /\ b[1] = h[1] /\ UsesSpiLib("flash", b)
  <2>1. PICK v : v = spi_send(buf)
    OBVIOUS
  <2>2. Transfers(v) /\ UsesSpiLib("flash", v)
    BY <1>2, <2>1
  <2>3. PICK u : u = h \o v
    OBVIOUS
  <2>4. Body(u) /\ u[1] = h[1]
    BY <1>1, <2>2, <2>3, BodyJoin
  <2>5. UsesSpiLib("flash", u)
    BY <1>1, <2>2, <2>3, SpiJoin
  <2> QED BY <2>1, <2>3, <2>4, <2>5
<1> HIDE DEF b
<1>4. Command(b[1]) \in Programs
  BY <1>1, <1>3 DEF Programs
<1>5. Awake(w25q_wren \o spi_framed(b) \o w25q_wait_ready)
  BY <1>3, <1>4, ProgramAwake
<1> QED BY <1>5 DEF w25q_chunk, b, h

LEMMA AwakeJoin ==
  ASSUME NEW a, NEW b, Awake(a), Awake(b)
  PROVE  Awake(a \o b)
<1>1. UsesSpiLib("flash", a \o b)
  BY SpiJoin DEF Awake
<1>2. UsesFlashLib(a \o b) /\ ~Sleeps(a \o b)
  BY FramesJoin DEF Awake
<1>3. IsSeq(a \o b)
  BY Joined DEF Awake
<1> QED BY <1>1, <1>2, <1>3 DEF Awake

\* The loop of w25q_write.
Writes(a, buf, w) ==
  w = [i \in 0..Len(buf) |->
         IF i = Len(buf) THEN <<>>
         ELSE LET n == ChunkLen(a + i, Len(buf) - i)
              IN  w25q_chunk(a + i, SubSeq(buf, i + 1, i + n)) \o w[i + n]]

\* Each turn programs a part of what is left, and leaves the flash awake.
LEMMA WriteTurn ==
  ASSUME NEW a \in Nat, NEW buf \in Seq(0..255), NEW i \in 0..Len(buf), i < Len(buf)
  PROVE  LET n == ChunkLen(a + i, Len(buf) - i)
         IN  n \in 1..Len(buf) - i /\ Awake(w25q_chunk(a + i, SubSeq(buf, i + 1, i + n)))
<1> DEFINE n == ChunkLen(a + i, Len(buf) - i)
<1>1. a + i \in Nat /\ Len(buf) - i \in Nat \ {0}
  OBVIOUS
<1>2. n \in 1..Len(buf) - i
  BY <1>1, ChunkInPage
<1> HIDE DEF n
<1>3. SubSeq(buf, i + 1, i + n) \in Seq(0..255)
  <2>1. i + n \in 1..Len(buf)
    BY <1>2
  <2>2. \A q \in 1..Len(buf) : buf[q] \in 0..255
    BY ElementOfSeq
  <2>3. i + 1 \in Int /\ i + n \in Int /\ \A q \in i + 1..i + n : q \in 1..Len(buf)
    BY <2>1
  <2>4. \A q \in i + 1..i + n : buf[q] \in 0..255
    BY <2>2, <2>3
  <2> QED BY <2>3, <2>4, SubSeqProperties
<1>4. Awake(w25q_chunk(a + i, SubSeq(buf, i + 1, i + n)))
  BY <1>3, ChunkAwake
<1> QED BY <1>2, <1>4 DEF n

LEMMA WritesExist ==
  ASSUME NEW a \in Nat, NEW buf \in Seq(0..255)
  PROVE  \E w : Writes(a, buf, w)
<1> DEFINE k(i) == ChunkLen(a + i, Len(buf) - i)
           c(i) == w25q_chunk(a + i, SubSeq(buf, i + 1, i + k(i)))
           From(m, n, g) == g = [i \in n - m..n |-> IF i = n THEN <<>> ELSE c(i) \o g[i + k(i)]]
<1>1. PICK n : n = Len(buf) /\ n \in Nat
  OBVIOUS
<1>2. \A i \in 0..n : i < n => k(i) \in 1..n - i
  BY <1>1, WriteTurn
<1> HIDE DEF k, c
<1> DEFINE P == {j \in Nat : j <= n => \E g : From(j, n, g)}
<1>3. 0 \in P
  <2>1. From(0, n, [i \in n..n |-> <<>>])
    BY <1>1
  <2> QED BY <2>1
<1>4. ASSUME NEW j \in Nat, j \in P
      PROVE  j + 1 \in P
  <2> SUFFICES ASSUME j + 1 <= n PROVE \E g : From(j + 1, n, g)
    OBVIOUS
  <2>1. PICK g : From(j, n, g)
    BY <1>1, <1>4
  <2>2. PICK o : o = n - (j + 1)
    OBVIOUS
  <2>3. o \in 0..n - 1 /\ n - j = o + 1 /\ o # n
    BY <1>1, <2>2
  <2> DEFINE h == [i \in o..n |-> IF i = o THEN c(i) \o g[i + k(i)] ELSE g[i]]
  <2>4. ASSUME NEW i \in o..n
        PROVE  h[i] = IF i = n THEN <<>> ELSE c(i) \o h[i + k(i)]
    <3>1. i < n => i + k(i) \in i + 1..n
      BY <1>1, <1>2, <2>3
    <3>2. i < n => i + k(i) \in o..n /\ i + k(i) # o /\ i + k(i) \in o + 1..n
      BY <1>1, <2>3, <3>1
    <3>3. i < n => h[i + k(i)] = g[i + k(i)]
      BY <3>2
    <3>4. CASE i = o
      <4>1. i < n /\ i # n /\ h[i] = c(i) \o g[i + k(i)]
        BY <1>1, <2>3, <3>4
      <4> QED BY <3>3, <4>1
    <3>5. CASE i # o
      <4>1. i \in o + 1..n /\ h[i] = g[i]
        BY <1>1, <2>3, <3>5
      <4>2. g[i] = IF i = n THEN <<>> ELSE c(i) \o g[i + k(i)]
        BY <2>1, <2>3, <4>1
      <4>3. i = n \/ i < n
        BY <1>1, <4>1
      <4> QED BY <3>3, <4>1, <4>2, <4>3
    <3> QED BY <3>4, <3>5
  <2>5. h = [i \in o..n |-> h[i]]
    OBVIOUS
  <2> HIDE DEF h
  <2>6. From(j + 1, n, h)
    BY <2>2, <2>4, <2>5
  <2> HIDE DEF From
  <2> QED BY <2>6
<1> HIDE DEF P
<1>5. n \in P
  BY <1>1, <1>3, <1>4, FromZeroUp
<1>6. PICK w : From(n, n, w)
  BY <1>1, <1>5 DEF P
<1>7. n - n = 0
  BY <1>1
<1>8. w = [i \in 0..n |-> IF i = n THEN <<>> ELSE c(i) \o w[i + k(i)]]
  BY <1>6, <1>7
<1>9. Writes(a, buf, w)
  BY <1>1, <1>8 DEF Writes, c, k
<1> QED BY <1>9

LEMMA WriteAwake ==
  ASSUME NEW a \in Nat, NEW buf \in Seq(0..255), buf # <<>>
  PROVE  Awake(w25q_write(a, buf))
<1> DEFINE w == CHOOSE v : Writes(a, buf, v)
           k(i) == ChunkLen(a + i, Len(buf) - i)
           c(i) == w25q_chunk(a + i, SubSeq(buf, i + 1, i + k(i)))
<1>1. PICK n : n = Len(buf) /\ n \in Nat /\ n # 0
  OBVIOUS
<1>2. \A i \in 0..n : i < n => k(i) \in 1..n - i /\ Awake(c(i))
  BY <1>1, WriteTurn
<1>3. Writes(a, buf, w)
  BY WritesExist
<1>4. w25q_write(a, buf) = w[0]
  BY DEF w25q_write, Writes
<1> HIDE DEF w
<1>5. w = [i \in 0..n |-> IF i = n THEN <<>> ELSE c(i) \o w[i + k(i)]]
  BY <1>1, <1>3 DEF Writes
<1> HIDE DEF k, c
<1> DEFINE P == {j \in Nat : \A i \in 0..n : i < n /\ n - i <= j => Awake(w[i])}
<1>6. 0 \in P
  BY <1>1
<1>7. ASSUME NEW j \in Nat, j \in P
      PROVE  j + 1 \in P
  <2> SUFFICES ASSUME NEW i \in 0..n, i < n, n - i <= j + 1 PROVE Awake(w[i])
    OBVIOUS
  <2>1. PICK q : q = i + k(i)
    OBVIOUS
  <2>2. q \in i + 1..n /\ q \in 0..n
    BY <1>1, <1>2, <2>1
  <2>3. w[i] = c(i) \o w[q]
    <3>1. i # n
      BY <1>1
    <3>2. w[i] = c(i) \o w[i + k(i)]
      BY <1>5, <3>1
    <3> QED BY <2>1, <3>2
  <2>4. Awake(c(i))
    BY <1>2
  <2>5. CASE q = n
    <3>1. w[q] = <<>>
      BY <1>5, <2>2, <2>5
    <3>2. PICK s : s = c(i)
      OBVIOUS
    <3>3. s \o <<>> = s
      <4>1. IsSeq(s)
        BY <2>4, <3>2 DEF Awake
      <4> QED BY <4>1, ConcatEmptySeq DEF IsSeq
    <3> QED BY <2>3, <2>4, <3>1, <3>2, <3>3
  <2>6. CASE q # n
    <3>1. q < n /\ n - q <= j
      BY <1>1, <2>2, <2>6
    <3>2. Awake(w[q])
      BY <1>7, <2>2, <3>1
    <3> QED BY <2>3, <2>4, <3>2, AwakeJoin
  <2> QED BY <2>5, <2>6
<1> HIDE DEF P
<1>8. n \in P
  BY <1>1, <1>6, <1>7, FromZeroUp
<1>9. Awake(w[0])
  <2>1. 0 \in 0..n /\ 0 < n /\ n - 0 <= n
    BY <1>1
  <2> QED BY <1>8, <2>1 DEF P
<1> QED BY <1>4, <1>9

\* The calls of w25q.h, and the readings of mcp3208.h, are what the theorems above take a program to
\* be made of: bytes pushed, waited for and taken, whole frames, an enabled and polled write or erase,
\* whatever the address, the length and the data; a write of many pages is one of them. Only
\* w25q_power_down leaves the flash asleep, and w25q_wake is what wakes it.
THEOREM DriverCallsFit ==
  ASSUME NEW a \in 0..255, NEW n \in Nat, NEW buf \in Seq(0..255), NEW ch \in Nat
  PROVE  /\ \A ops \in {w25q_status, w25q_wait_ready, w25q_jedec_id, w25q_read(a, n), w25q_wren,
                        w25q_erase_sector(a), w25q_erase_chip, w25q_wake} :
              UsesSpiLib("flash", ops) /\ UsesFlashLib(ops) /\ ~Sleeps(ops)
         /\ buf # <<>> => /\ UsesSpiLib("flash", w25q_write(a, buf))
                          /\ UsesFlashLib(w25q_write(a, buf)) /\ ~Sleeps(w25q_write(a, buf))
         /\ UsesSpiLib("flash", w25q_power_down) /\ UsesFlashLib(w25q_power_down)
         /\ Command(w25q_wake[2]) = RELEASE
         /\ UsesSpiLib("adc", mcp3208_read(ch)) /\ UsesSpiLib("adc", mcp3208_read_diff(ch))
<1>1. FILL \in 0..255 /\ READ \in 0..255
  BY DEF FILL, READ
<1>2. \A m \in Nat : [i \in 1..m |-> FILL] \in Seq(0..255)
  BY <1>1
<1>3. \A m \in Nat : Transfers(spi_read(m)) /\ UsesSpiLib("flash", spi_read(m))
  BY <1>2, Windows, SpiWindow DEF spi_read
<1>4. {READ, JEDEC, WREN, RELEASE} \cap (Programs \cup {RDSR, PWRDN}) = {} /\ SE \in Programs /\ CE \in Programs
  BY DEF READ, JEDEC, WREN, RELEASE, Programs, RDSR, PWRDN, PP, SE, CE
<1>5. Awake(w25q_jedec_id)
  <2>1. PICK h, r, b : h = spi_send1(JEDEC) /\ r = spi_read(3) /\ b = h \o r
    OBVIOUS
  <2>2. Body(h) /\ Command(h[1]) = JEDEC /\ UsesSpiLib("flash", h) /\ Transfers(r) /\ UsesSpiLib("flash", r)
    BY <1>3, <2>1, Sends, SpiUnits
  <2>3. Body(b) /\ b[1] = h[1]
    BY <2>1, <2>2, BodyJoin
  <2>4. UsesSpiLib("flash", b)
    BY <2>1, <2>2, SpiJoin
  <2>5. Awake(spi_framed(b))
    BY <1>4, <2>2, <2>3, <2>4, FrameAwake
  <2> QED BY <2>1, <2>5 DEF w25q_jedec_id
<1>6. Awake(w25q_read(a, n))
  <2>1. PICK x : x = <<READ, 0, 0, a>>
    OBVIOUS
  <2>2. x \in Seq(0..255) /\ x # <<>> /\ x[1] = READ
    BY <1>1, <2>1
  <2>3. PICK h, r, b : h = spi_send(x) /\ r = spi_read(n) /\ b = h \o r
    OBVIOUS
  <2>4. Body(h) /\ Command(h[1]) = READ /\ UsesSpiLib("flash", h) /\ Transfers(r) /\ UsesSpiLib("flash", r)
    BY <1>3, <2>2, <2>3, Windows, SpiWindow DEF spi_send
  <2>5. Body(b) /\ b[1] = h[1]
    BY <2>3, <2>4, BodyJoin
  <2>6. UsesSpiLib("flash", b)
    BY <2>3, <2>4, SpiJoin
  <2>7. Awake(spi_framed(b))
    BY <1>4, <2>4, <2>5, <2>6, FrameAwake
  <2> QED BY <2>1, <2>3, <2>7 DEF w25q_read
<1>7. Awake(w25q_wren)
  <2>1. PICK h : h = spi_send1(WREN)
    OBVIOUS
  <2>2. Body(h) /\ Command(h[1]) = WREN /\ UsesSpiLib("flash", h)
    BY <2>1, Sends, SpiUnits
  <2> QED BY <1>4, <2>1, <2>2, FrameAwake DEF w25q_wren
<1>8. Awake(w25q_erase_sector(a))
  <2> DEFINE h == spi_send1(SE) \o spi_send1(0) \o spi_send1(0) \o spi_send1(a)
  <2>1. Body(h) /\ Command(h[1]) = SE /\ UsesSpiLib("flash", h)
    BY Addressed
  <2> HIDE DEF h
  <2>2. Awake(w25q_wren \o spi_framed(h) \o w25q_wait_ready)
    BY <1>4, <2>1, ProgramAwake
  <2> QED BY <2>2 DEF w25q_erase_sector, w25q_erase_cmd, h
<1>9. Awake(w25q_erase_chip)
  <2>1. PICK h : h = spi_send1(CE)
    OBVIOUS
  <2>2. Body(h) /\ Command(h[1]) = CE /\ UsesSpiLib("flash", h)
    BY <2>1, Sends, SpiUnits
  <2>3. Awake(w25q_wren \o spi_framed(h) \o w25q_wait_ready)
    BY <1>4, <2>2, ProgramAwake
  <2> QED BY <2>1, <2>3 DEF w25q_erase_chip
<1>10. Awake(w25q_wake) /\ Command(w25q_wake[2]) = RELEASE
  <2>1. PICK h, r, b : h = spi_send1(RELEASE) /\ r = spi_send1(FILL) /\ b = h \o r
    OBVIOUS
  <2>2. Body(h) /\ Command(h[1]) = RELEASE /\ UsesSpiLib("flash", h) /\ Transfers(r) /\ UsesSpiLib("flash", r)
    BY <2>1, Sends, SpiUnits
  <2>3. Body(b) /\ b[1] = h[1]
    BY <2>1, <2>2, BodyJoin
  <2>4. UsesSpiLib("flash", b)
    BY <2>1, <2>2, SpiJoin
  <2>5. Awake(spi_framed(b))
    BY <1>4, <2>2, <2>3, <2>4, FrameAwake
  <2>6. PICK m, f : m = Len(b) /\ f = spi_framed(b)
    OBVIOUS
  <2>7. IsSeq(b) /\ b # <<>>
    BY <2>3 DEF Body, Transfers
  <2>8. m \in Nat \ {0}
    BY <2>6, <2>7, NoElements
  <2>9. \A i \in 1..m : f[i + 1] = b[i]
    BY <2>6, <2>7, Framed
  <2>10. f[2] = b[1]
    <3>1. 1 \in 1..m /\ 1 + 1 = 2
      BY <2>8
    <3>2. f[1 + 1] = b[1]
      BY <2>9, <3>1
    <3> QED BY <3>1, <3>2
  <2>11. spi_framed(b) = w25q_wake
    BY <2>1 DEF w25q_wake
  <2> QED BY <2>2, <2>3, <2>5, <2>6, <2>10, <2>11
<1>11. UsesSpiLib("flash", w25q_power_down) /\ UsesFlashLib(w25q_power_down)
  <2>1. PICK h : h = spi_send1(PWRDN)
    OBVIOUS
  <2>2. Body(h) /\ Command(h[1]) = PWRDN /\ UsesSpiLib("flash", h)
    BY <2>1, Sends, SpiUnits
  <2>3. PWRDN \notin Programs /\ PWRDN # RDSR
    BY DEF Programs, PWRDN, RDSR, PP, SE, CE
  <2> QED BY <2>1, <2>2, <2>3, OneFrame, SpiFramed DEF w25q_power_down
<1>12. \A start, c : UsesSpiLib("adc", McpRead(start, c))
  <2> SUFFICES ASSUME NEW start, NEW c PROVE UsesSpiLib("adc", McpRead(start, c))
    OBVIOUS
  <2>1. PICK b1, b2 : b1 = start + (c \div 4) /\ b2 = 64 * (c % 4)
    OBVIOUS
  <2>2. UsesSpiLib("adc", spi_send1(b1)) /\ UsesSpiLib("adc", spi_transfer(b2)) /\ UsesSpiLib("adc", spi_transfer(0))
    BY SpiUnits
  <2>3. UsesSpiLib("adc", spi_send1(b1) \o spi_transfer(b2))
    BY <2>2, SpiJoin
  <2>4. UsesSpiLib("adc", spi_send1(b1) \o spi_transfer(b2) \o spi_transfer(0))
    BY <2>2, <2>3, SpiJoin
  <2> QED BY <2>1, <2>4, SpiFramed DEF McpRead
<1>13. buf # <<>> => Awake(w25q_write(a, buf))
  BY WriteAwake
<1>14. \A ops \in {w25q_status, w25q_wait_ready, w25q_jedec_id, w25q_read(a, n), w25q_wren,
                   w25q_erase_sector(a), w25q_erase_chip, w25q_wake} : Awake(ops)
  BY <1>5, <1>6, <1>7, <1>8, <1>9, <1>10, PollAwake
<1>15. UsesSpiLib("adc", mcp3208_read(ch)) /\ UsesSpiLib("adc", mcp3208_read_diff(ch))
  BY <1>12 DEF mcp3208_read, mcp3208_read_diff
<1> QED BY <1>10, <1>11, <1>13, <1>14, <1>15 DEF Awake

\* Two calls in a row are like one: programs of any length may be made of them, with nothing but a
\* wake after w25q_power_down.
THEOREM CallsJoin ==
  ASSUME NEW a, UsesSpiLib("flash", a), UsesFlashLib(a), ~Sleeps(a), NEW b, UsesSpiLib("flash", b), UsesFlashLib(b)
  PROVE  UsesSpiLib("flash", a \o b) /\ UsesFlashLib(a \o b) /\ (Sleeps(a \o b) => Sleeps(b))
<1>1. IsSeq(a) /\ IsSeq(b)
  <2>1. Len(a) \in Nat /\ a = [i \in 1..Len(a) |-> a[i]] /\ Len(b) \in Nat /\ b = [i \in 1..Len(b) |-> b[i]]
    BY DEF UsesSpiLib
  <2> QED BY <2>1, Listed
<1>2. UsesSpiLib("flash", a \o b)
  BY SpiJoin
<1>3. UsesFlashLib(a \o b) /\ (Sleeps(a \o b) => Sleeps(b))
  BY <1>1, FramesJoin
<1> QED BY <1>2, <1>3
=============================================================================
