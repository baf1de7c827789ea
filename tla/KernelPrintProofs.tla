-------------------------- MODULE KernelPrintProofs --------------------------
(***************************************************************************)
(* For every screen, every buffer size, every set of texts and every       *)
(* message that fits: kprintf indexes its buffer inside its bounds and     *)
(* console_puts always meets a terminator; the timer's message gets a line *)
(* of its own; what is printed undisturbed appears as on a sheet of paper, *)
(* with the cursor behind it; and no character is stored off the screen,   *)
(* though the timer's handler may overwrite the buffer and move the cursor *)
(* and the rows between any two accesses.                                  *)
(***************************************************************************)
EXTENDS KernelPrint, SequenceTheorems, WellFoundedInduction, TLAPS

-----------------------------------------------------------------------------
(* The buffer.                                                             *)

AllTexts == Texts \cup BootTexts \cup {Message}

(* While formatting, the index has not passed the text's end.              *)
WithinText ==
  call.pc \in Formatting => call.text \in AllTexts /\ call.i <= Len(call.text)

(* The inductive invariant.  TerminatorAhead alone is not inductive: that  *)
(* a terminator is there when writing out begins follows from WithinText.  *)
PrintInv ==
  /\ TypeOK
  /\ DOMAIN call = {"pc", "text", "i", "c", "k", "reg"}
  /\ WithinText
  /\ TerminatorAhead

LEMMA TextsFit ==
  ASSUME NEW t \in AllTexts
  PROVE  Len(t) \in Nat /\ Len(t) < BUF
BY BufferAssumption DEF AllTexts

(* A terminator ahead of an index is still ahead of it after the message   *)
(* has been formatted over the beginning of the buffer.                    *)
LEMMA MessageKeepsTerminator ==
  ASSUME DOMAIN buf = 0..BUF-1,
         NEW n \in Nat,
         \E j \in n .. BUF-1 : buf[j] = "NUL"
  PROVE  \E j \in n .. BUF-1 : Formatted(buf, Message)[j] = "NUL"
<1>1. PICK j \in n .. BUF-1 : buf[j] = "NUL"
  OBVIOUS
<1>2. /\ BUF \in Nat /\ Len(Message) \in 0..BUF-1
      /\ Formatted(buf, Message)[Len(Message)] = "NUL"
  BY TextsFit, BufferAssumption DEF AllTexts, Formatted
<1>3. CASE j <= Len(Message)
  BY <1>1, <1>2, <1>3
<1>4. CASE j > Len(Message)
  <2>1. Formatted(buf, Message)[j] = buf[j]
    BY <1>1, <1>2, <1>4 DEF Formatted
  <2>. QED BY <1>1, <2>1
<1>. QED BY <1>1, <1>2, <1>3, <1>4

LEMMA PrintInit == Init => PrintInv
<1>. SUFFICES ASSUME Init PROVE PrintInv
  OBVIOUS
<1>1. BUF \in Nat \ {0}
  BY TextsFit, BufferAssumption DEF AllTexts
<1>2. /\ DOMAIN call = {"pc", "text", "i", "c", "k", "reg"}
      /\ call.pc = "idle" /\ call.i = 0
  BY DEF Init, Idle
<1>3. DOMAIN buf = 0..BUF-1 /\ tasking \in BOOLEAN /\ disturbed \in BOOLEAN
  BY DEF Init
<1>4. "idle" \notin Formatting /\ "idle" \notin InPutchar
  BY DEF Formatting, InPutchar
<1>. QED BY <1>1, <1>2, <1>3, <1>4 DEF PrintInv, TypeOK, WithinText, TerminatorAhead

LEMMA PrintNext == PrintInv /\ [Next]_vars => PrintInv'
<1> SUFFICES ASSUME PrintInv, [Next]_vars PROVE PrintInv'
  OBVIOUS
<1> USE BufferAssumption DEF PrintInv, TypeOK, WithinText, TerminatorAhead, Formatting, InPutchar
<1>1. ASSUME NEW text \in Texts \cup BootTexts, Call(text)
      PROVE  PrintInv'
  <2>1. text \in AllTexts /\ Len(text) \in Nat /\ BUF \in Nat \ {0}
    BY TextsFit DEF AllTexts
  <2>. QED BY <1>1, <2>1 DEF Call, Idle, memory, At
<1>2. CASE InitTasking
  BY <1>2 DEF InitTasking, memory, history, At
<1>3. CASE TimerIRQ
  <2>1. /\ buf' = Formatted(buf, Message) /\ UNCHANGED <<call, tasking>>
        /\ disturbed' \in BOOLEAN
    BY <1>3 DEF TimerIRQ
  <2>2. DOMAIN buf' = 0..BUF-1
    BY <2>1 DEF Formatted
  <2>3. /\ call.pc = "test" => \E j \in call.i .. BUF-1 : buf'[j] = "NUL"
        /\ call.pc \in InPutchar => \E j \in call.i+1 .. BUF-1 : buf'[j] = "NUL"
    BY <2>1, MessageKeepsTerminator
  <2>. QED BY <2>1, <2>2, <2>3
<1>4. ASSUME Step PROVE PrintInv'
  <2>. UNCHANGED <<tasking, disturbed>>
    BY <1>4 DEF Step, history
  <2>1. CASE vsprintf
    <3>1. call.text \in AllTexts /\ Len(call.text) \in Nat /\ Len(call.text) < BUF
      BY <2>1, TextsFit DEF vsprintf, At
    <3>. QED BY <2>1, <3>1, SMTT(30) DEF vsprintf, At, Goto
  <2>2. CASE Terminate
    BY <2>2 DEF Terminate, At
  <2>3. CASE Test
    BY <2>3 DEF Test, At, Goto, Idle, memory
  <2>4. CASE Fetch
    <3>1. call'.pc \in {"row", "read_x", "return", "read_y", "scroll"}
      BY <2>4 DEF Fetch, At
    <3>. QED BY <2>4, <3>1 DEF Fetch, At, memory
  <2>5. CASE Row \/ Locate \/ ReadX \/ ReadY \/ CursorRow \/ CursorX
    BY <2>5 DEF Row, Locate, ReadX, ReadY, CursorRow, CursorX, At, Load, memory
  <2>6. CASE Store \/ WriteX \/ WriteY \/ CarriageReturn
    BY <2>6 DEF Store, WriteX, WriteY, CarriageReturn, At, Goto
  <2>7. CASE ScrollTest
    BY <2>7 DEF ScrollTest, At, Goto, memory
  <2>8. CASE Scroll
    BY <2>8 DEF Scroll, At, Goto
  <2>9. CASE SelectHigh \/ SelectLow \/ WriteHigh
    BY <2>9 DEF SelectHigh, SelectLow, Select, WriteHigh, At, Goto
  <2>10. CASE WriteLow
    BY <2>10 DEF WriteLow, At
  <2>. QED
    BY <1>4, <2>1, <2>2, <2>3, <2>4, <2>5, <2>6, <2>7, <2>8, <2>9, <2>10 DEF Step
<1>5. CASE UNCHANGED vars
  BY <1>5 DEF vars
<1>. QED BY <1>1, <1>2, <1>3, <1>4, <1>5 DEF Next

(* kprintf and console_puts index the buffer inside its bounds, and no     *)
(* other step of the program counter is taken (kernel/libc/printf.c).      *)
THEOREM IndexInBuffer == Spec => []TypeOK
<1>1. PrintInv => TypeOK
  BY DEF PrintInv
<1>. QED BY PrintInit, PrintNext, <1>1, PTL DEF Spec

(* console_puts always has a terminator ahead of it, whatever the timer    *)
(* prints over the text being written out (kernel/console.c, task.c).      *)
THEOREM PutsEnds == Spec => []TerminatorAhead
<1>1. PrintInv => TerminatorAhead
  BY DEF PrintInv
<1>. QED BY PrintInit, PrintNext, <1>1, PTL DEF Spec

-----------------------------------------------------------------------------
(* The least of some numbers.                                              *)

LEMMA LessIsWellFounded == IsWellFoundedOn({q \in Nat \X Nat : q[1] < q[2]}, Nat)
BY NatLessThanWellFounded DEF OpToRel

LEMMA Smallest ==
  ASSUME NEW T, T \subseteq Nat, T # {}
  PROVE  \E m \in T : \A k \in T : ~(k < m)
<1>. DEFINE R == {q \in Nat \X Nat : q[1] < q[2]}
<1>1. IsWellFoundedOn(R, Nat)
  BY LessIsWellFounded
<1>. HIDE DEF R
<1>2. PICK m \in T : \A k \in T : ~(<<k, m>> \in R)
  BY <1>1, WFMin
<1>. QED BY <1>2 DEF R

-----------------------------------------------------------------------------
(* Printing a text, character by character.                                *)

(* console_puts and TypedText are folds of these.                          *)
Do(what, s, c) == IF what = "puts" THEN console_putchar(s, c) ELSE Typed(s, c)

(* The function by which FoldLeft is defined, on the sets of indices up to *)
(* n: its value at 1..m is the fold of the first m characters.             *)
Fold(h, what, s, txt, n) ==
  h = [t \in SUBSET (1..n) |-> IF t = {} THEN s ELSE Do(what, h[t \ {Max(t)}], txt[Max(t)])]

LEMMA LastIndex == \A m \in Nat \ {0} : Max(1..m) = m /\ (1..m) \ {m} = 1..m-1
<1>. SUFFICES ASSUME NEW m \in Nat \ {0} PROVE Max(1..m) = m /\ (1..m) \ {m} = 1..m-1
  OBVIOUS
<1>1. (1..m) \ {m} = 1..m-1
  OBVIOUS
<1>2. \A x \in 1..m : (\A y \in 1..m : x >= y) <=> x = m
  OBVIOUS
<1>3. Max(1..m) = m
  BY <1>2 DEF Max
<1>. QED BY <1>1, <1>3

LEMMA FoldExists ==
  ASSUME NEW what, NEW s, NEW txt
  PROVE  \A n \in Nat : \E h : Fold(h, what, s, txt, n)
<1>. DEFINE E(n) == \E h : Fold(h, what, s, txt, n)
<1>1. E(0)
  <2>1. Fold([t \in SUBSET (1..0) |-> s], what, s, txt, 0)
    BY DEF Fold
  <2>. QED BY <2>1
<1>2. ASSUME NEW n \in Nat, E(n) PROVE E(n + 1)
  <2>. PICK h : Fold(h, what, s, txt, n)
    BY <1>2
  <2>. DEFINE g == [t \in SUBSET (1..n+1) |->
                      IF n + 1 \in t THEN Do(what, h[t \ {n + 1}], txt[n + 1]) ELSE h[t]]
  <2>1. ASSUME NEW t \in SUBSET (1..n+1)
        PROVE  g[t] = IF t = {} THEN s ELSE Do(what, g[t \ {Max(t)}], txt[Max(t)])
    <3>1. CASE n + 1 \in t
      <4>1. \A x \in t : (\A y \in t : x >= y) <=> x = n + 1
        BY <3>1
      <4>2. Max(t) = n + 1
        BY <3>1, <4>1 DEF Max
      <4>3. t \ {n + 1} \in SUBSET (1..n+1) /\ n + 1 \notin t \ {n + 1}
        OBVIOUS
      <4>4. g[t \ {n + 1}] = h[t \ {n + 1}]
        BY <4>3
      <4>. QED BY <3>1, <4>2, <4>4
    <3>2. CASE n + 1 \notin t
      <4>1. t \in SUBSET (1..n)
        BY <3>2
      <4>2. g[t] = h[t] /\ g[t \ {Max(t)}] = h[t \ {Max(t)}]
        BY <3>2
      <4>3. h[t] = IF t = {} THEN s ELSE Do(what, h[t \ {Max(t)}], txt[Max(t)])
        BY <4>1 DEF Fold
      <4>. QED BY <4>2, <4>3
    <3>. QED BY <3>1, <3>2
  <2>2. Fold(g, what, s, txt, n + 1)
    <3>1. g = [t \in SUBSET (1..n+1) |-> g[t]]
      OBVIOUS
    <3>. HIDE DEF g
    <3>. QED BY <2>1, <3>1 DEF Fold
  <2>. QED BY <2>2
<1>. HIDE DEF E
<1>3. \A n \in Nat : E(n)
  <2>. SUFFICES ASSUME NEW k \in Nat, ~E(k) PROVE FALSE
    OBVIOUS
  <2>. DEFINE T == {n \in Nat : ~E(n)}
  <2>1. PICK m \in T : \A j \in T : ~(j < m)
    <3>1. T \subseteq Nat /\ T # {}
      OBVIOUS
    <3>. HIDE DEF T
    <3>. QED BY <3>1, Smallest
  <2>2. m # 0
    BY <1>1
  <2>3. m - 1 \in Nat /\ m - 1 < m /\ m = (m - 1) + 1
    BY <2>2
  <2>4. E(m - 1)
    BY <2>1, <2>3
  <2>5. E((m - 1) + 1)
    BY <1>2, <2>3, <2>4
  <2>. QED BY <2>3, <2>5
<1>. QED BY <1>3 DEF E

(* As steps: f[m] is the result of the first m characters.                 *)
Steps(f, what, s, txt, n) ==
  f[0] = s /\ \A m \in 1..n : f[m] = Do(what, f[m - 1], txt[m])

LEMMA FoldSteps ==
  ASSUME NEW h, NEW what, NEW s, NEW txt, NEW n \in Nat, Fold(h, what, s, txt, n)
  PROVE  \E f : Steps(f, what, s, txt, n) /\ h[1..n] = f[n]
<1>. DEFINE f == [m \in 0..n |-> h[1..m]]
<1>1. f[0] = s
  <2>1. h[{}] = s
    BY DEF Fold
  <2>2. f[0] = h[1..0] /\ 1..0 = {}
    OBVIOUS
  <2>. QED BY <2>1, <2>2
<1>2. ASSUME NEW m \in 1..n PROVE f[m] = Do(what, f[m - 1], txt[m])
  <2>1. 1..m \in SUBSET (1..n) /\ 1..m # {} /\ m \in Nat \ {0}
    OBVIOUS
  <2>2. Max(1..m) = m /\ (1..m) \ {m} = 1..m-1
    BY <2>1, LastIndex
  <2>3. h[1..m] = Do(what, h[(1..m) \ {Max(1..m)}], txt[Max(1..m)])
    BY <2>1 DEF Fold
  <2>4. f[m] = h[1..m] /\ f[m - 1] = h[1..m-1]
    OBVIOUS
  <2>. QED BY <2>2, <2>3, <2>4
<1>3. f[n] = h[1..n]
  OBVIOUS
<1>. HIDE DEF f
<1>. QED BY <1>1, <1>2, <1>3 DEF Steps

PutsFold(h, s, txt, n) ==
  h = [t \in SUBSET (1..n) |->
         IF t = {} THEN s ELSE console_putchar(h[t \ {Max(t)}], txt[Max(t)])]
TypedFold(h, s, txt, n) ==
  h = [t \in SUBSET (1..n) |-> IF t = {} THEN s ELSE Typed(h[t \ {Max(t)}], txt[Max(t)])]

LEMMA PutsTaken ==
  ASSUME NEW s, NEW txt \in Seq(STRING)
  PROVE  \E f : Steps(f, "puts", s, txt, Len(txt)) /\ console_puts(s, txt) = f[Len(txt)]
<1>. PICK n : n = Len(txt)
  OBVIOUS
<1>0. n \in Nat /\ DOMAIN txt = 1..n
  OBVIOUS
<1>. DEFINE h == CHOOSE g : PutsFold(g, s, txt, n)
<1>1. console_puts(s, txt) = h[1..n]
  <2>1. console_puts(s, txt) = (CHOOSE g : PutsFold(g, s, txt, Len(txt)))[DOMAIN txt]
    BY <1>0, Zenon DEF console_puts, FoldLeft, MapThenFoldSet, PutsFold
  <2>. QED BY <1>0, <2>1
<1>2. \A g : PutsFold(g, s, txt, n) <=> Fold(g, "puts", s, txt, n)
  BY DEF PutsFold, Fold, Do
<1>3. PutsFold(h, s, txt, n)
  BY <1>0, <1>2, FoldExists
<1>. HIDE DEF h
<1>. QED BY <1>0, <1>1, <1>2, <1>3, FoldSteps

LEMMA TypedTaken ==
  ASSUME NEW w, NEW txt \in Seq(STRING)
  PROVE  \E f : Steps(f, "type", w, txt, Len(txt)) /\ TypedText(w, txt) = f[Len(txt)]
<1>. PICK n : n = Len(txt)
  OBVIOUS
<1>0. n \in Nat /\ DOMAIN txt = 1..n
  OBVIOUS
<1>. DEFINE h == CHOOSE g : TypedFold(g, w, txt, n)
<1>1. TypedText(w, txt) = h[1..n]
  <2>1. TypedText(w, txt) = (CHOOSE g : TypedFold(g, w, txt, Len(txt)))[DOMAIN txt]
    BY <1>0, Zenon DEF TypedText, FoldLeft, MapThenFoldSet, TypedFold
  <2>. QED BY <1>0, <2>1
<1>2. \A g : TypedFold(g, w, txt, n) <=> Fold(g, "type", w, txt, n)
  BY DEF TypedFold, Fold, Do
<1>3. TypedFold(h, w, txt, n)
  BY <1>0, <1>2, FoldExists
<1>. HIDE DEF h
<1>. QED BY <1>0, <1>1, <1>2, <1>3, FoldSteps

LEMMA StepsUnique ==
  ASSUME NEW s, NEW txt, NEW n \in Nat, NEW what, NEW f, Steps(f, what, s, txt, n),
         NEW g, Steps(g, what, s, txt, n)
  PROVE  \A m \in 0..n : f[m] = g[m]
<1>. SUFFICES ASSUME NEW k \in 0..n, f[k] # g[k] PROVE FALSE
  OBVIOUS
<1>. DEFINE T == {m \in 0..n : f[m] # g[m]}
<1>1. PICK m \in T : \A j \in T : ~(j < m)
  <2>1. T \subseteq Nat /\ T # {}
    OBVIOUS
  <2>. HIDE DEF T
  <2>. QED BY <2>1, Smallest
<1>2. m # 0
  BY DEF Steps
<1>3. m \in 1..n /\ m - 1 \in 0..n /\ m - 1 < m
  BY <1>2
<1>4. f[m - 1] = g[m - 1]
  BY <1>1, <1>3
<1>5. f[m] = Do(what, f[m - 1], txt[m]) /\ g[m] = Do(what, g[m - 1], txt[m])
  BY <1>3 DEF Steps
<1>. QED BY <1>4, <1>5

(* What is on the screen after the first n characters of a text.           *)
After(s, txt, n) == console_puts(s, SubSeq(txt, 1, n))

LEMMA PrefixOf ==
  ASSUME NEW txt \in Seq(STRING), NEW n \in 0..Len(txt)
  PROVE  /\ SubSeq(txt, 1, n) \in Seq(STRING) /\ Len(SubSeq(txt, 1, n)) = n
         /\ \A m \in 1..n : SubSeq(txt, 1, n)[m] = txt[m]
OBVIOUS

LEMMA PutsPrefix ==
  ASSUME NEW s, NEW txt \in Seq(STRING)
  PROVE  /\ After(s, txt, 0) = s /\ After(s, txt, Len(txt)) = console_puts(s, txt)
         /\ \A n \in 1..Len(txt) : After(s, txt, n) = console_putchar(After(s, txt, n - 1), txt[n])
<1>. PICK f : Steps(f, "puts", s, txt, Len(txt)) /\ console_puts(s, txt) = f[Len(txt)]
  BY PutsTaken
<1>0. Len(txt) \in Nat
  OBVIOUS
<1>1. ASSUME NEW n \in 0..Len(txt) PROVE After(s, txt, n) = f[n]
  <2>. PICK t : t = SubSeq(txt, 1, n)
    OBVIOUS
  <2>1. t \in Seq(STRING) /\ Len(t) = n /\ \A m \in 1..n : t[m] = txt[m]
    BY PrefixOf
  <2>2. PICK g : Steps(g, "puts", s, t, n) /\ console_puts(s, t) = g[n]
    BY <2>1, PutsTaken
  <2>3. Steps(f, "puts", s, t, n)
    BY <1>0, <2>1 DEF Steps
  <2>4. f[n] = g[n]
    BY <1>0, <2>2, <2>3, StepsUnique
  <2>. QED BY <2>2, <2>4 DEF After
<1>2. After(s, txt, 0) = s
  BY <1>0, <1>1 DEF Steps
<1>3. ASSUME NEW n \in 1..Len(txt)
      PROVE  After(s, txt, n) = console_putchar(After(s, txt, n - 1), txt[n])
  <2>1. n \in 0..Len(txt) /\ n - 1 \in 0..Len(txt)
    BY <1>0
  <2>2. After(s, txt, n) = f[n] /\ After(s, txt, n - 1) = f[n - 1]
    BY <1>1, <2>1
  <2>. QED BY <2>2 DEF Steps, Do
<1>. QED BY <1>0, <1>1, <1>2, <1>3

-----------------------------------------------------------------------------
(* The screen.                                                             *)

(* While the kernel goes to the next line, its row may be the one below    *)
(* the last.                                                               *)
Scrolling == [mem : [Cells -> Printable], x : Nat, y : 0..ROWS]
Screens == {s \in Scrolling : s.y < ROWS}

LEMMA Controls ==
  /\ "NUL" \notin Printable /\ "LF" \notin Printable /\ "CR" \notin Printable
  /\ "HT" \notin Printable /\ "BS" \notin Printable /\ Blank \in Printable
BY ScreenAssumption

LEMMA CellAt ==
  ASSUME NEW r \in 0..ROWS-1, NEW k \in 0..COLS-1
  PROVE  r * COLS + k \in Cells /\ r * COLS \in Nat
<1>1. COLS \in Nat /\ ROWS \in Nat /\ r \in Nat
  BY ScreenAssumption
<1>. PICK d \in Nat : ROWS = r + 1 + d
  BY <1>1
<1>2. ROWS * COLS = r * COLS + COLS + d * COLS
  BY <1>1
<1>3. d * COLS \in Nat /\ r * COLS \in Nat
  BY <1>1
<1>4. ROWS * COLS - 1 >= r * COLS + k
  BY <1>1, <1>2, <1>3
<1>. QED BY <1>1, <1>2, <1>3, <1>4 DEF Cells

LEMMA TabType == \A x \in Nat : NextTab(x) \in Nat
<1>. SUFFICES ASSUME NEW x \in Nat PROVE NextTab(x) \in Nat
  OBVIOUS
<1>. PICK t \in Nat \ {0} : t = TAB
  BY ScreenAssumption
<1>1. (x + t) % t \in 0..t-1
  OBVIOUS
<1>. QED BY <1>1 DEF NextTab

LEMMA Parts ==
  ASSUME NEW s \in Scrolling
  PROVE  /\ s = [mem |-> s.mem, x |-> s.x, y |-> s.y]
         /\ s.mem \in [Cells -> Printable] /\ s.x \in Nat /\ s.y \in 0..ROWS
BY DEF Scrolling

LEMMA Whole ==
  ASSUME NEW m \in [Cells -> Printable], NEW x \in Nat, NEW y \in 0..ROWS
  PROVE  [mem |-> m, x |-> x, y |-> y] \in Scrolling
BY DEF Scrolling

(* The memory after the rows have moved up.                                *)
Up(m) == [k \in Cells |-> IF k + COLS \in Cells THEN m[k + COLS] ELSE Blank]

LEMMA ScrollIs ==
  ASSUME NEW m, NEW x, NEW y
  PROVE  console_scroll([mem |-> m, x |-> x, y |-> y])
           = IF y < ROWS THEN [mem |-> m, x |-> x, y |-> y]
             ELSE [mem |-> Up(m), x |-> x, y |-> ROWS - 1]
<1>. PICK s : s = [mem |-> m, x |-> x, y |-> y]
  OBVIOUS
<1>1. CASE y < ROWS
  BY <1>1 DEF console_scroll
<1>2. CASE ~(y < ROWS)
  <2>1. console_scroll(s) = [s EXCEPT !.mem = Up(m), !.y = ROWS - 1]
    BY <1>2 DEF console_scroll, Up
  <2>. QED BY <1>2, <2>1
<1>. QED BY <1>1, <1>2

LEMMA UpType == \A m \in [Cells -> Printable] : Up(m) \in [Cells -> Printable]
BY Controls DEF Up

LEMMA ScrollType == \A s \in Scrolling : console_scroll(s) \in Screens
<1>. SUFFICES ASSUME NEW s \in Scrolling PROVE console_scroll(s) \in Screens
  OBVIOUS
<1>. PICK m, x, y : m = s.mem /\ x = s.x /\ y = s.y
  OBVIOUS
<1>1. ROWS \in Nat \ {0}
  BY ScreenAssumption
<1>2. s = [mem |-> m, x |-> x, y |-> y] /\ m \in [Cells -> Printable] /\ x \in Nat /\ y \in 0..ROWS
  BY Parts
<1>3. CASE y < ROWS
  BY <1>2, <1>3, ScrollIs DEF Screens
<1>4. CASE ~(y < ROWS)
  <2>1. console_scroll(s) = [mem |-> Up(m), x |-> x, y |-> ROWS - 1]
    BY <1>2, <1>4, ScrollIs
  <2>2. Up(m) \in [Cells -> Printable] /\ ROWS - 1 \in 0..ROWS /\ ROWS - 1 < ROWS
    BY <1>1, <1>2, UpType
  <2>3. console_scroll(s) \in Scrolling
    BY <1>2, <2>1, <2>2, Whole
  <2>. QED BY <2>1, <2>2, <2>3 DEF Screens
<1>. QED BY <1>3, <1>4

(* console_putchar before it scrolls.                                      *)
Moved(s, c) ==
  CASE c \in Printable -> [s EXCEPT !.mem[s.y * COLS + s.x] = c, !.x = Column(c, s.x)]
    [] c = "HT" \/ (c = "BS" /\ s.x > 0) -> [s EXCEPT !.x = Column(c, s.x)]
    [] c = "CR" -> [s EXCEPT !.x = 0]
    [] c = "LF" -> [s EXCEPT !.x = 0, !.y = s.y + 1]
    [] OTHER -> s

(* The characters that do nothing.                                         *)
Ignored(c, x) == c \notin Printable \cup {"HT", "CR", "LF"} /\ ~(c = "BS" /\ x > 0)

LEMMA MovedIs ==
  ASSUME NEW m, NEW x, NEW y, NEW c, NEW s, s = [mem |-> m, x |-> x, y |-> y]
  PROVE  /\ console_putchar(s, c) = console_scroll(Moved(s, c))
         /\ c \in Printable =>
              Moved(s, c) = [mem |-> [m EXCEPT ![y * COLS + x] = c], x |-> x + 1, y |-> y]
         /\ c = "HT" => Moved(s, c) = [mem |-> m, x |-> NextTab(x), y |-> y]
         /\ c = "BS" /\ x > 0 => Moved(s, c) = [mem |-> m, x |-> x - 1, y |-> y]
         /\ c = "CR" => Moved(s, c) = [mem |-> m, x |-> 0, y |-> y]
         /\ c = "LF" => Moved(s, c) = [mem |-> m, x |-> 0, y |-> y + 1]
         /\ Ignored(c, x) => Moved(s, c) = s
<1>1. console_putchar(s, c) = console_scroll(Moved(s, c))
  BY DEF console_putchar, Moved
<1>2. ASSUME c \in Printable
      PROVE  Moved(s, c) = [mem |-> [m EXCEPT ![y * COLS + x] = c], x |-> x + 1, y |-> y]
  <2>. PICK i : i = s.y * COLS + s.x
    OBVIOUS
  <2>1. Moved(s, c) = [s EXCEPT !.mem[i] = c, !.x = Column(c, s.x)]
    BY <1>2, Controls DEF Moved
  <2>2. Column(c, s.x) = x + 1 /\ i = y * COLS + x
    BY <1>2, Controls DEF Column
  <2>3. [s EXCEPT !.mem[i] = c, !.x = x + 1] = [[s EXCEPT !.mem[i] = c] EXCEPT !.x = x + 1]
    OBVIOUS
  <2>4. [s EXCEPT !.mem[i] = c] = [mem |-> [m EXCEPT ![i] = c], x |-> x, y |-> y]
    OBVIOUS
  <2>. QED BY <2>1, <2>2, <2>3, <2>4
<1>3. c = "HT" => Moved(s, c) = [mem |-> m, x |-> NextTab(x), y |-> y]
  BY Controls DEF Moved, Column
<1>4. c = "BS" /\ x > 0 => Moved(s, c) = [mem |-> m, x |-> x - 1, y |-> y]
  BY Controls DEF Moved, Column
<1>5. c = "CR" => Moved(s, c) = [mem |-> m, x |-> 0, y |-> y]
  BY Controls DEF Moved
<1>6. c = "LF" => Moved(s, c) = [mem |-> m, x |-> 0, y |-> y + 1]
  BY Controls DEF Moved
<1>7. Ignored(c, x) => Moved(s, c) = s
  BY DEF Moved, Ignored
<1>. QED BY <1>1, <1>2, <1>3, <1>4, <1>5, <1>6, <1>7

LEMMA MovedType ==
  ASSUME NEW s \in Screens, NEW c
  PROVE  Moved(s, c) \in Scrolling
<1>. PICK m, x, y : m = s.mem /\ x = s.x /\ y = s.y
  OBVIOUS
<1>1. /\ s = [mem |-> m, x |-> x, y |-> y] /\ s \in Scrolling
      /\ m \in [Cells -> Printable] /\ x \in Nat /\ y \in 0..ROWS /\ y + 1 \in 0..ROWS
  <2>1. s \in Scrolling /\ y < ROWS
    BY DEF Screens
  <2>. QED BY <2>1, Parts, ScreenAssumption
<1>2. CASE c \in Printable
  <2>1. \A i : [m EXCEPT ![i] = c] \in [Cells -> Printable]
    BY <1>1, <1>2
  <2>2. Moved(s, c) = [mem |-> [m EXCEPT ![y * COLS + x] = c], x |-> x + 1, y |-> y]
    BY <1>1, <1>2, MovedIs
  <2>3. x + 1 \in Nat /\ [m EXCEPT ![y * COLS + x] = c] \in [Cells -> Printable]
    BY <1>1, <2>1
  <2>. QED BY <1>1, <2>2, <2>3, Whole
<1>3. CASE c = "HT"
  BY <1>1, <1>3, MovedIs, TabType, Whole
<1>4. CASE c = "BS" /\ x > 0
  <2>1. x - 1 \in Nat
    BY <1>1, <1>4
  <2>. QED BY <1>1, <1>4, <2>1, MovedIs, Whole
<1>5. CASE c = "CR"
  BY <1>1, <1>5, MovedIs, Whole
<1>6. CASE c = "LF"
  <2>1. Moved(s, c) = [mem |-> m, x |-> 0, y |-> y + 1]
    BY <1>1, <1>6, MovedIs
  <2>. QED BY <1>1, <2>1, Whole
<1>7. CASE Ignored(c, x)
  BY <1>1, <1>7, MovedIs
<1>. QED BY <1>2, <1>3, <1>4, <1>5, <1>6, <1>7 DEF Ignored

LEMMA PutcharType == ASSUME NEW s \in Screens, NEW c PROVE console_putchar(s, c) \in Screens
<1>1. s = [mem |-> s.mem, x |-> s.x, y |-> s.y]
  BY Parts DEF Screens
<1>. QED BY <1>1, MovedIs, MovedType, ScrollType

-----------------------------------------------------------------------------
(* The message of switch_task.                                             *)

LEMMA MessageParts ==
  /\ Message \in Seq(STRING) /\ Len(Message) \in Nat /\ Len(Message) >= 2
  /\ Len(Message) - 2 <= COLS /\ COLS \in Nat \ {0} /\ ROWS \in Nat /\ ROWS > 1
  /\ Message[1] = "LF" /\ Message[Len(Message)] = "LF"
  /\ \A k \in 2 .. Len(Message) - 1 : Message[k] \in Printable
<1>1. Message \in Seq(STRING)
  BY BufferAssumption
<1>2. Len(Message) \in Nat
  BY <1>1
<1>. QED BY <1>1, <1>2, MessageAssumption, ScreenAssumption

(* A line feed, from wherever it comes.                                    *)
LEMMA LineFeed ==
  ASSUME NEW s \in Scrolling, NEW r, r = console_putchar(s, "LF")
  PROVE  /\ r \in Screens /\ r.x = 0 /\ r.y \in 1..ROWS-1
         /\ IF s.y + 1 < ROWS THEN r.y = s.y + 1 /\ r.mem = s.mem
            ELSE r.y = ROWS - 1 /\ r.mem = Up(s.mem)
<1>. PICK m, x, y : m = s.mem /\ x = s.x /\ y = s.y
  OBVIOUS
<1>1. s = [mem |-> m, x |-> x, y |-> y] /\ m \in [Cells -> Printable] /\ y \in 0..ROWS
  BY Parts
<1>2. r = console_scroll([mem |-> m, x |-> 0, y |-> y + 1])
  BY <1>1, MovedIs
<1>3. ROWS \in Nat /\ ROWS > 1
  BY MessageParts
<1>4. CASE y + 1 < ROWS
  <2>1. r = [mem |-> m, x |-> 0, y |-> y + 1]
    BY <1>2, <1>4, ScrollIs
  <2>2. r \in Scrolling
    BY <1>1, <1>3, <1>4, <2>1, Whole
  <2>. QED BY <1>1, <1>3, <1>4, <2>1, <2>2 DEF Screens
<1>5. CASE ~(y + 1 < ROWS)
  <2>1. r = [mem |-> Up(m), x |-> 0, y |-> ROWS - 1]
    BY <1>2, <1>5, ScrollIs
  <2>2. Up(m) \in [Cells -> Printable] /\ ROWS - 1 \in 0..ROWS
    BY <1>1, <1>3, UpType
  <2>3. r \in Scrolling
    BY <2>1, <2>2, Whole
  <2>. QED BY <1>1, <1>3, <1>5, <2>1, <2>3 DEF Screens
<1>. QED BY <1>4, <1>5

(* A printable character.                                                  *)
LEMMA Printed ==
  ASSUME NEW s \in Screens, NEW c \in Printable, NEW r, r = console_putchar(s, c)
  PROVE  r \in Screens /\ r = [mem |-> [s.mem EXCEPT ![s.y * COLS + s.x] = c],
                               x |-> s.x + 1, y |-> s.y]
<1>. PICK m, x, y : m = s.mem /\ x = s.x /\ y = s.y
  OBVIOUS
<1>1. s = [mem |-> m, x |-> x, y |-> y] /\ y < ROWS
  BY Parts DEF Screens
<1>2. r = console_scroll([mem |-> [m EXCEPT ![y * COLS + x] = c], x |-> x + 1, y |-> y])
  BY <1>1, MovedIs
<1>3. r = [mem |-> [m EXCEPT ![y * COLS + x] = c], x |-> x + 1, y |-> y]
  BY <1>1, <1>2, ScrollIs
<1>. QED BY <1>3, PutcharType

(* After n characters of the message, the letters are in row y so far.     *)
Lettered(r, y, n) ==
  /\ r \in Screens /\ r.x = n - 1 /\ r.y = y
  /\ \A k \in 1..n-1 : r.mem[y * COLS + k - 1] = Message[k + 1]

LEMMA LetterAdded ==
  ASSUME NEW y \in 1..ROWS-1, NEW n \in 1..Len(Message)-2, NEW r, Lettered(r, y, n)
  PROVE  Lettered(console_putchar(r, Message[n + 1]), y, n + 1)
<1>. PICK q, c : q = console_putchar(r, c) /\ c = Message[n + 1]
  OBVIOUS
<1>. PICK base : base = y * COLS
  OBVIOUS
<1>0. r \in Screens /\ r.x = n - 1 /\ r.y = y /\ n - 1 \in 0..COLS-1 /\ c \in Printable
  BY MessageParts DEF Lettered
<1>1. q \in Screens /\ q = [mem |-> [r.mem EXCEPT ![base + (n - 1)] = c], x |-> n, y |-> y]
  <2>1. r.y * COLS + r.x = base + (n - 1) /\ r.x + 1 = n
    BY <1>0, MessageParts
  <2>2. q \in Screens /\ q = [mem |-> [r.mem EXCEPT ![r.y * COLS + r.x] = c], x |-> r.x + 1, y |-> r.y]
    BY <1>0, Printed
  <2>. QED BY <1>0, <2>1, <2>2
<1>2. \A k \in 1..n : base + (k - 1) \in Cells /\ base \in Nat
  <2>. SUFFICES ASSUME NEW k \in 1..n PROVE base + (k - 1) \in Cells /\ base \in Nat
    OBVIOUS
  <2>1. k - 1 \in 0..COLS-1 /\ y \in 0..ROWS-1
    BY <1>0, MessageParts
  <2>. QED BY <2>1, CellAt
<1>3. r.mem \in [Cells -> Printable]
  BY <1>0, Parts DEF Screens
<1>4. ASSUME NEW k \in 1..n PROVE q.mem[base + k - 1] = Message[k + 1]
  <2>1. base + k - 1 = base + (k - 1) /\ base + (k - 1) \in Cells
    BY <1>2
  <2>2. CASE k = n
    BY <1>0, <1>1, <1>3, <2>1, <2>2
  <2>3. CASE k # n
    <3>1. base + (k - 1) # base + (n - 1) /\ k \in 1..n-1
      BY <1>2, <2>3
    <3>2. q.mem[base + (k - 1)] = r.mem[base + (k - 1)]
      BY <1>1, <1>3, <2>1, <3>1
    <3>3. r.mem[base + k - 1] = Message[k + 1]
      BY <3>1 DEF Lettered
    <3>. QED BY <2>1, <3>2, <3>3
  <2>. QED BY <2>2, <2>3
<1>5. q.x = (n + 1) - 1 /\ q.y = y /\ \A k \in 1..(n+1)-1 : q.mem[base + k - 1] = Message[k + 1]
  BY <1>1, <1>4, MessageParts, SMTT(30)
<1>. QED BY <1>1, <1>5 DEF Lettered

LEMMA MessageSteps ==
  ASSUME NEW s \in Scrolling
  PROVE  \E y \in 1..ROWS-1 : \A n \in 1..Len(Message)-1 : Lettered(After(s, Message, n), y, n)
<1>. DEFINE f(n) == After(s, Message, n)
<1>. PICK y : y = f(1).y
  OBVIOUS
<1>0. f(0) = s /\ \A n \in 1..Len(Message) : f(n) = console_putchar(f(n - 1), Message[n])
  BY MessageParts, PutsPrefix
<1>. HIDE DEF f
<1>1. Lettered(f(1), y, 1) /\ y \in 1..ROWS-1
  <2>1. f(1) = console_putchar(s, "LF")
    BY <1>0, MessageParts
  <2>2. f(1) \in Screens /\ f(1).x = 0 /\ y \in 1..ROWS-1
    BY <2>1, LineFeed
  <2>. QED BY <2>2 DEF Lettered
<1>2. \A n \in 1..Len(Message)-1 : Lettered(f(n), y, n)
  <2>. SUFFICES ASSUME NEW j \in 1..Len(Message)-1, ~Lettered(f(j), y, j) PROVE FALSE
    OBVIOUS
  <2>. DEFINE T == {n \in 1..Len(Message)-1 : ~Lettered(f(n), y, n)}
  <2>1. PICK n \in T : \A k \in T : ~(k < n)
    <3>1. T \subseteq Nat /\ T # {}
      BY MessageParts
    <3>. HIDE DEF T
    <3>. QED BY <3>1, Smallest
  <2>2. n # 1
    BY <1>1
  <2>. PICK k : k = n - 1
    OBVIOUS
  <2>3. k \in 1..Len(Message)-2 /\ k < n /\ n = k + 1 /\ k \in 1..Len(Message)-1
    BY <2>2, MessageParts
  <2>4. Lettered(f(k), y, k)
    BY <2>1, <2>3
  <2>5. f(n) = console_putchar(f(k), Message[k + 1])
    BY <1>0, <2>3, MessageParts
  <2>6. Lettered(f(n), y, n)
    BY <1>1, <2>3, <2>4, <2>5, LetterAdded
  <2>. QED BY <2>6
<1>. QED BY <1>1, <1>2 DEF f

LEMMA MessageLine ==
  ASSUME NEW s \in Scrolling, NEW r, r = console_puts(s, Message)
  PROVE  /\ r \in Screens /\ r.x = 0 /\ r.y \in 1..ROWS-1
         /\ \A k \in 1 .. Len(Message) - 2 : r.mem[(r.y - 1) * COLS + k - 1] = Message[k + 1]
<1>. DEFINE f(n) == After(s, Message, n)
<1>0. f(Len(Message)) = r /\ \A n \in 1..Len(Message) : f(n) = console_putchar(f(n - 1), Message[n])
  BY MessageParts, PutsPrefix
<1>1. PICK y \in 1..ROWS-1 : \A n \in 1..Len(Message)-1 : Lettered(f(n), y, n)
  BY MessageSteps
<1>. HIDE DEF f
<1>2. y \in Int
  BY MessageParts
<1>. PICK q, l : q = f(l - 1) /\ l = Len(Message)
  OBVIOUS
<1>3. l \in Nat /\ l >= 2 /\ Lettered(q, y, l - 1) /\ r = console_putchar(q, "LF")
  BY <1>0, <1>1, MessageParts
<1>4. q \in Screens /\ q \in Scrolling /\ q.y = y /\ q.mem \in [Cells -> Printable]
  <2>1. q \in Screens /\ q \in Scrolling /\ q.y = y
    BY <1>3 DEF Lettered, Screens
  <2>. QED BY <2>1, Parts
<1>5. /\ r \in Screens /\ r.x = 0 /\ r.y \in 1..ROWS-1
      /\ IF y + 1 < ROWS THEN r.y = y + 1 /\ r.mem = q.mem
         ELSE r.y = ROWS - 1 /\ r.mem = Up(q.mem)
  BY <1>3, <1>4, LineFeed
<1>6. ASSUME NEW k \in 1 .. l - 2
      PROVE  r.mem[(r.y - 1) * COLS + k - 1] = Message[k + 1]
  <2>1. q.mem[y * COLS + k - 1] = Message[k + 1]
    BY <1>3 DEF Lettered
  <2>2. CASE y + 1 < ROWS
    <3>1. r.y - 1 = y
      BY <1>2, <1>5, <2>2
    <3>. QED BY <1>5, <2>1, <2>2, <3>1
  <2>3. CASE ~(y + 1 < ROWS)
    <3>. PICK i : i = (r.y - 1) * COLS + k - 1
      OBVIOUS
    <3>1. y = ROWS - 1 /\ r.y = ROWS - 1 /\ r.mem = Up(q.mem)
      BY <1>5, <2>3, MessageParts
    <3>2. i \in Cells /\ i + COLS = y * COLS + k - 1 /\ i + COLS \in Cells
      <4>. PICK d : d = y - 1
        OBVIOUS
      <4>1. /\ d \in 0..ROWS-1 /\ y \in 0..ROWS-1 /\ y = d + 1 /\ COLS \in Nat
            /\ k - 1 \in 0..COLS-1 /\ k \in Nat
        BY <1>3, MessageParts
      <4>. PICK b : b = d * COLS
        OBVIOUS
      <4>2. b + (k - 1) \in Cells /\ y * COLS + (k - 1) \in Cells /\ b \in Nat /\ y * COLS \in Nat
        BY <4>1, CellAt
      <4>3. y * COLS = b + COLS
        BY <4>1
      <4>4. i = b + (k - 1) /\ y * COLS + (k - 1) = y * COLS + k - 1
        BY <3>1, <4>1, <4>2
      <4>5. i + COLS = y * COLS + (k - 1)
        BY <4>1, <4>2, <4>3, <4>4
      <4>. QED BY <4>2, <4>4, <4>5
    <3>3. Up(q.mem)[i] = q.mem[i + COLS]
      BY <3>2 DEF Up
    <3>. QED BY <2>1, <3>1, <3>2, <3>3
  <2>. QED BY <2>2, <2>3
<1>. QED BY <1>3, <1>5, <1>6

-----------------------------------------------------------------------------
(* The window on the paper.                                                *)

(* A number has one quotient and one remainder.                            *)
LEMMA Apart ==
  ASSUME NEW t \in Nat \ {0}, NEW r \in Nat, NEW k \in 0..t-1, NEW q \in Nat, NEW j \in 0..t-1,
         r * t + k = q * t + j
  PROVE  r = q /\ k = j
<1>1. ASSUME NEW a \in Nat, NEW b \in Nat, NEW e \in 0..t-1, NEW h \in 0..t-1, a < b
      PROVE  a * t + e < b * t + h
  <2>. PICK d \in Nat : b = a + 1 + d
    BY <1>1
  <2>1. b * t = a * t + t + d * t /\ d * t \in Nat /\ a * t \in Nat
    OBVIOUS
  <2>. QED BY <2>1
<1>2. ~(r < q) /\ ~(q < r)
  <2>1. r * t + k \in Nat /\ q * t + j \in Nat
    OBVIOUS
  <2>2. r < q => r * t + k < q * t + j
    BY <1>1
  <2>3. q < r => q * t + j < r * t + k
    BY <1>1
  <2>. QED BY <2>1, <2>2, <2>3
<1>3. r = q
  BY <1>2
<1>4. r * t \in Nat
  OBVIOUS
<1>. QED BY <1>3, <1>4

LEMMA Divided ==
  ASSUME NEW t \in Nat \ {0}, NEW n \in Nat
  PROVE  n % t \in 0..t-1 /\ n \div t \in Nat /\ n = (n \div t) * t + (n % t)
OBVIOUS

(* The only column a tab can lead to.                                      *)
LEMMA TabStop ==
  ASSUME NEW x \in Nat
  PROVE  (CHOOSE k \in x + 1 .. x + TAB : k % TAB = 0) = NextTab(x)
<1>. PICK t : t = TAB
  OBVIOUS
<1>1. t \in Nat \ {0}
  BY ScreenAssumption
<1>. PICK a, d : a = (x + t) % t /\ d = (x + t) \div t
  OBVIOUS
<1>2. a \in 0..t-1 /\ d \in Nat /\ x + t = d * t + a /\ d * t \in Nat
  <2>. PICK n : n = x + t
    OBVIOUS
  <2>1. n % t \in 0..t-1 /\ n \div t \in Nat /\ n = (n \div t) * t + (n % t) /\ n \in Nat
    BY <1>1, Divided
  <2>2. d * t \in Nat
    BY <1>1, <2>1
  <2>. QED BY <2>1, <2>2
<1>3. NextTab(x) = d * t /\ d * t \in x + 1 .. x + t
  <2>1. NextTab(x) = (x + t) - a
    BY DEF NextTab
  <2>. QED BY <1>1, <1>2, <2>1
<1>4. (d * t) % t = 0
  <2>. PICK n, b, e : n = d * t /\ b = n % t /\ e = n \div t
    OBVIOUS
  <2>1. b \in 0..t-1 /\ e \in Nat /\ n = e * t + b
    BY <1>1, <1>2, Divided
  <2>2. d * t + 0 = e * t + b /\ 0 \in 0..t-1
    BY <1>1, <1>2, <2>1
  <2>3. b = 0
    BY <1>1, <1>2, <2>1, <2>2, Apart
  <2>. QED BY <2>3
<1>5. ASSUME NEW k \in x + 1 .. x + t, k % t = 0 PROVE k = d * t
  <2>. PICK e, b : e = k \div t /\ b = (x + t) - k
    OBVIOUS
  <2>1. e \in Nat /\ k = e * t /\ e * t \in Nat
    <3>1. k \in Nat
      BY <1>1
    <3>2. e \in Nat /\ k = e * t + (k % t)
      BY <1>1, <3>1, Divided
    <3>3. e * t \in Nat
      BY <1>1, <3>2
    <3>. QED BY <1>5, <3>2, <3>3
  <2>2. b \in 0..t-1 /\ e * t + b = d * t + a
    BY <1>1, <1>2, <2>1
  <2>3. e = d
    <3>1. \A r, q \in Nat : \A v, j \in 0..t-1 : r * t + v = q * t + j => r = q
      BY <1>1, Apart
    <3>. QED BY <1>2, <2>1, <2>2, <3>1
  <2>. QED BY <2>1, <2>3
<1>. QED BY <1>3, <1>4, <1>5

RowsOf(m) == [r \in 1..ROWS |-> [k \in 1..COLS |-> m[(r - 1) * COLS + k - 1]]]

LEMMA WindowIs ==
  ASSUME NEW m, NEW x, NEW y, NEW s, s = [mem |-> m, x |-> x, y |-> y]
  PROVE  Window(s) = [rows |-> RowsOf(m), row |-> y + 1, col |-> x]
BY DEF Window, RowsOf

(* A character in a row.                                                   *)
LEMMA RowWritten ==
  ASSUME NEW m \in [Cells -> Printable], NEW x \in 0..COLS-1, NEW y \in 0..ROWS-1, NEW c,
         NEW at, at = y * COLS + x, NEW n, n = [m EXCEPT ![at] = c]
  PROVE  RowsOf(n) = [RowsOf(m) EXCEPT ![y + 1] = [RowsOf(m)[y + 1] EXCEPT ![x + 1] = c]]
<1>. PICK old : old = RowsOf(m)
  OBVIOUS
<1>0. COLS \in Nat \ {0} /\ ROWS \in Nat \ {0} /\ at \in Cells /\ y + 1 \in 1..ROWS /\ x + 1 \in 1..COLS
  <2>1. COLS \in Nat \ {0} /\ ROWS \in Nat \ {0}
    BY ScreenAssumption
  <2>2. y * COLS + x \in Cells
    BY CellAt
  <2>. QED BY <2>1, <2>2
<1>. DEFINE want == [old EXCEPT ![y + 1] = [old[y + 1] EXCEPT ![x + 1] = c]]
<1>1. old = [r \in 1..ROWS |-> old[r]]
      /\ \A r \in 1..ROWS : old[r] = [k \in 1..COLS |-> m[(r - 1) * COLS + k - 1]]
  BY DEF RowsOf
<1>2. ASSUME NEW r \in 1..ROWS
      PROVE  [k \in 1..COLS |-> n[(r - 1) * COLS + k - 1]] = want[r]
  <2>1. ASSUME NEW k \in 1..COLS
        PROVE  /\ (r - 1) * COLS + k - 1 \in Cells
               /\ ((r - 1) * COLS + k - 1 = at) <=> (r = y + 1 /\ k = x + 1)
    <3>. PICK a, j : a = r - 1 /\ j = k - 1
      OBVIOUS
    <3>1. a \in 0..ROWS-1 /\ j \in 0..COLS-1 /\ r = a + 1 /\ k = j + 1
      BY <1>0
    <3>2. a * COLS + j \in Cells /\ a * COLS \in Nat
      BY <3>1, CellAt
    <3>3. (r - 1) * COLS + k - 1 = a * COLS + j
      BY <3>1, <3>2
    <3>4. a * COLS + j = at <=> a = y /\ j = x
      BY <1>0, <3>1, Apart
    <3>. QED BY <1>0, <3>1, <3>2, <3>3, <3>4
  <2>2. CASE r = y + 1
    <3>1. want[r] = [old[r] EXCEPT ![x + 1] = c]
      BY <1>0, <1>1, <2>2
    <3>2. [old[r] EXCEPT ![x + 1] = c]
            = [k \in 1..COLS |-> IF k = x + 1 THEN c ELSE m[(r - 1) * COLS + k - 1]]
      <4>1. old[r] = [k \in 1..COLS |-> m[(r - 1) * COLS + k - 1]]
        BY <1>1
      <4>. QED BY <1>0, <4>1
    <3>3. \A k \in 1..COLS : n[(r - 1) * COLS + k - 1]
                               = IF k = x + 1 THEN c ELSE m[(r - 1) * COLS + k - 1]
      BY <2>1, <2>2
    <3>. QED BY <3>1, <3>2, <3>3
  <2>3. CASE r # y + 1
    <3>1. want[r] = old[r]
      BY <1>0, <1>1, <2>3
    <3>2. \A k \in 1..COLS : n[(r - 1) * COLS + k - 1] = m[(r - 1) * COLS + k - 1]
      BY <2>1, <2>3
    <3>. QED BY <1>1, <3>1, <3>2
  <2>. QED BY <2>2, <2>3
<1>3. want = [r \in 1..ROWS |-> want[r]]
  BY <1>1
<1>. HIDE DEF want
<1>4. RowsOf(n) = want
  BY <1>2, <1>3 DEF RowsOf
<1>. QED BY <1>4 DEF want

(* The rows move up.                                                       *)
LEMMA RowsUp ==
  ASSUME NEW m \in [Cells -> Printable]
  PROVE  RowsOf(Up(m)) = Append(Tail(RowsOf(m)), BlankRow)
<1>. PICK old : old = RowsOf(m)
  OBVIOUS
<1>0. COLS \in Nat \ {0} /\ ROWS \in Nat \ {0}
  BY ScreenAssumption
<1>1. /\ old = [r \in 1..ROWS |-> old[r]] /\ DOMAIN old = 1..ROWS
      /\ \A r \in 1..ROWS : old[r] = [k \in 1..COLS |-> m[(r - 1) * COLS + k - 1]]
  BY DEF RowsOf
<1>. PICK Rows : \A r \in 1..ROWS : old[r] \in Rows
  <2>1. \A r \in 1..ROWS : old[r] \in {old[j] : j \in 1..ROWS}
    OBVIOUS
  <2>. QED BY <2>1
<1>2. old \in Seq(Rows \cup {BlankRow}) /\ Len(old) = ROWS /\ old # <<>>
  <2>1. old \in [1..ROWS -> Rows \cup {BlankRow}]
    BY <1>1
  <2>. QED BY <1>0, <2>1
<1>. PICK new : new = Append(Tail(old), BlankRow)
  OBVIOUS
<1>3. /\ new \in Seq(Rows \cup {BlankRow}) /\ Len(new) = ROWS
      /\ \A r \in 1..ROWS-1 : new[r] = old[r + 1]
      /\ new[ROWS] = BlankRow
  BY <1>0, <1>2
<1>4. ASSUME NEW r \in 1..ROWS
      PROVE  [k \in 1..COLS |-> Up(m)[(r - 1) * COLS + k - 1]] = new[r]
  <2>. PICK a : a = r - 1
    OBVIOUS
  <2>0. a \in 0..ROWS-1 /\ r = a + 1
    BY <1>0
  <2>1. ASSUME NEW k \in 1..COLS
        PROVE  /\ a * COLS + k - 1 \in Cells
               /\ r < ROWS => r * COLS + k - 1 \in Cells /\ (a * COLS + k - 1) + COLS = r * COLS + k - 1
               /\ r = ROWS => (a * COLS + k - 1) + COLS \notin Cells
    <3>. PICK j : j = k - 1
      OBVIOUS
    <3>1. j \in 0..COLS-1 /\ k = j + 1
      BY <1>0
    <3>2. a * COLS + j \in Cells /\ a * COLS \in Nat /\ (r < ROWS => r * COLS + j \in Cells)
      <4>1. r < ROWS => r \in 0..ROWS-1
        BY <1>0
      <4>. QED BY <2>0, <3>1, <4>1, CellAt
    <3>3. r * COLS = a * COLS + COLS
      BY <1>0, <2>0
    <3>4. a * COLS + k - 1 = a * COLS + j /\ r * COLS + k - 1 = r * COLS + j
      BY <1>0, <3>1, <3>2, <3>3
    <3>5. (a * COLS + j) + COLS = r * COLS + j /\ r * COLS \in Nat
      BY <1>0, <3>1, <3>2, <3>3
    <3>6. r = ROWS => r * COLS + j \notin Cells
      BY <3>1, <3>5 DEF Cells
    <3>. QED BY <3>2, <3>4, <3>5, <3>6
  <2>2. CASE r < ROWS
    <3>1. new[r] = [k \in 1..COLS |-> m[r * COLS + k - 1]]
      <4>1. r \in 1..ROWS-1 /\ r + 1 \in 1..ROWS /\ (r + 1) - 1 = r
        BY <1>0, <2>2
      <4>. QED BY <1>1, <1>3, <4>1
    <3>2. \A k \in 1..COLS : Up(m)[a * COLS + k - 1] = m[r * COLS + k - 1]
      BY <2>1, <2>2 DEF Up
    <3>. QED BY <3>1, <3>2
  <2>3. CASE r = ROWS
    <3>1. \A k \in 1..COLS : Up(m)[a * COLS + k - 1] = Blank
      BY <2>1, <2>3 DEF Up
    <3>2. [k \in 1..COLS |-> Up(m)[a * COLS + k - 1]] = BlankRow
      BY <3>1 DEF BlankRow
    <3>3. new[r] = BlankRow
      BY <1>3, <2>3
    <3>. QED BY <3>2, <3>3
  <2>4. r < ROWS \/ r = ROWS
    BY <1>0
  <2>. QED BY <2>2, <2>3, <2>4
<1>5. new = [r \in 1..ROWS |-> new[r]]
  <2>1. new \in [1..Len(new) -> Rows \cup {BlankRow}]
    BY <1>3, LenProperties, Zenon
  <2>2. new \in [1..ROWS -> Rows \cup {BlankRow}]
    BY <1>3, <2>1
  <2>. QED BY <2>2
<1>6. RowsOf(Up(m)) = new
  BY <1>4, <1>5 DEF RowsOf
<1>. QED BY <1>6

(* Typed, character by character.                                          *)
LEMMA TypedIs ==
  ASSUME NEW rows, NEW row, NEW col, NEW c, NEW w, w = [rows |-> rows, row |-> row, col |-> col]
  PROVE  /\ c \in Printable =>
              Typed(w, c) = [rows |-> [rows EXCEPT ![row] = [rows[row] EXCEPT ![col + 1] = c]],
                             row |-> row, col |-> col + 1]
         /\ c = "LF" /\ row < ROWS /\ row # ROWS =>
              Typed(w, c) = [rows |-> rows, row |-> row + 1, col |-> 0]
         /\ c = "LF" /\ row = ROWS /\ ~(row < ROWS) =>
              Typed(w, c) = [rows |-> Append(Tail(rows), BlankRow), row |-> row, col |-> 0]
         /\ c = "CR" => Typed(w, c) = [rows |-> rows, row |-> row, col |-> 0]
         /\ c = "BS" => Typed(w, c) = [rows |-> rows, row |-> row,
                                       col |-> IF col = 0 THEN 0 ELSE col - 1]
         /\ c \notin Printable \cup {"LF", "CR", "BS", "HT"} => Typed(w, c) = w
<1>1. ASSUME c \in Printable
      PROVE  Typed(w, c) = [rows |-> [rows EXCEPT ![row] = [rows[row] EXCEPT ![col + 1] = c]],
                            row |-> row, col |-> col + 1]
  <2>. PICK u : u = [rows[row] EXCEPT ![col + 1] = c]
    OBVIOUS
  <2>1. Typed(w, c) = [w EXCEPT !.rows[w.row] = [w.rows[w.row] EXCEPT ![w.col + 1] = c],
                                !.col = w.col + 1]
    BY <1>1, Controls DEF Typed
  <2>2. Typed(w, c) = [w EXCEPT !.rows[row] = u, !.col = col + 1]
    <3>1. w.row = row /\ w.col = col /\ w.rows = rows
      OBVIOUS
    <3>. QED BY <2>1, <3>1
  <2>3. [w EXCEPT !.rows[row] = u, !.col = col + 1] = [[w EXCEPT !.rows[row] = u] EXCEPT !.col = col + 1]
    OBVIOUS
  <2>4. [w EXCEPT !.rows[row] = u] = [rows |-> [rows EXCEPT ![row] = u], row |-> row, col |-> col]
    OBVIOUS
  <2>. QED BY <2>2, <2>3, <2>4
<1>2. c = "LF" /\ row < ROWS /\ row # ROWS =>
        Typed(w, c) = [rows |-> rows, row |-> row + 1, col |-> 0]
  BY Controls DEF Typed
<1>3. c = "LF" /\ row = ROWS /\ ~(row < ROWS) =>
        Typed(w, c) = [rows |-> Append(Tail(rows), BlankRow), row |-> row, col |-> 0]
  BY Controls DEF Typed
<1>4. c = "CR" => Typed(w, c) = [rows |-> rows, row |-> row, col |-> 0]
  BY Controls DEF Typed
<1>5. c = "BS" => Typed(w, c) = [rows |-> rows, row |-> row, col |-> IF col = 0 THEN 0 ELSE col - 1]
  BY Controls DEF Typed
<1>6. c \notin Printable \cup {"LF", "CR", "BS", "HT"} => Typed(w, c) = w
  BY DEF Typed
<1>. QED BY <1>1, <1>2, <1>3, <1>4, <1>5, <1>6

LEMMA TypedTab ==
  ASSUME NEW rows, NEW row, NEW col \in Nat
  PROVE  Typed([rows |-> rows, row |-> row, col |-> col], "HT")
           = [rows |-> rows, row |-> row, col |-> NextTab(col)]
<1>. PICK w, c : w = [rows |-> rows, row |-> row, col |-> col] /\ c = "HT"
  OBVIOUS
<1>1. Typed(w, c) = [w EXCEPT !.col = CHOOSE k \in w.col + 1 .. w.col + TAB : k % TAB = 0]
  BY Controls DEF Typed
<1>2. w.col = col
  OBVIOUS
<1>3. (CHOOSE k \in col + 1 .. col + TAB : k % TAB = 0) = NextTab(col)
  BY TabStop
<1>4. Typed(w, c) = [w EXCEPT !.col = NextTab(col)]
  BY <1>1, <1>2, <1>3
<1>. QED BY <1>4

LEMMA PutcharTab ==
  ASSUME NEW m, NEW x, NEW y \in 0..ROWS-1
  PROVE  console_putchar([mem |-> m, x |-> x, y |-> y], "HT") = [mem |-> m, x |-> NextTab(x), y |-> y]
<1>. PICK s, c : s = [mem |-> m, x |-> x, y |-> y] /\ c = "HT"
  OBVIOUS
<1>0. y < ROWS
  BY ScreenAssumption
<1>1. Moved(s, c) = [mem |-> m, x |-> NextTab(x), y |-> y]
  BY MovedIs
<1>2. console_putchar(s, c) = console_scroll(Moved(s, c))
  BY MovedIs
<1>. QED BY <1>0, <1>1, <1>2, ScrollIs

(* One character does to the window what it should, unless it is printed   *)
(* beyond the right edge.                                                  *)
LEMMA WindowStep ==
  ASSUME NEW s \in Screens, NEW c, NEW q, q = console_putchar(s, c), q.x <= COLS
  PROVE  Window(q) = Typed(Window(s), c)
<1>. PICK m, x, y, w, rows : /\ m = s.mem /\ x = s.x /\ y = s.y
                             /\ w = Window(s) /\ rows = RowsOf(m)
  OBVIOUS
<1>0. COLS \in Nat \ {0} /\ ROWS \in Nat \ {0}
  BY ScreenAssumption
<1>1. /\ s = [mem |-> m, x |-> x, y |-> y] /\ m \in [Cells -> Printable]
      /\ x \in Nat /\ y \in 0..ROWS-1 /\ y < ROWS
  <2>1. s \in Scrolling /\ y < ROWS
    BY DEF Screens
  <2>. QED BY <1>0, <2>1, Parts
<1>2. w = [rows |-> rows, row |-> y + 1, col |-> x]
  BY <1>1, WindowIs
<1>3. \A n, v, u : Window([mem |-> n, x |-> v, y |-> u])
                     = [rows |-> RowsOf(n), row |-> u + 1, col |-> v]
  BY WindowIs
<1>4. q = console_scroll(Moved(s, c))
  BY <1>1, MovedIs
<1>5. CASE c \in Printable
  <2>. PICK n, at : at = y * COLS + x /\ n = [m EXCEPT ![at] = c]
    OBVIOUS
  <2>1. q = [mem |-> n, x |-> x + 1, y |-> y]
    BY <1>5, Printed
  <2>2. x \in 0..COLS-1
    BY <1>0, <1>1, <2>1
  <2>3. RowsOf(n) = [rows EXCEPT ![y + 1] = [rows[y + 1] EXCEPT ![x + 1] = c]]
    BY <1>1, <2>2, RowWritten, SMTT(30)
  <2>4. Typed(w, c) = [rows |-> [rows EXCEPT ![y + 1] = [rows[y + 1] EXCEPT ![x + 1] = c]],
                       row |-> y + 1, col |-> x + 1]
    BY <1>2, <1>5, TypedIs
  <2>. QED BY <1>3, <2>1, <2>3, <2>4
<1>6. CASE c = "LF" /\ y + 1 < ROWS
  <2>1. q = [mem |-> m, x |-> 0, y |-> y + 1]
    <3>1. Moved(s, c) = [mem |-> m, x |-> 0, y |-> y + 1]
      BY <1>1, <1>6, MovedIs
    <3>. QED BY <1>4, <1>6, <3>1, ScrollIs
  <2>2. y + 1 # ROWS
    BY <1>0, <1>1, <1>6
  <2>3. Typed(w, c) = [rows |-> rows, row |-> (y + 1) + 1, col |-> 0]
    BY <1>2, <1>6, <2>2, TypedIs
  <2>. QED BY <1>3, <2>1, <2>3
<1>7. CASE c = "LF" /\ y + 1 = ROWS
  <2>1. q = [mem |-> Up(m), x |-> 0, y |-> y]
    <3>1. Moved(s, c) = [mem |-> m, x |-> 0, y |-> y + 1]
      BY <1>1, <1>7, MovedIs
    <3>2. ~(y + 1 < ROWS) /\ ROWS - 1 = y
      BY <1>0, <1>1, <1>7
    <3>. QED BY <1>4, <3>1, <3>2, ScrollIs
  <2>2. ~(y + 1 < ROWS)
    BY <1>0, <1>1, <1>7
  <2>3. Typed(w, c) = [rows |-> Append(Tail(rows), BlankRow), row |-> y + 1, col |-> 0]
    BY <1>2, <1>7, <2>2, TypedIs
  <2>4. RowsOf(Up(m)) = Append(Tail(rows), BlankRow)
    BY <1>1, RowsUp
  <2>. QED BY <1>3, <2>1, <2>3, <2>4
<1>8. CASE c = "CR"
  <2>1. q = [mem |-> m, x |-> 0, y |-> y]
    <3>1. Moved(s, c) = [mem |-> m, x |-> 0, y |-> y]
      BY <1>1, <1>8, MovedIs
    <3>. QED BY <1>1, <1>4, <3>1, ScrollIs
  <2>2. Typed(w, c) = [rows |-> rows, row |-> y + 1, col |-> 0]
    BY <1>2, <1>8, TypedIs
  <2>. QED BY <1>3, <2>1, <2>2
<1>9. CASE c = "HT"
  <2>1. q = [mem |-> m, x |-> NextTab(x), y |-> y]
    BY <1>1, <1>9, PutcharTab
  <2>2. Typed(w, c) = [rows |-> rows, row |-> y + 1, col |-> NextTab(x)]
    BY <1>1, <1>2, <1>9, TypedTab
  <2>. QED BY <1>3, <2>1, <2>2
<1>10. CASE c = "BS" /\ x > 0
  <2>1. q = [mem |-> m, x |-> x - 1, y |-> y]
    <3>1. Moved(s, c) = [mem |-> m, x |-> x - 1, y |-> y]
      BY <1>1, <1>10, MovedIs
    <3>. QED BY <1>1, <1>4, <3>1, ScrollIs
  <2>2. Typed(w, c) = [rows |-> rows, row |-> y + 1, col |-> IF x = 0 THEN 0 ELSE x - 1]
    BY <1>2, <1>10, TypedIs
  <2>3. x # 0
    BY <1>1, <1>10
  <2>. QED BY <1>3, <2>1, <2>2, <2>3
<1>11. CASE Ignored(c, x)
  <2>1. q = s
    <3>1. Moved(s, c) = [mem |-> m, x |-> x, y |-> y]
      BY <1>1, <1>11, MovedIs
    <3>. QED BY <1>1, <1>4, <3>1, ScrollIs
  <2>2. CASE c = "BS"
    <3>1. Typed(w, c) = [rows |-> rows, row |-> y + 1, col |-> IF x = 0 THEN 0 ELSE x - 1]
      BY <1>2, <2>2, TypedIs
    <3>2. x = 0
      BY <1>1, <1>11, <2>2 DEF Ignored
    <3>. QED BY <1>2, <2>1, <3>1, <3>2
  <2>3. CASE c # "BS"
    <3>1. Typed(w, c) = w
      BY <1>2, <1>11, <2>3, TypedIs DEF Ignored
    <3>. QED BY <2>1, <3>1
  <2>. QED BY <2>2, <2>3
<1>12. y + 1 < ROWS \/ y + 1 = ROWS
  BY <1>0, <1>1
<1>. QED BY <1>5, <1>6, <1>7, <1>8, <1>9, <1>10, <1>11, <1>12 DEF Ignored

(* A text that stays inside the right edge does to the window what it      *)
(* should.                                                                 *)
LEMMA AfterIsScreen ==
  ASSUME NEW s \in Screens, NEW txt \in Seq(STRING)
  PROVE  \A n \in 0..Len(txt) : After(s, txt, n) \in Screens
<1>0. Len(txt) \in Nat
  OBVIOUS
<1>. DEFINE f(n) == After(s, txt, n)
<1>1. f(0) = s /\ \A n \in 1..Len(txt) : f(n) = console_putchar(f(n - 1), txt[n])
  BY PutsPrefix
<1>. HIDE DEF f
<1>. SUFFICES ASSUME NEW j \in 0..Len(txt), f(j) \notin Screens PROVE FALSE
  BY DEF f
<1>. DEFINE T == {n \in 0..Len(txt) : f(n) \notin Screens}
<1>2. PICK n \in T : \A k \in T : ~(k < n)
  <2>1. T \subseteq Nat /\ T # {}
    OBVIOUS
  <2>. HIDE DEF T
  <2>. QED BY <2>1, Smallest
<1>3. n # 0
  BY <1>1
<1>4. n - 1 \in 0..Len(txt) /\ n - 1 < n /\ n \in 1..Len(txt)
  BY <1>0, <1>3
<1>5. f(n - 1) \in Screens
  BY <1>2, <1>4
<1>6. f(n) = console_putchar(f(n - 1), txt[n])
  BY <1>1, <1>4
<1>. QED BY <1>5, <1>6, PutcharType

LEMMA WindowFold ==
  ASSUME NEW s \in Screens, NEW txt \in Seq(STRING),
         \A n \in 1..Len(txt) : After(s, txt, n).x <= COLS
  PROVE  Window(console_puts(s, txt)) = TypedText(Window(s), txt)
<1>0. Len(txt) \in Nat
  OBVIOUS
<1>. DEFINE f(n) == After(s, txt, n)
<1>1. /\ f(0) = s /\ \A n \in 1..Len(txt) : f(n) = console_putchar(f(n - 1), txt[n])
      /\ f(Len(txt)) = console_puts(s, txt)
  BY PutsPrefix
<1>2. \A n \in 0..Len(txt) : f(n) \in Screens
  BY AfterIsScreen
<1>3. \A n \in 1..Len(txt) : f(n).x <= COLS
  OBVIOUS
<1>. HIDE DEF f
<1>. PICK g : Steps(g, "type", Window(s), txt, Len(txt)) /\ TypedText(Window(s), txt) = g[Len(txt)]
  BY TypedTaken
<1>4. g[0] = Window(s) /\ \A n \in 1..Len(txt) : g[n] = Typed(g[n - 1], txt[n])
  BY DEF Steps, Do
<1>5. \A n \in 0..Len(txt) : Window(f(n)) = g[n]
  <2>. SUFFICES ASSUME NEW j \in 0..Len(txt), Window(f(j)) # g[j] PROVE FALSE
    OBVIOUS
  <2>. DEFINE T == {n \in 0..Len(txt) : Window(f(n)) # g[n]}
  <2>1. PICK n \in T : \A k \in T : ~(k < n)
    <3>1. T \subseteq Nat /\ T # {}
      OBVIOUS
    <3>. HIDE DEF T
    <3>. QED BY <3>1, Smallest
  <2>2. n # 0
    BY <1>1, <1>4
  <2>3. n - 1 \in 0..Len(txt) /\ n - 1 < n /\ n \in 1..Len(txt)
    BY <1>0, <2>2
  <2>4. Window(f(n - 1)) = g[n - 1] /\ f(n - 1) \in Screens
    BY <1>2, <2>1, <2>3
  <2>5. f(n) = console_putchar(f(n - 1), txt[n]) /\ f(n).x <= COLS /\ g[n] = Typed(g[n - 1], txt[n])
    BY <1>1, <1>3, <1>4, <2>3
  <2>6. Window(f(n)) = Typed(Window(f(n - 1)), txt[n])
    BY <2>4, <2>5, WindowStep
  <2>. QED BY <2>4, <2>5, <2>6
<1>. QED BY <1>0, <1>1, <1>5

-----------------------------------------------------------------------------
(* The screen at every step.                                               *)

(* What the kernel and the timer print from init_tasking on.               *)
Characters ==
  {"NUL"} \cup UNION {{t[k] : k \in 1..Len(t)} : t \in Texts \cup {Message}}

(* Before a terminator there are only such characters.                     *)
Clean(b, j) == \A k \in 0..j-1 : b[k] \in Characters
CleanText(b, n) == \E j \in n .. BUF-1 : b[j] = "NUL" /\ Clean(b, j)

(* Only before init_tasking does the kernel print tabs and backspaces, so  *)
(* that the column does not change between the test of a backspace and its *)
(* move.                                                                   *)
NoBackspace ==
  IF tasking
  THEN /\ call.pc \in Formatting => call.text \in Texts /\ Clean(buf, call.i)
       /\ call.pc = "test" => CleanText(buf, call.i)
       /\ call.pc \in InPutchar => CleanText(buf, call.i + 1)
       /\ call.pc \in {"read_x", "write_x"} => call.c \in Printable
  ELSE /\ call.pc = "read_x" /\ call.c = "BS" => screen.x > 0
       /\ call.pc = "write_x" /\ call.c = "BS" => call.reg > 0

ScreenInv ==
  /\ screen \in Scrolling
  /\ call.k \in Nat
  /\ call.pc \notin {"return", "scroll", "copy"} => screen.y < ROWS
  /\ call.pc \in {"row", "locate", "store"} => call.c \in Printable
  /\ call.pc \in {"read_x", "write_x"} => call.c \in Printable \cup {"HT", "BS"}
  /\ call.pc = "write_x" => call.reg \in Nat
  /\ call.pc = "write_y" => call.reg \in 0..ROWS-1
  /\ NoBackspace

LEMMA CharactersAre ==
  /\ "NUL" \in Characters /\ "HT" \notin Characters /\ "BS" \notin Characters
  /\ \A k \in 1..Len(Message) : Message[k] \in Characters
  /\ \A t \in Texts : \A k \in 1..Len(t) : t[k] \in Characters
<1>1. \A k \in 1..Len(Message) : Message[k] \notin {"HT", "BS"}
  BY MessageAssumption, Controls
<1>. QED BY <1>1, TextAssumption DEF Characters

LEMMA MessageKeepsClean ==
  ASSUME NEW n \in 0..BUF
  PROVE  /\ Clean(buf, n) => Clean(Formatted(buf, Message), n)
         /\ CleanText(buf, n) => CleanText(Formatted(buf, Message), n)
<1>. PICK l, b : l = Len(Message) /\ b = Formatted(buf, Message)
  OBVIOUS
<1>1. BUF \in Nat /\ l \in 0..BUF-1
  BY TextsFit, BufferAssumption DEF AllTexts
<1>2. \A k \in 0..BUF-1 : /\ k < l => b[k] = Message[k + 1] /\ k + 1 \in 1..l
                          /\ k = l => b[k] = "NUL"
                          /\ k > l => b[k] = buf[k]
  BY <1>1 DEF Formatted
<1>3. \A k \in 0..l : b[k] \in Characters
  BY <1>1, <1>2, CharactersAre
<1>4. ASSUME NEW j \in 0..BUF, Clean(buf, j) PROVE Clean(b, j)
  <2>. SUFFICES ASSUME NEW k \in 0..j-1 PROVE b[k] \in Characters
    BY DEF Clean
  <2>1. k \in 0..BUF-1
    BY <1>1
  <2>2. buf[k] \in Characters
    BY <1>4 DEF Clean
  <2>. QED BY <1>1, <1>2, <1>3, <2>1, <2>2
<1>5. ASSUME CleanText(buf, n) PROVE CleanText(b, n)
  <2>. PICK j \in n .. BUF-1 : buf[j] = "NUL" /\ Clean(buf, j)
    BY <1>5 DEF CleanText
  <2>1. CASE j > l
    BY <1>1, <1>2, <1>4, <2>1 DEF CleanText
  <2>2. CASE ~(j > l)
    <3>1. l \in n .. BUF-1 /\ b[l] = "NUL"
      BY <1>1, <1>2, <2>2
    <3>2. Clean(b, l)
      BY <1>1, <1>3 DEF Clean
    <3>. QED BY <3>1, <3>2 DEF CleanText
  <2>. QED BY <2>1, <2>2
<1>. QED BY <1>1, <1>4, <1>5

LEMMA ScreenInit == Init => ScreenInv
<1>. SUFFICES ASSUME Init PROVE ScreenInv
  OBVIOUS
<1>1. screen = [mem |-> [k \in Cells |-> Blank], x |-> 0, y |-> 0]
  BY DEF Init, console_clear
<1>2. [k \in Cells |-> Blank] \in [Cells -> Printable] /\ 0 \in 0..ROWS /\ 0 < ROWS
  BY Controls, ScreenAssumption
<1>3. screen \in Scrolling /\ screen.y < ROWS
  BY <1>1, <1>2, Whole
<1>. QED BY <1>3 DEF Init, Idle, ScreenInv, NoBackspace

(* The columns that a character at hand leads to.                          *)
LEMMA ColumnType ==
  ASSUME NEW c \in Printable \cup {"HT", "BS"}, NEW x \in Nat, c = "BS" => x > 0
  PROVE  Column(c, x) \in Nat
<1>1. CASE c \in Printable
  BY <1>1, Controls DEF Column
<1>2. CASE c = "HT"
  BY <1>2, Controls, TabType DEF Column
<1>3. CASE c = "BS"
  <2>1. Column(c, x) = x - 1
    BY <1>3, Controls DEF Column
  <2>. QED BY <1>3, <2>1
<1>. QED BY <1>1, <1>2, <1>3

LEMMA ScreenTimer == PrintInv /\ ScreenInv /\ TimerIRQ => ScreenInv'
<1>. SUFFICES ASSUME PrintInv, ScreenInv, TimerIRQ PROVE ScreenInv'
  OBVIOUS
<1>1. /\ tasking /\ tasking' = tasking /\ call' = call /\ buf' = Formatted(buf, Message)
      /\ screen' = console_puts(screen, Message)
  BY DEF TimerIRQ
<1>2. screen' \in Screens /\ screen' \in Scrolling /\ screen'.y < ROWS
  <2>1. screen' \in Screens
    BY <1>1, MessageLine DEF ScreenInv
  <2>. QED BY <2>1 DEF Screens
<1>3. call.i \in 0..BUF /\ call.i + 1 \in 0..BUF
  BY BufferAssumption DEF PrintInv, TypeOK
<1>4. NoBackspace'
  <2>1. NoBackspace
    BY DEF ScreenInv
  <2>2. /\ Clean(buf, call.i) => Clean(buf', call.i)
        /\ CleanText(buf, call.i) => CleanText(buf', call.i)
        /\ CleanText(buf, call.i + 1) => CleanText(buf', call.i + 1)
    BY <1>1, <1>3, MessageKeepsClean
  <2>. QED BY <1>1, <2>1, <2>2 DEF NoBackspace
<1>. QED BY <1>1, <1>2, <1>4 DEF ScreenInv

LEMMA ScreenFormat == PrintInv /\ ScreenInv /\ Step /\ At("format") => ScreenInv'
<1>. SUFFICES ASSUME PrintInv, ScreenInv, Step, At("format") PROVE ScreenInv'
  OBVIOUS
<1>0. tasking' = tasking /\ vsprintf
  BY DEF Step, At, Terminate, Test, Fetch, Row, Locate, Store, ReadX, WriteX, ReadY, WriteY,
     CarriageReturn, ScrollTest, Scroll, CursorRow, CursorX, SelectHigh, SelectLow, Select,
     WriteHigh, WriteLow
<1>. PICK i, b, t : i = call.i /\ b = buf' /\ t = call.text
  OBVIOUS
<1>1. /\ screen' = screen /\ call.pc = "format"
      /\ IF i < Len(t) THEN b = [buf EXCEPT ![i] = t[i + 1]] /\ call' = [call EXCEPT !.i = i + 1]
                       ELSE b = [buf EXCEPT ![i] = "NUL"] /\ call' = [call EXCEPT !.pc = "terminate"]
  BY <1>0 DEF vsprintf, At, Goto
<1>2. /\ DOMAIN call = {"pc", "text", "i", "c", "k", "reg"} /\ DOMAIN buf = 0..BUF-1
      /\ i \in 0..BUF-1 /\ BUF \in Nat /\ t \in AllTexts
  BY <1>1, BufferAssumption DEF PrintInv, TypeOK, WithinText, Formatting
<1>3. /\ call'.pc \in {"format", "terminate"} /\ call'.k = call.k /\ call'.text = t
      /\ call'.i = IF i < Len(t) THEN i + 1 ELSE i
  BY <1>1, <1>2
<1>4. NoBackspace'
  <2>1. CASE ~tasking
    BY <1>0, <1>3, <2>1 DEF NoBackspace
  <2>2. CASE tasking
    <3>1. t \in Texts /\ Clean(buf, i)
      BY <1>1, <2>2 DEF ScreenInv, NoBackspace, Formatting
    <3>2. Clean(b, call'.i)
      <4>. SUFFICES ASSUME NEW k \in 0..call'.i-1 PROVE b[k] \in Characters
        BY DEF Clean
      <4>1. CASE k = i
        <5>1. i < Len(t)
          BY <1>2, <1>3, <4>1
        <5>2. Len(t) \in Nat
          BY <1>2, TextsFit
        <5>3. b[k] = t[i + 1] /\ i + 1 \in 1..Len(t)
          BY <1>1, <1>2, <4>1, <5>1, <5>2
        <5>. QED BY <3>1, <5>3, CharactersAre
      <4>2. CASE k # i
        <5>1. k \in 0..i-1 /\ b[k] = buf[k]
          BY <1>1, <1>2, <1>3, <4>2
        <5>. QED BY <3>1, <5>1 DEF Clean
      <4>. QED BY <4>1, <4>2
    <3>. QED BY <1>0, <1>3, <2>2, <3>1, <3>2 DEF NoBackspace, Formatting, InPutchar
  <2>. QED BY <2>1, <2>2
<1>. QED BY <1>1, <1>3, <1>4 DEF ScreenInv

LEMMA ScreenPuts == PrintInv /\ ScreenInv /\ Step /\ call.pc \in {"terminate", "test", "fetch", "write_low"}
                      => ScreenInv'
<1>. SUFFICES ASSUME PrintInv, ScreenInv, Step, call.pc \in {"terminate", "test", "fetch", "write_low"}
              PROVE ScreenInv'
  OBVIOUS
<1>0. tasking' = tasking /\ (Terminate \/ Test \/ Fetch \/ WriteLow)
  BY DEF Step, At, vsprintf, Row, Locate, Store, ReadX, WriteX, ReadY, WriteY,
     CarriageReturn, ScrollTest, Scroll, CursorRow, CursorX, SelectHigh, SelectLow, Select,
     WriteHigh
<1>1. /\ DOMAIN call = {"pc", "text", "i", "c", "k", "reg"} /\ DOMAIN buf = 0..BUF-1
      /\ call.i \in 0..BUF-1 /\ BUF \in Nat
  BY BufferAssumption DEF PrintInv, TypeOK
<1>2. CASE Terminate
  <2>1. /\ screen' = screen /\ buf' = [buf EXCEPT ![call.i] = "NUL"] /\ call.pc = "terminate"
        /\ call'.pc = "test" /\ call'.i = 0 /\ call'.k = call.k
    BY <1>1, <1>2 DEF Terminate, At
  <2>2. tasking => CleanText(buf', 0)
    <3>. SUFFICES ASSUME tasking PROVE CleanText(buf', 0)
      OBVIOUS
    <3>1. Clean(buf, call.i)
      BY <2>1 DEF ScreenInv, NoBackspace, Formatting
    <3>2. Clean(buf', call.i) /\ buf'[call.i] = "NUL" /\ call.i \in 0..BUF-1
      BY <1>1, <2>1, <3>1 DEF Clean
    <3>. QED BY <3>2 DEF CleanText
  <2>3. NoBackspace'
    BY <1>0, <2>1, <2>2 DEF NoBackspace, Formatting, InPutchar
  <2>. QED BY <2>1, <2>3 DEF ScreenInv
<1>3. CASE Test
  <2>1. /\ screen' = screen /\ buf' = buf /\ call.pc = "test"
        /\ IF buf[call.i] = "NUL" THEN call' = Idle ELSE call' = [call EXCEPT !.pc = "fetch"]
    BY <1>3 DEF Test, At, Goto, memory
  <2>2. CASE buf[call.i] = "NUL"
    <3>1. call'.pc = "idle" /\ call'.k = 0
      BY <2>1, <2>2 DEF Idle
    <3>2. NoBackspace'
      BY <3>1 DEF NoBackspace, Formatting, InPutchar
    <3>. QED BY <2>1, <3>1, <3>2 DEF ScreenInv
  <2>3. CASE buf[call.i] # "NUL"
    <3>1. call'.pc = "fetch" /\ call'.i = call.i /\ call'.k = call.k
      BY <1>1, <2>1, <2>3
    <3>2. tasking => CleanText(buf, call.i + 1)
      <4>. SUFFICES ASSUME tasking PROVE CleanText(buf, call.i + 1)
        OBVIOUS
      <4>1. PICK j \in call.i .. BUF-1 : buf[j] = "NUL" /\ Clean(buf, j)
        BY <2>1 DEF ScreenInv, NoBackspace, CleanText
      <4>2. j \in call.i + 1 .. BUF-1
        BY <1>1, <2>3, <4>1
      <4>. QED BY <4>1, <4>2 DEF CleanText
    <3>3. NoBackspace'
      BY <1>0, <2>1, <3>1, <3>2 DEF NoBackspace, Formatting, InPutchar
    <3>. QED BY <2>1, <3>1, <3>3 DEF ScreenInv
  <2>. QED BY <2>2, <2>3
<1>4. CASE Fetch
  <2>. PICK c : c = buf[call.i]
    OBVIOUS
  <2>1. /\ screen' = screen /\ buf' = buf /\ call.pc = "fetch"
        /\ call'.c = c /\ call'.k = 0 /\ call'.i = call.i
        /\ call'.pc = CASE c \in Printable -> "row"
                        [] c = "HT" \/ (c = "BS" /\ screen.x > 0) -> "read_x"
                        [] c = "CR" -> "return"
                        [] c = "LF" -> "read_y"
                        [] OTHER -> "scroll"
    BY <1>1, <1>4 DEF Fetch, At, memory
  <2>2. /\ call'.pc \in {"row", "read_x", "return", "read_y", "scroll"}
        /\ call'.pc = "row" => c \in Printable
        /\ call'.pc = "read_x" => c = "HT" \/ (c = "BS" /\ screen.x > 0)
    BY <2>1
  <2>3. tasking => CleanText(buf, call.i + 1) /\ c \notin {"HT", "BS"}
    <3>. SUFFICES ASSUME tasking PROVE CleanText(buf, call.i + 1) /\ c \notin {"HT", "BS"}
      OBVIOUS
    <3>1. CleanText(buf, call.i + 1)
      BY <2>1 DEF ScreenInv, NoBackspace, InPutchar
    <3>2. PICK j \in call.i + 1 .. BUF-1 : buf[j] = "NUL" /\ Clean(buf, j)
      BY <3>1 DEF CleanText
    <3>3. call.i \in 0..j-1
      BY <1>1
    <3>. QED BY <3>1, <3>2, <3>3, CharactersAre DEF Clean
  <2>4. NoBackspace'
    BY <1>0, <2>1, <2>2, <2>3 DEF NoBackspace, Formatting, InPutchar
  <2>5. screen.y < ROWS
    BY <2>1 DEF ScreenInv
  <2>. QED BY <2>1, <2>2, <2>4, <2>5 DEF ScreenInv
<1>5. CASE WriteLow
  <2>1. /\ screen' = screen /\ buf' = buf /\ call.pc = "write_low"
        /\ call'.pc = "test" /\ call'.i = call.i + 1 /\ call'.k = call.k
    BY <1>1, <1>5 DEF WriteLow, At
  <2>2. tasking => CleanText(buf, call.i + 1)
    BY <2>1 DEF ScreenInv, NoBackspace, InPutchar
  <2>3. NoBackspace'
    BY <1>0, <2>1, <2>2 DEF NoBackspace, Formatting, InPutchar
  <2>. QED BY <2>1, <2>3 DEF ScreenInv
<1>. QED BY <1>0, <1>2, <1>3, <1>4, <1>5

(* Inside console_putchar, buf does not change.                            *)
LEMMA ScreenPutchar ==
  PrintInv /\ ScreenInv /\ Step /\ call.pc \in InPutchar \ {"fetch", "write_low"} => ScreenInv'
<1>. SUFFICES ASSUME PrintInv, ScreenInv, Step, call.pc \in InPutchar \ {"fetch", "write_low"}
              PROVE ScreenInv'
  OBVIOUS
<1>0. /\ tasking' = tasking
      /\ \/ Row \/ Locate \/ Store \/ ReadX \/ WriteX \/ ReadY \/ WriteY \/ CarriageReturn
         \/ ScrollTest \/ Scroll \/ CursorRow \/ CursorX \/ SelectHigh \/ WriteHigh \/ SelectLow
  BY DEF Step, At, vsprintf, Terminate, Test, Fetch, WriteLow, InPutchar
<1>1. /\ DOMAIN call = {"pc", "text", "i", "c", "k", "reg"} /\ screen \in Scrolling
      /\ call.k \in Nat /\ ROWS \in Nat \ {0} /\ screen.y \in 0..ROWS /\ screen.x \in Nat
      /\ screen.mem \in [Cells -> Printable] /\ DOMAIN screen = {"mem", "x", "y"}
      /\ screen = [mem |-> screen.mem, x |-> screen.x, y |-> screen.y]
  BY Parts, ScreenAssumption DEF PrintInv, ScreenInv, Scrolling
<1>2. tasking => CleanText(buf, call.i + 1)
  BY DEF ScreenInv, NoBackspace, InPutchar
<1>3. ASSUME buf' = buf, call'.i = call.i, call'.pc \in InPutchar \ {"read_x", "write_x"}
      PROVE  NoBackspace'
  BY <1>0, <1>2, <1>3 DEF NoBackspace, Formatting, InPutchar
<1>4. CASE Row \/ Locate \/ ReadY \/ CursorRow \/ CursorX
  <2>1. /\ screen' = screen /\ buf' = buf /\ call'.i = call.i /\ call'.k = call.k
        /\ call'.c = call.c
        /\ \/ call.pc = "row" /\ call'.pc = "locate"
           \/ call.pc = "locate" /\ call'.pc = "store"
           \/ call.pc = "read_y" /\ call'.pc = "write_y" /\ call'.reg = screen.y
           \/ call.pc = "cursor_row" /\ call'.pc = "cursor_x"
           \/ call.pc = "cursor_x" /\ call'.pc = "select_high"
    BY <1>1, <1>4 DEF Row, Locate, ReadY, CursorRow, CursorX, At, Load, memory
  <2>2. screen.y \in 0..ROWS-1
    BY <1>1, <2>1 DEF ScreenInv
  <2>3. NoBackspace'
    BY <1>3, <2>1 DEF InPutchar
  <2>. QED BY <1>1, <2>1, <2>2, <2>3 DEF ScreenInv
<1>5. CASE SelectHigh \/ WriteHigh \/ SelectLow \/ ScrollTest
  <2>1. /\ screen' = screen /\ buf' = buf /\ call'.i = call.i /\ call'.k = call.k
        /\ \/ call.pc = "select_high" /\ call'.pc = "write_high"
           \/ call.pc = "write_high" /\ call'.pc = "select_low"
           \/ call.pc = "select_low" /\ call'.pc = "write_low"
           \/ call.pc = "scroll" /\ call'.pc = "copy"
           \/ call.pc = "scroll" /\ call'.pc = "cursor_row" /\ ~(screen.y >= ROWS)
    BY <1>1, <1>5 DEF SelectHigh, SelectLow, Select, WriteHigh, ScrollTest, At, Goto, memory
  <2>2. call.pc # "scroll" => screen.y < ROWS
    BY <2>1 DEF ScreenInv
  <2>3. NoBackspace'
    BY <1>3, <2>1 DEF InPutchar
  <2>. QED BY <1>1, <2>1, <2>2, <2>3 DEF ScreenInv
<1>6. CASE Store
  <2>. PICK c, r : c = call.c /\ r = call.reg
    OBVIOUS
  <2>1. /\ buf' = buf /\ call.pc = "store" /\ call' = [call EXCEPT !.pc = "read_x"]
        /\ screen' = [screen EXCEPT !.mem[r] = c]
    BY <1>6 DEF Store, At, Goto
  <2>2. call'.pc = "read_x" /\ call'.i = call.i /\ call'.c = c /\ call'.k = call.k
    BY <1>1, <2>1
  <2>3. c \in Printable /\ screen.y < ROWS
    BY <2>1 DEF ScreenInv
  <2>4. screen' = [mem |-> [screen.mem EXCEPT ![r] = c], x |-> screen.x, y |-> screen.y]
    BY <1>1, <2>1
  <2>5. [screen.mem EXCEPT ![r] = c] \in [Cells -> Printable]
    BY <1>1, <2>3
  <2>6. screen' \in Scrolling /\ screen'.y < ROWS
    BY <1>1, <2>3, <2>4, <2>5, Whole
  <2>7. NoBackspace'
    BY <1>0, <1>2, <2>1, <2>2, <2>3, Controls DEF NoBackspace, Formatting, InPutchar
  <2>. QED BY <1>1, <2>2, <2>3, <2>6, <2>7 DEF ScreenInv
<1>7. CASE ReadX
  <2>1. /\ screen' = screen /\ buf' = buf /\ call.pc = "read_x" /\ call'.pc = "write_x"
        /\ call'.i = call.i /\ call'.c = call.c /\ call'.k = call.k /\ call'.reg = screen.x
    BY <1>1, <1>7 DEF ReadX, At, Load, memory
  <2>2. /\ call.c \in Printable \cup {"HT", "BS"} /\ screen.y < ROWS
        /\ tasking => call.c \in Printable
        /\ ~tasking /\ call.c = "BS" => screen.x > 0
    BY <2>1 DEF ScreenInv, NoBackspace
  <2>3. NoBackspace'
    BY <1>0, <1>2, <2>1, <2>2 DEF NoBackspace, Formatting, InPutchar
  <2>. QED BY <1>1, <2>1, <2>2, <2>3 DEF ScreenInv
<1>8. CASE WriteX
  <2>. PICK v : v = Column(call.c, call.reg)
    OBVIOUS
  <2>1. /\ buf' = buf /\ call.pc = "write_x" /\ call' = [call EXCEPT !.pc = "scroll"]
        /\ screen' = [screen EXCEPT !.x = v]
    BY <1>8 DEF WriteX, At, Goto
  <2>2. call'.pc = "scroll" /\ call'.i = call.i /\ call'.k = call.k
    BY <1>1, <2>1
  <2>3. v \in Nat
    <3>1. /\ call.c \in Printable \cup {"HT", "BS"} /\ call.reg \in Nat
          /\ tasking => call.c \in Printable
          /\ ~tasking /\ call.c = "BS" => call.reg > 0
      BY <2>1 DEF ScreenInv, NoBackspace
    <3>. QED BY <3>1, ColumnType, Controls
  <2>4. screen' = [mem |-> screen.mem, x |-> v, y |-> screen.y]
    BY <1>1, <2>1
  <2>5. screen' \in Scrolling
    BY <1>1, <2>3, <2>4, Whole
  <2>6. NoBackspace'
    BY <1>3, <2>1, <2>2 DEF InPutchar
  <2>. QED BY <1>1, <2>2, <2>5, <2>6 DEF ScreenInv
<1>9. CASE WriteY \/ CarriageReturn
  <2>1. /\ buf' = buf /\ call'.i = call.i /\ call'.k = call.k
        /\ call'.pc \in {"return", "scroll"}
        /\ \/ screen' = [mem |-> screen.mem, x |-> screen.x, y |-> call.reg + 1] /\ call.pc = "write_y"
           \/ screen' = [mem |-> screen.mem, x |-> 0, y |-> screen.y]
    BY <1>1, <1>9 DEF WriteY, CarriageReturn, At, Goto
  <2>2. call.pc = "write_y" => call.reg + 1 \in 0..ROWS
    BY <1>1 DEF ScreenInv
  <2>3. screen' \in Scrolling
    BY <1>1, <2>1, <2>2, Whole
  <2>4. NoBackspace'
    BY <1>3, <2>1 DEF InPutchar
  <2>. QED BY <1>1, <2>1, <2>3, <2>4 DEF ScreenInv
<1>10. CASE Scroll
  <2>. PICK k, v : k = call.k /\ v = IF k + COLS \in Cells THEN screen.mem[k + COLS] ELSE Blank
    OBVIOUS
  <2>1. CASE k \in Cells
    <3>1. /\ buf' = buf /\ call.pc = "copy" /\ call' = [call EXCEPT !.k = k + 1]
          /\ screen' = [screen EXCEPT !.mem[k] = v]
      BY <1>10, <2>1 DEF Scroll, At
    <3>2. call'.pc = "copy" /\ call'.i = call.i /\ call'.k = k + 1
      BY <1>1, <3>1
    <3>3. v \in Printable
      BY <1>1, Controls
    <3>4. screen' = [mem |-> [screen.mem EXCEPT ![k] = v], x |-> screen.x, y |-> screen.y]
      BY <1>1, <3>1
    <3>5. [screen.mem EXCEPT ![k] = v] \in [Cells -> Printable]
      BY <1>1, <3>3
    <3>6. screen' \in Scrolling
      BY <1>1, <3>4, <3>5, Whole
    <3>7. NoBackspace'
      BY <1>3, <3>1, <3>2 DEF InPutchar
    <3>. QED BY <1>1, <3>2, <3>6, <3>7 DEF ScreenInv
  <2>2. CASE k \notin Cells
    <3>1. /\ buf' = buf /\ call' = [call EXCEPT !.pc = "cursor_row"]
          /\ screen' = [screen EXCEPT !.y = ROWS - 1]
      BY <1>10, <2>2 DEF Scroll, At, Goto
    <3>2. call'.pc = "cursor_row" /\ call'.i = call.i /\ call'.k = call.k
      BY <1>1, <3>1
    <3>3. screen' = [mem |-> screen.mem, x |-> screen.x, y |-> ROWS - 1]
      BY <1>1, <3>1
    <3>4. screen' \in Scrolling /\ screen'.y < ROWS
      BY <1>1, <3>3, Whole
    <3>5. NoBackspace'
      BY <1>3, <3>1, <3>2 DEF InPutchar
    <3>. QED BY <1>1, <3>2, <3>4, <3>5 DEF ScreenInv
  <2>. QED BY <2>1, <2>2
<1>. QED BY <1>0, <1>4, <1>5, <1>6, <1>7, <1>8, <1>9, <1>10

LEMMA ScreenNext == PrintInv /\ ScreenInv /\ [Next]_vars => ScreenInv'
<1>. SUFFICES ASSUME PrintInv, ScreenInv, [Next]_vars PROVE ScreenInv'
  OBVIOUS
<1>1. ASSUME NEW text \in Texts \cup BootTexts, Call(text), text \in Texts \/ ~tasking
      PROVE  ScreenInv'
  <2>1. /\ screen' = screen /\ buf' = buf /\ tasking' = tasking /\ call.pc = "idle"
        /\ call'.pc = "format" /\ call'.text = text /\ call'.i = 0 /\ call'.k = 0
    BY <1>1 DEF Call, Idle, memory, At
  <2>2. Clean(buf, 0)
    BY DEF Clean
  <2>3. NoBackspace'
    BY <1>1, <2>1, <2>2 DEF NoBackspace, Formatting, InPutchar
  <2>. QED BY <2>1, <2>3 DEF ScreenInv
<1>2. CASE InitTasking
  <2>1. screen' = screen /\ call' = call /\ call.pc = "idle"
    BY <1>2 DEF InitTasking, memory, At
  <2>2. NoBackspace'
    BY <2>1 DEF NoBackspace, Formatting, InPutchar
  <2>. QED BY <2>1, <2>2 DEF ScreenInv
<1>3. CASE Step
  <2>1. \/ At("format") \/ call.pc \in {"terminate", "test", "fetch", "write_low"}
        \/ call.pc \in InPutchar \ {"fetch", "write_low"}
    BY <1>3 DEF Step, At, vsprintf, Terminate, Test, Fetch, Row, Locate, Store, ReadX, WriteX,
       ReadY, WriteY, CarriageReturn, ScrollTest, Scroll, CursorRow, CursorX, SelectHigh,
       SelectLow, Select, WriteHigh, WriteLow, InPutchar
  <2>. QED BY <1>3, <2>1, ScreenFormat, ScreenPuts, ScreenPutchar
<1>4. CASE UNCHANGED vars
  BY <1>4 DEF vars, ScreenInv, NoBackspace
<1>. QED BY <1>1, <1>2, <1>3, <1>4, ScreenTimer DEF Next

(* A step of the kernel's own moves its place or leaves the screen alone.  *)
LEMMA StepMoves == PrintInv /\ ScreenInv /\ Step /\ UNCHANGED call => screen' = screen
<1>. SUFFICES ASSUME PrintInv, ScreenInv, Step, UNCHANGED call, screen' # screen PROVE FALSE
  OBVIOUS
<1>1. Store \/ WriteX \/ WriteY \/ CarriageReturn \/ Scroll
  BY DEF Step, memory, vsprintf, Terminate, Test, Fetch, Row, Locate, ReadX, ReadY, ScrollTest,
     CursorRow, CursorX, SelectHigh, SelectLow, Select, WriteHigh, WriteLow
<1>2. DOMAIN call = {"pc", "text", "i", "c", "k", "reg"} /\ call.k \in Nat
  BY DEF PrintInv, ScreenInv
<1>3. call'.pc # call.pc \/ call'.k = call.k + 1
  BY <1>1, <1>2 DEF Store, WriteX, WriteY, CarriageReturn, Scroll, At, Goto
<1>. QED BY <1>2, <1>3

(* The message of switch_task gets a line of its own just above the        *)
(* cursor, wherever it interrupts the kernel's printing, on every screen   *)
(* it fits (kernel/task.c, kernel/console.c).                              *)
THEOREM MessageSeen == Spec => MessageShown
<1>. DEFINE Shown == tasking /\ UNCHANGED call /\ screen' # screen =>
       /\ screen'.x = 0 /\ screen'.y \in 1..ROWS-1
       /\ \A k \in 1..Len(Message) - 2 :
            screen'.mem[(screen'.y - 1) * COLS + k - 1] = Message[k + 1]
<1>1. PrintInv /\ ScreenInv /\ [Next]_vars => [Shown]_vars
  <2>. SUFFICES ASSUME PrintInv, ScreenInv, [Next]_vars, UNCHANGED call, screen' # screen
                PROVE  Shown
    OBVIOUS
  <2>1. ~Step /\ ~InitTasking /\ ~UNCHANGED vars
    BY StepMoves DEF InitTasking, memory, vars
  <2>2. \A text : ~Call(text)
    BY DEF Call, memory
  <2>3. screen' = console_puts(screen, Message)
    BY <2>1, <2>2 DEF Next, TimerIRQ
  <2>. QED BY <2>3, MessageLine DEF ScreenInv
<1>. QED BY PrintInit, PrintNext, ScreenInit, ScreenNext, <1>1, PTL DEF Spec, MessageShown

-----------------------------------------------------------------------------
(* A call that nothing interrupts.                                         *)

(* The rows from the top that have moved up, cell by cell.                 *)
PartlyUp(m, k) == [j \in Cells |-> IF j < k THEN Up(m)[j] ELSE m[j]]

Copied(b, t, n) == \A k \in 0..n-1 : b[k] = t[k + 1]

(* Where the call that began on the screen s is: what it has printed, and  *)
(* what the character at hand will make of it.                             *)
Before(s) == After(s, call.text, call.i)
Going(s) == Moved(Before(s), call.text[call.i + 1])
Position == screen.y * COLS + screen.x

InRow == {"row", "locate", "store", "read_x", "write_x"}
Moving == InRow \cup {"read_y", "write_y", "return", "scroll"}
InCursor == {"cursor_row", "cursor_x", "select_high", "write_high", "select_low", "write_low"}

WritingOut(s) ==
  /\ call.pc \in Formatting => /\ screen = s /\ call.i <= Len(call.text)
                               /\ Copied(buf, call.text, call.i)
  /\ call.pc = "terminate" => call.i = Len(call.text)
  /\ call.pc \in InPutchar \cup {"test"} => /\ Copied(buf, call.text, Len(call.text))
                                            /\ buf[Len(call.text)] = "NUL"
  /\ call.pc = "test" => /\ call.i <= Len(call.text) /\ screen = Before(s)
                         /\ call.i > 0 => cursor = console_move_cursor(screen)
  /\ call.pc \in InPutchar => call.i < Len(call.text)

Putting(s) ==
  /\ call.pc \in {"fetch", "row", "locate", "store"} => screen = Before(s)
  /\ call.pc \in InRow => call.c = call.text[call.i + 1]
  /\ call.pc \in Moving => call.k = 0
  /\ call.pc = "locate" => call.reg = screen.y * COLS
  /\ call.pc = "store" => call.reg = Position
  /\ call.pc = "read_x" =>
       Going(s) = [mem |-> screen.mem, x |-> Column(call.c, screen.x), y |-> screen.y]
  /\ call.pc = "write_x" =>
       Going(s) = [mem |-> screen.mem, x |-> Column(call.c, call.reg), y |-> screen.y]
  /\ call.pc = "read_y" => Going(s) = [mem |-> screen.mem, x |-> 0, y |-> screen.y + 1]
  /\ call.pc = "write_y" => Going(s) = [mem |-> screen.mem, x |-> 0, y |-> call.reg + 1]
  /\ call.pc = "return" => Going(s) = [mem |-> screen.mem, x |-> 0, y |-> screen.y]
  /\ call.pc = "scroll" => Going(s) = screen

Finishing(s) ==
  /\ call.pc = "copy" =>
       /\ ~(Going(s).y < ROWS) /\ call.k <= ROWS * COLS
       /\ screen = [mem |-> PartlyUp(Going(s).mem, call.k), x |-> Going(s).x, y |-> Going(s).y]
  /\ call.pc \in InCursor => screen = console_scroll(Going(s))
  /\ call.pc = "cursor_x" => call.reg = screen.y * COLS
  /\ call.pc \in InCursor \ {"cursor_row", "cursor_x"} => call.reg = Position
  /\ call.pc = "write_high" => cursor.index = "high"
  /\ call.pc \in {"select_low", "write_low"} => cursor.high = (Position \div BYTE) % BYTE
  /\ call.pc = "write_low" => cursor.index = "low"

Undisturbed(s) ==
  /\ call.text \in Texts \cup BootTexts
  /\ expected = TypedText(Window(s), call.text)
  /\ \A n \in 1..Len(call.text) : After(s, call.text, n).x <= Width
  /\ WritingOut(s) /\ Putting(s) /\ Finishing(s)

ShowInv ==
  /\ DOMAIN cursor = {"index", "high", "low"}
  /\ ~disturbed => IF call.pc = "idle"
                   THEN Window(screen) = expected /\ cursor = console_move_cursor(screen)
                   ELSE \E s \in Screens : Undisturbed(s)

LEMMA Widths == Width \in 0..COLS /\ COLS \in Nat
BY MessageParts, MessageAssumption DEF Width

LEMMA MessageFits ==
  ASSUME NEW s \in Screens
  PROVE  Window(console_puts(s, Message)) = TypedText(Window(s), Message)
<1>1. s \in Scrolling
  BY DEF Screens
<1>. PICK y \in 1..ROWS-1 : \A n \in 1..Len(Message)-1 : Lettered(After(s, Message, n), y, n)
  BY <1>1, MessageSteps
<1>2. ASSUME NEW n \in 1..Len(Message) PROVE After(s, Message, n).x <= COLS
  <2>1. CASE n \in 1..Len(Message)-1
    BY <2>1, MessageParts DEF Lettered
  <2>2. CASE n = Len(Message)
    <3>1. After(s, Message, n) = console_puts(s, Message)
      BY <2>2, MessageParts, PutsPrefix
    <3>. QED BY <1>1, <3>1, MessageLine, MessageParts
  <2>. QED BY <2>1, <2>2, MessageParts
<1>. QED BY <1>2, MessageParts, WindowFold

LEMMA Branches ==
  ASSUME NEW s \in Screens, NEW c
  PROVE  /\ c \in Printable =>
              Moved(s, c) = [mem |-> [s.mem EXCEPT ![s.y * COLS + s.x] = c],
                             x |-> Column(c, s.x), y |-> s.y]
         /\ c = "HT" \/ (c = "BS" /\ s.x > 0) =>
              Moved(s, c) = [mem |-> s.mem, x |-> Column(c, s.x), y |-> s.y]
         /\ c = "CR" => Moved(s, c) = [mem |-> s.mem, x |-> 0, y |-> s.y]
         /\ c = "LF" => Moved(s, c) = [mem |-> s.mem, x |-> 0, y |-> s.y + 1]
         /\ Ignored(c, s.x) => Moved(s, c) = s
<1>1. s = [mem |-> s.mem, x |-> s.x, y |-> s.y]
  BY Parts DEF Screens
<1>2. c \in Printable => Column(c, s.x) = s.x + 1
  BY Controls DEF Column
<1>3. c = "HT" => Column(c, s.x) = NextTab(s.x)
  BY Controls DEF Column
<1>4. c = "BS" => Column(c, s.x) = s.x - 1
  BY Controls DEF Column
<1>. QED BY <1>1, <1>2, <1>3, <1>4, MovedIs

LEMMA ShowInit == Init => ShowInv
BY DEF Init, ShowInv, Idle, console_move_cursor

LEMMA ShowOthers ==
  /\ \A text \in Texts \cup BootTexts : PrintInv /\ ScreenInv /\ ShowInv /\ Call(text) => ShowInv'
  /\ ShowInv /\ InitTasking => ShowInv'
  /\ ScreenInv /\ ShowInv /\ TimerIRQ => ShowInv'
<1>1. ASSUME NEW text \in Texts \cup BootTexts, PrintInv, ScreenInv, ShowInv, Call(text)
      PROVE  ShowInv'
  <2>1. /\ UNCHANGED <<buf, screen, cursor, tasking>> /\ Fits(text) /\ call.pc = "idle"
        /\ call'.pc = "format" /\ call'.text = text /\ call'.i = 0
        /\ expected' = TypedText(Window(screen), text)
    BY <1>1 DEF Call, Idle, memory, At
  <2>2. screen \in Screens
    BY <1>1, <2>1 DEF ScreenInv, Screens
  <2>3. (\A n \in 1..Len(text) : After(screen, text, n).x <= Width)'
    BY <2>1 DEF Fits, After, Width
  <2>4. Len(text) \in Nat
    BY TextsFit DEF AllTexts
  <2>5. Undisturbed(screen)'
    BY <2>1, <2>3, <2>4 DEF Undisturbed, WritingOut, Putting, Finishing, Copied, Formatting,
       InPutchar, InRow, Moving, InCursor
  <2>. QED BY <1>1, <2>1, <2>2, <2>5 DEF ShowInv
<1>2. ASSUME ShowInv, InitTasking PROVE ShowInv'
  BY <1>2 DEF InitTasking, ShowInv, memory, history, At
<1>3. ASSUME ScreenInv, ShowInv, TimerIRQ PROVE ShowInv'
  <2>1. /\ screen' = console_puts(screen, Message) /\ cursor' = console_move_cursor(screen')
        /\ call' = call
        /\ IF call.pc = "idle" THEN expected' = TypedText(Window(screen), Message)
           ELSE disturbed' = TRUE
    BY <1>3 DEF TimerIRQ, At
  <2>2. DOMAIN cursor' = {"index", "high", "low"}
    BY <2>1 DEF console_move_cursor
  <2>3. call.pc = "idle" => Window(screen') = expected'
    BY <1>3, <2>1, MessageFits DEF ScreenInv, Screens
  <2>. QED BY <2>1, <2>2, <2>3 DEF ShowInv
<1>. QED BY <1>1, <1>2, <1>3

LEMMA TextIs ==
  ASSUME NEW t \in Texts \cup BootTexts
  PROVE  /\ t \in Seq(STRING) /\ Len(t) \in 1..BUF-1 /\ BUF \in Nat
         /\ \A k \in 1..Len(t) : t[k] # "NUL"
<1>1. t \in Seq(STRING) /\ t # <<>> /\ Len(t) < BUF /\ BUF \in Nat
  BY BufferAssumption, TextAssumption
<1>2. Len(t) \in Nat \ {0}
  BY <1>1
<1>. QED BY <1>1, <1>2, BufferAssumption

(* From the last character on: the call returns with the text on screen.   *)
LEMMA ShowReturn ==
  ASSUME NEW s \in Screens, Undisturbed(s), Test, buf[call.i] = "NUL", UNCHANGED expected,
         PrintInv
  PROVE  call'.pc = "idle" /\ Window(screen') = expected' /\ cursor' = console_move_cursor(screen')
<1>. PICK t, i : t = call.text /\ i = call.i
  OBVIOUS
<1>1. /\ call'.pc = "idle" /\ screen' = screen /\ cursor' = cursor /\ expected' = expected
      /\ call.pc = "test"
  BY DEF Test, Idle, At, memory
<1>2. /\ t \in Seq(STRING) /\ Len(t) \in 1..BUF-1 /\ i \in 0..BUF-1 /\ BUF \in Nat
      /\ \A k \in 1..Len(t) : t[k] # "NUL"
  BY TextIs DEF Undisturbed, PrintInv, TypeOK
<1>3. /\ i <= Len(t) /\ Copied(buf, t, Len(t)) /\ screen = After(s, t, i)
      /\ i > 0 => cursor = console_move_cursor(screen)
  BY <1>1 DEF Undisturbed, WritingOut, Before
<1>4. i = Len(t)
  <2>. SUFFICES ASSUME i # Len(t) PROVE FALSE
    OBVIOUS
  <2>1. i \in 0..Len(t)-1 /\ i + 1 \in 1..Len(t)
    BY <1>2, <1>3
  <2>2. buf[i] = t[i + 1]
    BY <1>3, <2>1 DEF Copied
  <2>. QED BY <1>2, <2>1, <2>2
<1>5. screen = console_puts(s, t) /\ cursor = console_move_cursor(screen)
  BY <1>2, <1>3, <1>4, PutsPrefix
<1>6. \A n \in 1..Len(t) : After(s, t, n).x <= COLS
  <2>. SUFFICES ASSUME NEW n \in 1..Len(t) PROVE After(s, t, n).x <= COLS
    OBVIOUS
  <2>1. After(s, t, n).x <= Width /\ n \in 0..Len(t)
    BY <1>2 DEF Undisturbed
  <2>2. After(s, t, n) \in Screens
    BY <1>2, <2>1, AfterIsScreen
  <2>. QED BY <2>1, <2>2, Widths, Parts DEF Screens
<1>7. Window(screen) = TypedText(Window(s), t)
  BY <1>2, <1>5, <1>6, WindowFold
<1>. QED BY <1>1, <1>5, <1>7 DEF Undisturbed

(* The steps outside console_putchar.                                      *)
LEMMA ShowPuts ==
  ASSUME NEW s \in Screens, Undisturbed(s), PrintInv, ScreenInv, UNCHANGED <<tasking, expected>>,
         \/ vsprintf \/ Terminate \/ (Test /\ buf[call.i] # "NUL") \/ WriteLow,
         DOMAIN cursor = {"index", "high", "low"}
  PROVE  Undisturbed(s)'
<1>. PICK t, i : t = call.text /\ i = call.i
  OBVIOUS
<1>0. Width' = Width
  BY DEF Width
<1>1. /\ DOMAIN call = {"pc", "text", "i", "c", "k", "reg"} /\ DOMAIN buf = 0..BUF-1
      /\ i \in 0..BUF-1 /\ BUF \in Nat
      /\ t \in Texts \cup BootTexts /\ t \in Seq(STRING) /\ Len(t) \in 1..BUF-1
  BY TextIs DEF PrintInv, TypeOK, Undisturbed
<1>2. ASSUME call'.text = t, WritingOut(s)', Putting(s)', Finishing(s)' PROVE Undisturbed(s)'
  BY <1>0, <1>2 DEF Undisturbed
<1>3. CASE vsprintf
  <2>1. /\ call.pc = "format" /\ screen' = screen
        /\ IF i < Len(t) THEN buf' = [buf EXCEPT ![i] = t[i + 1]] /\ call' = [call EXCEPT !.i = i + 1]
                         ELSE buf' = [buf EXCEPT ![i] = "NUL"] /\ call' = [call EXCEPT !.pc = "terminate"]
    BY <1>3 DEF vsprintf, At, Goto
  <2>2. screen = s /\ i <= Len(t) /\ Copied(buf, t, i)
    BY <2>1 DEF Undisturbed, WritingOut, Formatting
  <2>3. call'.text = t /\ IF i < Len(t) THEN call'.pc = "format" /\ call'.i = i + 1
                          ELSE call'.pc = "terminate" /\ call'.i = i /\ i = Len(t)
    BY <1>1, <2>1, <2>2
  <2>4. call'.i <= Len(t) /\ Copied(buf', t, call'.i)
    BY <1>1, <2>1, <2>2, <2>3 DEF Copied
  <2>5. WritingOut(s)'
    BY <2>1, <2>2, <2>3, <2>4 DEF WritingOut, Formatting, InPutchar
  <2>6. Putting(s)' /\ Finishing(s)'
    BY <2>3 DEF Putting, Finishing, InRow, Moving, InCursor
  <2>. QED BY <1>2, <2>3, <2>5, <2>6
<1>4. CASE Terminate
  <2>1. /\ call.pc = "terminate" /\ screen' = screen /\ buf' = [buf EXCEPT ![i] = "NUL"]
        /\ call'.pc = "test" /\ call'.i = 0 /\ call'.text = t
    BY <1>1, <1>4 DEF Terminate, At
  <2>2. screen = s /\ i = Len(t) /\ Copied(buf, t, i)
    BY <2>1 DEF Undisturbed, WritingOut, Formatting
  <2>3. Copied(buf', t, i) /\ buf'[i] = "NUL"
    BY <1>1, <2>1, <2>2 DEF Copied
  <2>4. After(s, t, 0) = s
    BY <1>1, PutsPrefix
  <2>5. WritingOut(s)'
    BY <1>1, <2>1, <2>2, <2>3, <2>4 DEF WritingOut, Formatting, InPutchar, Before
  <2>6. Putting(s)' /\ Finishing(s)'
    BY <2>1 DEF Putting, Finishing, InRow, Moving, InCursor
  <2>. QED BY <1>2, <2>1, <2>5, <2>6
<1>5. CASE Test /\ buf[call.i] # "NUL"
  <2>1. /\ call.pc = "test" /\ screen' = screen /\ buf' = buf
        /\ call'.pc = "fetch" /\ call'.i = i /\ call'.text = t
    BY <1>1, <1>5 DEF Test, At, Goto, memory
  <2>2. screen = Before(s) /\ i <= Len(t) /\ Copied(buf, t, Len(t)) /\ buf[Len(t)] = "NUL"
    BY <2>1 DEF Undisturbed, WritingOut
  <2>3. i < Len(t)
    BY <1>1, <1>5, <2>2
  <2>4. WritingOut(s)'
    BY <2>1, <2>2, <2>3 DEF WritingOut, Formatting, InPutchar
  <2>5. Putting(s)' /\ Finishing(s)'
    BY <2>1, <2>2 DEF Putting, Finishing, InRow, Moving, InCursor, Before
  <2>. QED BY <1>2, <2>1, <2>4, <2>5
<1>6. CASE WriteLow
  <2>1. /\ call.pc = "write_low" /\ screen' = screen /\ buf' = buf
        /\ call'.pc = "test" /\ call'.i = i + 1 /\ call'.text = t
        /\ cursor' = [cursor EXCEPT ![cursor.index] = call.reg % BYTE]
    BY <1>1, <1>6 DEF WriteLow, At, Data
  <2>2. /\ screen = console_scroll(Going(s)) /\ call.reg = Position /\ cursor.index = "low"
        /\ cursor.high = (Position \div BYTE) % BYTE
    BY <2>1 DEF Undisturbed, Finishing, InCursor
  <2>3. /\ i < Len(t) /\ Copied(buf, t, Len(t)) /\ buf[Len(t)] = "NUL"
    BY <2>1 DEF Undisturbed, WritingOut, InPutchar
  <2>4. cursor' = console_move_cursor(screen)
    <3>. PICK p : p = Position
      OBVIOUS
    <3>1. console_move_cursor(screen) = [index |-> "low", high |-> (p \div BYTE) % BYTE, low |-> p % BYTE]
      BY DEF console_move_cursor, Position
    <3>2. cursor' = [cursor EXCEPT !["low"] = p % BYTE]
      BY <2>1, <2>2
    <3>3. cursor' = [index |-> cursor.index, high |-> cursor.high, low |-> p % BYTE]
      BY <3>2
    <3>. QED BY <2>2, <3>1, <3>3
  <2>5. screen = After(s, t, i + 1)
    <3>1. Going(s) = Moved(After(s, t, i), t[i + 1])
      BY DEF Going, Before
    <3>2. After(s, t, i) \in Screens
      BY <1>1, <2>3, AfterIsScreen
    <3>3. screen = console_putchar(After(s, t, i), t[i + 1])
      <4>. PICK b : b = After(s, t, i)
        OBVIOUS
      <4>1. b = [mem |-> b.mem, x |-> b.x, y |-> b.y]
        BY <3>2, Parts DEF Screens
      <4>. QED BY <2>2, <3>1, <4>1, MovedIs
    <3>4. i + 1 \in 1..Len(t) /\ (i + 1) - 1 = i
      BY <1>1, <2>3
    <3>. QED BY <1>1, <3>3, <3>4, PutsPrefix
  <2>6. WritingOut(s)'
    <3>1. call'.i <= Len(t)
      BY <1>1, <2>1, <2>3
    <3>2. screen' = Before(s)' /\ cursor' = console_move_cursor(screen')
      BY <2>1, <2>4, <2>5 DEF Before
    <3>. QED BY <2>1, <2>3, <3>1, <3>2 DEF WritingOut, Formatting, InPutchar
  <2>7. Putting(s)' /\ Finishing(s)'
    BY <2>1 DEF Putting, Finishing, InRow, Moving, InCursor
  <2>. QED BY <1>2, <2>1, <2>6, <2>7
<1>. QED BY <1>3, <1>4, <1>5, <1>6

(* What every step inside console_putchar keeps.                           *)
LEMMA ShowFrame ==
  ASSUME NEW s \in Screens, Undisturbed(s), UNCHANGED <<tasking, expected, buf>>,
         call.pc \in InPutchar, call'.pc \in InPutchar,
         call'.text = call.text, call'.i = call.i
  PROVE  /\ Before(s)' = Before(s) /\ Going(s)' = Going(s)
         /\ Putting(s)' /\ Finishing(s)' => Undisturbed(s)'
<1>1. Width' = Width
  BY DEF Width
<1>2. WritingOut(s)'
  BY DEF Undisturbed, WritingOut, InPutchar, Formatting
<1>3. Putting(s)' /\ Finishing(s)' => Undisturbed(s)'
  BY <1>1, <1>2 DEF Undisturbed
<1>. QED BY <1>3 DEF Before, Going

LEMMA ShowFetch ==
  ASSUME NEW s \in Screens, Undisturbed(s), PrintInv, ScreenInv, UNCHANGED <<tasking, expected>>,
         Fetch
  PROVE  Undisturbed(s)'
<1>. PICK c, g : c = buf[call.i] /\ g = Going(s)
  OBVIOUS
<1>0. DOMAIN call = {"pc", "text", "i", "c", "k", "reg"}
  BY DEF PrintInv
<1>1. /\ screen' = screen /\ buf' = buf /\ call.pc = "fetch"
      /\ call'.c = c /\ call'.k = 0 /\ call'.i = call.i /\ call'.text = call.text
      /\ call'.pc = CASE c \in Printable -> "row"
                      [] c = "HT" \/ (c = "BS" /\ screen.x > 0) -> "read_x"
                      [] c = "CR" -> "return"
                      [] c = "LF" -> "read_y"
                      [] OTHER -> "scroll"
  BY <1>0 DEF Fetch, At, memory
<1>2. call'.pc \in {"row", "read_x", "return", "read_y", "scroll"}
  BY <1>1
<1>3. screen = Before(s) /\ screen \in Screens
  BY <1>1 DEF Undisturbed, Putting, ScreenInv, Screens
<1>4. c = call.text[call.i + 1] /\ g = Moved(screen, c)
  <2>1. Copied(buf, call.text, Len(call.text)) /\ call.i < Len(call.text)
    BY <1>1 DEF Undisturbed, WritingOut, InPutchar
  <2>2. call.i \in 0..BUF-1 /\ Len(call.text) \in Nat /\ BUF \in Nat
    BY TextIs DEF PrintInv, TypeOK, Undisturbed
  <2>3. call.i \in 0..Len(call.text)-1
    BY <2>1, <2>2
  <2>. QED BY <1>3, <2>1, <2>3 DEF Copied, Going
<1>5. /\ Before(s)' = screen' /\ Going(s)' = g
      /\ Putting(s)' /\ Finishing(s)' => Undisturbed(s)'
  BY <1>1, <1>2, <1>3, ShowFrame DEF InPutchar
<1>6. Finishing(s)'
  BY <1>2 DEF Finishing, InCursor
<1>7. /\ call'.pc = "read_x" => g = [mem |-> screen.mem, x |-> Column(c, screen.x), y |-> screen.y]
      /\ call'.pc = "return" => g = [mem |-> screen.mem, x |-> 0, y |-> screen.y]
      /\ call'.pc = "read_y" => g = [mem |-> screen.mem, x |-> 0, y |-> screen.y + 1]
      /\ call'.pc = "scroll" => g = screen
  <2>1. CASE c \in Printable
    <3>1. call'.pc = "row"
      BY <1>1, <2>1, Controls
    <3>. QED BY <3>1
  <2>2. CASE c = "HT" \/ (c = "BS" /\ screen.x > 0)
    <3>1. call'.pc = "read_x"
      BY <1>1, <2>2, Controls
    <3>2. g = [mem |-> screen.mem, x |-> Column(c, screen.x), y |-> screen.y]
      BY <1>3, <1>4, <2>2, Branches
    <3>. QED BY <3>1, <3>2
  <2>3. CASE c = "CR"
    <3>1. call'.pc = "return"
      BY <1>1, <2>3, Controls
    <3>2. g = [mem |-> screen.mem, x |-> 0, y |-> screen.y]
      BY <1>3, <1>4, <2>3, Branches
    <3>. QED BY <3>1, <3>2
  <2>4. CASE c = "LF"
    <3>1. call'.pc = "read_y"
      BY <1>1, <2>4, Controls
    <3>2. g = [mem |-> screen.mem, x |-> 0, y |-> screen.y + 1]
      BY <1>3, <1>4, <2>4, Branches
    <3>. QED BY <3>1, <3>2
  <2>5. CASE Ignored(c, screen.x)
    <3>1. call'.pc = "scroll"
      BY <1>1, <2>5 DEF Ignored
    <3>2. g = screen
      BY <1>3, <1>4, <2>5, Branches
    <3>. QED BY <3>1, <3>2
  <2>. QED BY <2>1, <2>2, <2>3, <2>4, <2>5 DEF Ignored
<1>8. Putting(s)'
  BY <1>1, <1>2, <1>4, <1>5, <1>7 DEF Putting, InRow, Moving
<1>. QED BY <1>5, <1>6, <1>8

LEMMA ShowMoving ==
  ASSUME NEW s \in Screens, Undisturbed(s), PrintInv, ScreenInv, UNCHANGED <<tasking, expected>>,
         \/ Row \/ Locate \/ Store \/ ReadX \/ WriteX \/ ReadY \/ WriteY \/ CarriageReturn
         \/ ScrollTest
  PROVE  Undisturbed(s)'
<1>. PICK g : g = Going(s)
  OBVIOUS
<1>0. /\ DOMAIN call = {"pc", "text", "i", "c", "k", "reg"}
      /\ screen = [mem |-> screen.mem, x |-> screen.x, y |-> screen.y]
      /\ DOMAIN screen = {"mem", "x", "y"}
      /\ screen.y \in 0..ROWS /\ ROWS \in Nat /\ COLS \in Nat /\ COLS * ROWS \in Nat
  BY Parts, ScreenAssumption DEF PrintInv, ScreenInv, Scrolling
<1>1. ASSUME UNCHANGED buf, call.pc \in InPutchar, call'.pc \in InPutchar,
             call'.text = call.text, call'.i = call.i
      PROVE  /\ Before(s)' = Before(s) /\ Going(s)' = g
             /\ Putting(s)' /\ Finishing(s)' => Undisturbed(s)'
  BY <1>1, ShowFrame
<1>2. Putting(s)
  BY DEF Undisturbed
<1>3. CASE Row \/ Locate
  <2>1. /\ screen' = screen /\ buf' = buf /\ call'.text = call.text /\ call'.i = call.i
        /\ call'.k = call.k /\ call'.c = call.c
        /\ \/ call.pc = "row" /\ call'.pc = "locate" /\ call'.reg = screen.y * COLS
           \/ call.pc = "locate" /\ call'.pc = "store" /\ call'.reg = call.reg + screen.x
    BY <1>0, <1>3 DEF Row, Locate, At, Load, memory
  <2>2. /\ screen = Before(s) /\ call.c = call.text[call.i + 1] /\ call.k = 0
        /\ call.pc = "locate" => call.reg = screen.y * COLS
    BY <1>2, <2>1 DEF Putting, InRow, Moving
  <2>3. Putting(s)' /\ Finishing(s)'
    <3>1. Before(s)' = Before(s)
      BY <1>1, <2>1 DEF InPutchar
    <3>. QED BY <2>1, <2>2, <3>1 DEF Putting, Finishing, InRow, Moving, InCursor, Position
  <2>. QED BY <1>1, <2>1, <2>3 DEF InPutchar
<1>4. CASE Store
  <2>. PICK c, r : c = call.c /\ r = call.reg
    OBVIOUS
  <2>1. /\ buf' = buf /\ call.pc = "store" /\ call' = [call EXCEPT !.pc = "read_x"]
        /\ screen' = [screen EXCEPT !.mem[r] = c]
    BY <1>4 DEF Store, At, Goto
  <2>2. /\ call'.pc = "read_x" /\ call'.i = call.i /\ call'.c = c /\ call'.k = call.k
        /\ call'.text = call.text
    BY <1>0, <2>1
  <2>3. /\ screen = Before(s) /\ c = call.text[call.i + 1] /\ call.k = 0 /\ r = Position
        /\ c \in Printable /\ screen \in Screens
    BY <1>2, <2>1 DEF Putting, InRow, Moving, ScreenInv, Screens
  <2>4. screen' = [mem |-> [screen.mem EXCEPT ![r] = c], x |-> screen.x, y |-> screen.y]
    BY <1>0, <2>1
  <2>5. g = [mem |-> screen'.mem, x |-> Column(c, screen'.x), y |-> screen'.y]
    <3>1. g = Moved(screen, c)
      BY <2>3 DEF Going
    <3>2. g = [mem |-> [screen.mem EXCEPT ![r] = c], x |-> Column(c, screen.x), y |-> screen.y]
      BY <2>3, <3>1, Branches DEF Position
    <3>. QED BY <2>4, <3>2
  <2>6. Going(s)' = g
    BY <1>1, <2>1, <2>2 DEF InPutchar
  <2>7. Putting(s)' /\ Finishing(s)'
    BY <2>2, <2>3, <2>5, <2>6 DEF Putting, Finishing, InRow, Moving, InCursor
  <2>. QED BY <1>1, <2>1, <2>2, <2>7 DEF InPutchar
<1>5. CASE ReadX \/ ReadY
  <2>1. /\ screen' = screen /\ buf' = buf /\ call'.text = call.text /\ call'.i = call.i
        /\ call'.k = call.k /\ call'.c = call.c
        /\ \/ call.pc = "read_x" /\ call'.pc = "write_x" /\ call'.reg = screen.x
           \/ call.pc = "read_y" /\ call'.pc = "write_y" /\ call'.reg = screen.y
    BY <1>0, <1>5 DEF ReadX, ReadY, At, Load, memory
  <2>2. Going(s)' = g
    BY <1>1, <2>1 DEF InPutchar
  <2>3. /\ call.k = 0
        /\ call.pc = "read_x" => call.c = call.text[call.i + 1]
        /\ call.pc = "read_x" =>
             g = [mem |-> screen.mem, x |-> Column(call.c, screen.x), y |-> screen.y]
        /\ call.pc = "read_y" => g = [mem |-> screen.mem, x |-> 0, y |-> screen.y + 1]
    BY <1>2, <2>1 DEF Putting, InRow, Moving
  <2>4. Putting(s)' /\ Finishing(s)'
    BY <2>1, <2>2, <2>3 DEF Putting, Finishing, InRow, Moving, InCursor
  <2>. QED BY <1>1, <2>1, <2>4 DEF InPutchar
<1>6. CASE WriteX \/ WriteY \/ CarriageReturn
  <2>1. /\ buf' = buf /\ call'.text = call.text /\ call'.i = call.i /\ call'.k = call.k
        /\ \/ /\ call.pc = "write_x" /\ call'.pc = "scroll"
              /\ screen' = [mem |-> screen.mem, x |-> Column(call.c, call.reg), y |-> screen.y]
           \/ /\ call.pc = "write_y" /\ call'.pc = "return"
              /\ screen' = [mem |-> screen.mem, x |-> screen.x, y |-> call.reg + 1]
           \/ /\ call.pc = "return" /\ call'.pc = "scroll"
              /\ screen' = [mem |-> screen.mem, x |-> 0, y |-> screen.y]
    BY <1>0, <1>6 DEF WriteX, WriteY, CarriageReturn, At, Goto
  <2>2. Going(s)' = g
    BY <1>1, <2>1 DEF InPutchar
  <2>3. /\ call.k = 0
        /\ call.pc = "write_x" =>
             g = [mem |-> screen.mem, x |-> Column(call.c, call.reg), y |-> screen.y]
        /\ call.pc = "write_y" => g = [mem |-> screen.mem, x |-> 0, y |-> call.reg + 1]
        /\ call.pc = "return" => g = [mem |-> screen.mem, x |-> 0, y |-> screen.y]
    BY <1>2, <2>1 DEF Putting, Moving, InRow
  <2>4. Putting(s)' /\ Finishing(s)'
    BY <2>1, <2>2, <2>3 DEF Putting, Finishing, InRow, Moving, InCursor
  <2>. QED BY <1>1, <2>1, <2>4 DEF InPutchar
<1>7. CASE ScrollTest
  <2>1. /\ screen' = screen /\ buf' = buf /\ call'.text = call.text /\ call'.i = call.i
        /\ call'.k = call.k /\ call.pc = "scroll"
        /\ call'.pc = IF screen.y >= ROWS THEN "copy" ELSE "cursor_row"
    BY <1>0, <1>7 DEF ScrollTest, At, Goto, memory
  <2>2. Going(s)' = g
    BY <1>1, <2>1 DEF InPutchar
  <2>3. call.k = 0 /\ g = screen
    BY <1>2, <2>1 DEF Putting, Moving
  <2>4. CASE screen.y >= ROWS
    <3>1. PartlyUp(g.mem, 0) = g.mem
      <4>1. screen.mem \in [Cells -> Printable]
        BY Parts DEF ScreenInv
      <4>2. \A j \in Cells : ~(j < 0)
        BY DEF Cells
      <4>. QED BY <2>3, <4>1, <4>2 DEF PartlyUp
    <3>2. ~(g.y < ROWS) /\ 0 <= ROWS * COLS
      BY <1>0, <2>3, <2>4
    <3>3. Putting(s)' /\ Finishing(s)'
      BY <1>0, <2>1, <2>2, <2>3, <2>4, <3>1, <3>2 DEF Putting, Finishing, InRow, Moving, InCursor
    <3>. QED BY <1>1, <2>1, <3>3 DEF InPutchar
  <2>5. CASE ~(screen.y >= ROWS)
    <3>1. g.y < ROWS
      BY <1>0, <2>3, <2>5
    <3>2. console_scroll(g) = g
      BY <3>1 DEF console_scroll
    <3>3. Putting(s)' /\ Finishing(s)'
      BY <2>1, <2>2, <2>3, <2>5, <3>2 DEF Putting, Finishing, InRow, Moving, InCursor
    <3>. QED BY <1>1, <2>1, <3>3 DEF InPutchar
  <2>. QED BY <2>4, <2>5
<1>. QED BY <1>3, <1>4, <1>5, <1>6, <1>7

LEMMA UpByCells ==
  ASSUME NEW m \in [Cells -> Printable]
  PROVE  /\ \A k \in Cells :
              [PartlyUp(m, k) EXCEPT ![k] = IF k + COLS \in Cells THEN PartlyUp(m, k)[k + COLS] ELSE Blank]
                = PartlyUp(m, k + 1)
         /\ PartlyUp(m, ROWS * COLS) = Up(m)
<1>0. COLS \in Nat \ {0} /\ Cells \subseteq Nat
  BY ScreenAssumption DEF Cells
<1>1. ASSUME NEW k \in Cells
      PROVE  [PartlyUp(m, k) EXCEPT ![k] = IF k + COLS \in Cells THEN PartlyUp(m, k)[k + COLS] ELSE Blank]
               = PartlyUp(m, k + 1)
  <2>. PICK v : v = IF k + COLS \in Cells THEN PartlyUp(m, k)[k + COLS] ELSE Blank
    OBVIOUS
  <2>1. v = Up(m)[k]
    <3>1. k + COLS \in Cells => PartlyUp(m, k)[k + COLS] = m[k + COLS]
      BY <1>0 DEF PartlyUp
    <3>. QED BY <3>1 DEF Up
  <2>2. \A j \in Cells : (j < k + 1 <=> j < k \/ j = k) /\ ~(k < k)
    BY <1>0
  <2>3. [PartlyUp(m, k) EXCEPT ![k] = v] = PartlyUp(m, k + 1)
    BY <2>1, <2>2 DEF PartlyUp
  <2>. QED BY <2>3
<1>2. PartlyUp(m, ROWS * COLS) = Up(m)
  <2>1. \A j \in Cells : j < ROWS * COLS
    BY ScreenAssumption DEF Cells
  <2>2. Up(m) = [j \in Cells |-> Up(m)[j]]
    BY DEF Up
  <2>. QED BY <2>1, <2>2 DEF PartlyUp
<1>. QED BY <1>1, <1>2

LEMMA ShowScroll ==
  ASSUME NEW s \in Screens, Undisturbed(s), PrintInv, ScreenInv, UNCHANGED <<tasking, expected>>,
         Scroll
  PROVE  Undisturbed(s)'
<1>. PICK g, k, n : g = Going(s) /\ k = call.k /\ n = ROWS * COLS
  OBVIOUS
<1>0. /\ DOMAIN call = {"pc", "text", "i", "c", "k", "reg"} /\ call.pc = "copy"
      /\ k \in Nat /\ n \in Nat /\ ROWS \in Nat \ {0} /\ Cells = 0..n-1
  <2>1. ROWS \in Nat \ {0} /\ COLS \in Nat \ {0}
    BY ScreenAssumption
  <2>2. n \in Nat
    BY <2>1
  <2>. QED BY <2>1, <2>2 DEF PrintInv, ScreenInv, Scroll, At, Cells
<1>1. /\ ~(g.y < ROWS) /\ k <= n
      /\ screen = [mem |-> PartlyUp(g.mem, k), x |-> g.x, y |-> g.y]
  BY <1>0 DEF Undisturbed, Finishing
<1>2. g \in Scrolling /\ g.mem \in [Cells -> Printable] /\ g = [mem |-> g.mem, x |-> g.x, y |-> g.y]
  <2>1. call.text \in Seq(STRING) /\ Len(call.text) \in Nat /\ BUF \in Nat
    BY TextIs DEF Undisturbed
  <2>2. call.i \in 0..Len(call.text)
    BY <1>0, <2>1 DEF Undisturbed, WritingOut, InPutchar, PrintInv, TypeOK
  <2>3. Before(s) \in Screens
    BY <2>1, <2>2, AfterIsScreen DEF Before
  <2>4. g \in Scrolling
    BY <2>3, MovedType DEF Going
  <2>. QED BY <2>4, Parts
<1>3. CASE k \in Cells
  <2>. PICK p, v : /\ p = PartlyUp(g.mem, k)
                   /\ v = IF k + COLS \in Cells THEN p[k + COLS] ELSE Blank
    OBVIOUS
  <2>1. /\ buf' = buf /\ call'.pc = "copy" /\ call'.text = call.text /\ call'.i = call.i
        /\ call'.k = k + 1
    BY <1>0, <1>3 DEF Scroll, At
  <2>2. screen' = [screen EXCEPT !.mem[k] = v]
    BY <1>1, <1>3 DEF Scroll, At
  <2>3. screen' = [mem |-> [p EXCEPT ![k] = v], x |-> g.x, y |-> g.y]
    BY <1>1, <2>2
  <2>4. [p EXCEPT ![k] = v] = PartlyUp(g.mem, k + 1)
    BY <1>2, <1>3, UpByCells
  <2>5. Going(s)' = g /\ (Putting(s)' /\ Finishing(s)' => Undisturbed(s)')
    BY <1>0, <2>1, ShowFrame DEF InPutchar
  <2>6. k + 1 <= n
    BY <1>0, <1>3
  <2>7. Putting(s)' /\ Finishing(s)'
    BY <1>1, <2>1, <2>3, <2>4, <2>5, <2>6 DEF Putting, Finishing, InRow, Moving, InCursor
  <2>. QED BY <2>5, <2>7
<1>4. CASE k \notin Cells
  <2>1. /\ buf' = buf /\ call'.pc = "cursor_row" /\ call'.text = call.text /\ call'.i = call.i
        /\ screen' = [screen EXCEPT !.y = ROWS - 1]
    BY <1>0, <1>4 DEF Scroll, At, Goto
  <2>2. k = n
    BY <1>0, <1>1, <1>4
  <2>3. screen' = [mem |-> Up(g.mem), x |-> g.x, y |-> ROWS - 1]
    BY <1>1, <1>2, <2>1, <2>2, UpByCells
  <2>4. screen' = console_scroll(g)
    BY <1>1, <1>2, <2>3, ScrollIs
  <2>5. Going(s)' = g /\ (Putting(s)' /\ Finishing(s)' => Undisturbed(s)')
    BY <1>0, <2>1, ShowFrame DEF InPutchar
  <2>6. Putting(s)' /\ Finishing(s)'
    BY <2>1, <2>4, <2>5 DEF Putting, Finishing, InRow, Moving, InCursor
  <2>. QED BY <2>5, <2>6
<1>. QED BY <1>3, <1>4

LEMMA ShowCursor ==
  ASSUME NEW s \in Screens, Undisturbed(s), PrintInv, UNCHANGED <<tasking, expected>>,
         DOMAIN cursor = {"index", "high", "low"},
         CursorRow \/ CursorX \/ SelectHigh \/ WriteHigh \/ SelectLow
  PROVE  Undisturbed(s)'
<1>. PICK g : g = Going(s)
  OBVIOUS
<1>0. DOMAIN call = {"pc", "text", "i", "c", "k", "reg"}
  BY DEF PrintInv
<1>1. /\ screen' = screen /\ buf' = buf /\ call'.text = call.text /\ call'.i = call.i
      /\ \/ call.pc = "cursor_row" /\ call'.pc = "cursor_x" /\ call'.reg = screen.y * COLS
         \/ call.pc = "cursor_x" /\ call'.pc = "select_high" /\ call'.reg = call.reg + screen.x
         \/ /\ call.pc = "select_high" /\ call'.pc = "write_high" /\ call'.reg = call.reg
            /\ cursor' = [cursor EXCEPT !.index = "high"]
         \/ /\ call.pc = "write_high" /\ call'.pc = "select_low" /\ call'.reg = call.reg
            /\ cursor' = [cursor EXCEPT ![cursor.index] = (call.reg \div BYTE) % BYTE]
         \/ /\ call.pc = "select_low" /\ call'.pc = "write_low" /\ call'.reg = call.reg
            /\ cursor' = [cursor EXCEPT !.index = "low"]
  BY <1>0 DEF CursorRow, CursorX, SelectHigh, SelectLow, Select, WriteHigh, Data, At, Goto, Load, memory
<1>2. Going(s)' = g /\ Position' = Position /\ (Putting(s)' /\ Finishing(s)' => Undisturbed(s)')
  BY <1>1, ShowFrame DEF InPutchar, Position
<1>3. /\ screen = console_scroll(g)
      /\ call.pc = "cursor_x" => call.reg = screen.y * COLS
      /\ call.pc \in {"select_high", "write_high", "select_low"} => call.reg = Position
      /\ call.pc = "write_high" => cursor.index = "high"
      /\ call.pc = "select_low" => cursor.high = (Position \div BYTE) % BYTE
  BY <1>1 DEF Undisturbed, Finishing, InCursor
<1>4. /\ call.pc = "select_high" => cursor'.index = "high"
      /\ call.pc = "write_high" => cursor'.high = (Position \div BYTE) % BYTE
      /\ call.pc = "select_low" => cursor'.index = "low" /\ cursor'.high = (Position \div BYTE) % BYTE
  BY <1>1, <1>3
<1>5. call.pc = "cursor_x" => call'.reg = Position
  BY <1>1, <1>3 DEF Position
<1>6. Putting(s)'
  BY <1>1 DEF Putting, InRow, Moving
<1>7. Finishing(s)'
  BY <1>1, <1>2, <1>3, <1>4, <1>5 DEF Finishing, InCursor
<1>. QED BY <1>2, <1>6, <1>7

LEMMA ShowStep == PrintInv /\ ScreenInv /\ ShowInv /\ Step => ShowInv'
<1>. SUFFICES ASSUME PrintInv, ScreenInv, ShowInv, Step PROVE ShowInv'
  OBVIOUS
<1>0. UNCHANGED <<tasking, expected, disturbed>> /\ DOMAIN cursor = {"index", "high", "low"}
  BY DEF Step, history, ShowInv
<1>1. DOMAIN cursor' = {"index", "high", "low"}
  BY <1>0 DEF Step, memory, vsprintf, Terminate, Test, Fetch, Row, Locate, Store, ReadX, WriteX,
     ReadY, WriteY, CarriageReturn, ScrollTest, Scroll, CursorRow, CursorX, SelectHigh, SelectLow,
     Select, WriteHigh, WriteLow, Data
<1>2. CASE disturbed
  BY <1>0, <1>1, <1>2 DEF ShowInv
<1>3. CASE ~disturbed
  <2>1. call.pc # "idle"
    BY DEF Step, At, vsprintf, Terminate, Test, Fetch, Row, Locate, Store, ReadX, WriteX,
       ReadY, WriteY, CarriageReturn, ScrollTest, Scroll, CursorRow, CursorX, SelectHigh,
       SelectLow, Select, WriteHigh, WriteLow
  <2>2. PICK s \in Screens : Undisturbed(s)
    BY <1>3, <2>1 DEF ShowInv
  <2>3. CASE Test /\ buf[call.i] = "NUL"
    BY <1>0, <1>1, <2>2, <2>3, ShowReturn DEF ShowInv
  <2>4. CASE ~(Test /\ buf[call.i] = "NUL")
    <3>1. Undisturbed(s)'
      BY <1>0, <2>2, <2>4, ShowPuts, ShowFetch, ShowMoving, ShowScroll, ShowCursor DEF Step
    <3>2. call'.pc # "idle"
      <4>1. DOMAIN call = {"pc", "text", "i", "c", "k", "reg"}
        BY DEF PrintInv
      <4>2. Fetch => call'.pc \in {"row", "read_x", "return", "read_y", "scroll"}
        BY <4>1 DEF Fetch
      <4>3. ~Fetch => call'.pc # "idle"
        BY <2>1, <2>4, <4>1 DEF Step, At, Goto, Load, vsprintf, Terminate, Test, Row, Locate, Store,
           ReadX, WriteX, ReadY, WriteY, CarriageReturn, ScrollTest, Scroll, CursorRow, CursorX,
           SelectHigh, SelectLow, Select, WriteHigh, WriteLow
      <4>. QED BY <4>2, <4>3
    <3>. QED BY <1>1, <2>2, <3>1, <3>2 DEF ShowInv
  <2>. QED BY <2>3, <2>4
<1>. QED BY <1>2, <1>3

LEMMA ShowNext == PrintInv /\ ScreenInv /\ ShowInv /\ [Next]_vars => ShowInv'
<1>1. ShowInv /\ UNCHANGED vars => ShowInv'
  <2>. SUFFICES ASSUME ShowInv, UNCHANGED vars PROVE ShowInv'
    OBVIOUS
  <2>1. \A s : Undisturbed(s) => Undisturbed(s)'
    BY DEF vars, Undisturbed, WritingOut, Putting, Finishing, Before, Going, Position, Width
  <2>. QED BY <2>1 DEF vars, ShowInv
<1>. QED BY <1>1, ShowOthers, ShowStep DEF Next

(* What the kernel prints undisturbed appears on the screen as on a window *)
(* moving down a sheet of paper, with the cursor behind it, and so does    *)
(* the timer's message (kernel/console.c).                                 *)
THEOREM TextShown == Spec => []ScreenShowsText
<1>1. ShowInv => ScreenShowsText
  BY DEF ShowInv, ScreenShowsText, At
<1>. QED BY PrintInit, PrintNext, ScreenInit, ScreenNext, ShowInit, ShowNext, <1>1, PTL DEF Spec

-----------------------------------------------------------------------------
(* The columns the kernel's characters go to.                              *)

(* The column after a character that is neither a tab nor a backspace.     *)
Col(c, x) == IF c \in Printable THEN x + 1 ELSE IF c \in {"LF", "CR"} THEN 0 ELSE x

(* The most the column may be before the j-th character of the buffer, so  *)
(* that the message still fits the row if it comes then.                   *)
Room(j) == IF j \in 1 .. Len(Message) - 1 THEN COLS - (Len(Message) - 2) + (j - 1) ELSE COLS

(* F bounds the column at every index from k to e.                         *)
Guides(F, b, k, e) ==
  /\ F \in [0..BUF -> Nat]
  /\ \A j \in k..e-1 : Col(b[j], F[j]) <= F[j + 1]
  /\ \A j \in k..e : j >= 1 => F[j] <= Room(j)

(* Reading on from index k and column v, no character is stored beyond the *)
(* right edge before the terminator.                                       *)
RoomAhead(b, k, v) ==
  \E F : \E e \in k .. BUF-1 : b[e] = "NUL" /\ Guides(F, b, k, e) /\ v <= F[k]

LEMMA MessageNumbers ==
  /\ Len(Message) \in 2..BUF-1 /\ BUF \in Nat /\ COLS \in Nat /\ Len(Message) - 2 <= COLS
  /\ Message[1] = "LF" /\ Message[Len(Message)] = "LF"
  /\ \A k \in 2 .. Len(Message) - 1 : Message[k] \in Printable
BY MessageParts, BufferAssumption

LEMMA RoomIs ==
  /\ \A j \in Nat : Room(j) \in Nat /\ Room(j) <= COLS
  /\ \A j \in 1 .. Len(Message) - 2 : Room(j + 1) = Room(j) + 1
BY MessageNumbers DEF Room

LEMMA RoomForLess ==
  ASSUME NEW b, NEW k \in 0..BUF, NEW v \in Nat, RoomAhead(b, k, v), NEW w \in 0..v
  PROVE  RoomAhead(b, k, w)
<1>. PICK F, e : e \in k .. BUF-1 /\ b[e] = "NUL" /\ Guides(F, b, k, e) /\ v <= F[k]
  BY DEF RoomAhead
<1>1. F[k] \in Nat
  BY DEF Guides
<1>2. w <= F[k]
  BY <1>1
<1>. QED BY <1>2 DEF RoomAhead

LEMMA RoomRead ==
  ASSUME NEW b, NEW k \in 0..BUF-1, NEW v \in Nat, RoomAhead(b, k, v), b[k] # "NUL"
  PROVE  RoomAhead(b, k + 1, Col(b[k], v))
<1>. PICK F, e : e \in k .. BUF-1 /\ b[e] = "NUL" /\ Guides(F, b, k, e) /\ v <= F[k]
  BY DEF RoomAhead
<1>0. BUF \in Nat
  BY BufferAssumption
<1>1. e \in k + 1 .. BUF-1 /\ k \in k..e-1
  BY <1>0
<1>2. F[k] \in Nat /\ F[k + 1] \in Nat /\ Col(b[k], F[k]) <= F[k + 1]
  BY <1>0, <1>1 DEF Guides
<1>3. Col(b[k], v) <= F[k + 1]
  BY <1>2 DEF Col
<1>4. Guides(F, b, k + 1, e)
  BY <1>0, <1>1 DEF Guides
<1>. QED BY <1>1, <1>3, <1>4 DEF RoomAhead

LEMMA MessageOver ==
  ASSUME NEW j \in 0..BUF-1
  PROVE  /\ j < Len(Message) => Formatted(buf, Message)[j] = Message[j + 1]
         /\ j = Len(Message) => Formatted(buf, Message)[j] = "NUL"
         /\ j > Len(Message) => Formatted(buf, Message)[j] = buf[j]
BY MessageNumbers DEF Formatted

(* The columns of the message's characters, if its line begins at a.       *)
Line(a) == [j \in 0..BUF |-> IF j \in 1 .. Len(Message) - 1 THEN a + (j - 1) ELSE 0]

LEMMA LineGuides ==
  ASSUME NEW a \in 0 .. COLS - (Len(Message) - 2)
  PROVE  /\ Formatted(buf, Message)[Len(Message)] = "NUL"
         /\ \A k, e \in 0..Len(Message) : Guides(Line(a), Formatted(buf, Message), k, e)
<1>. PICK b, l, F : b = Formatted(buf, Message) /\ l = Len(Message) /\ F = Line(a)
  OBVIOUS
<1>0. l \in 2..BUF-1 /\ BUF \in Nat /\ COLS \in Nat /\ a \in Nat /\ a <= COLS - (l - 2)
  BY MessageNumbers
<1>1. /\ F \in [0..BUF -> Nat] /\ F[0] = 0 /\ F[l] = 0
      /\ \A j \in 1..l-1 : F[j] = a + (j - 1)
  BY <1>0 DEF Line
<1>2. b[l] = "NUL" /\ l \in 0..BUF-1
  BY <1>0, MessageOver
<1>3. ASSUME NEW j \in 0..l-1 PROVE Col(b[j], F[j]) <= F[j + 1]
  <2>1. b[j] = Message[j + 1] /\ j + 1 \in 1..l /\ j \in 0..BUF /\ j + 1 \in 0..BUF
    BY <1>0, MessageOver
  <2>2. CASE j = 0 \/ j = l - 1
    <3>1. b[j] = "LF" /\ F[j + 1] \in Nat
      BY <1>0, <1>1, <2>1, <2>2, MessageNumbers
    <3>. QED BY <3>1, Controls DEF Col
  <2>3. CASE j # 0 /\ j # l - 1
    <3>1. b[j] \in Printable /\ j \in 1..l-1 /\ j + 1 \in 1..l-1
      BY <1>0, <2>1, <2>3, MessageNumbers
    <3>2. F[j] = a + (j - 1) /\ F[j + 1] = a + ((j + 1) - 1)
      BY <1>1, <3>1
    <3>. QED BY <1>0, <3>1, <3>2 DEF Col
  <2>. QED BY <2>2, <2>3
<1>4. ASSUME NEW j \in 0..l PROVE F[j] <= Room(j)
  <2>1. CASE j \in 1..l-1
    BY <1>0, <1>1, <2>1 DEF Room
  <2>2. CASE j \notin 1..l-1
    <3>1. j = 0 \/ j = l
      BY <1>0, <2>2
    <3>. QED BY <1>0, <1>1, <2>2, <3>1 DEF Room
  <2>. QED BY <2>1, <2>2
<1>5. ASSUME NEW k \in 0..l, NEW e \in 0..l PROVE Guides(F, b, k, e)
  <2>1. \A j \in k..e-1 : Col(b[j], F[j]) <= F[j + 1]
    <3>1. \A j \in k..e-1 : j \in 0..l-1
      BY <1>0
    <3>. QED BY <1>3, <3>1
  <2>2. \A j \in k..e : F[j] <= Room(j)
    <3>1. \A j \in k..e : j \in 0..l
      BY <1>0
    <3>. QED BY <1>4, <3>1
  <2>. QED BY <1>1, <2>1, <2>2 DEF Guides
<1>. QED BY <1>2, <1>5

(* The message fits a row after whatever is in it, if there is room.       *)
LEMMA RoomForMessage ==
  ASSUME NEW k \in 1 .. Len(Message) - 1, NEW v \in 0..Room(k)
  PROVE  RoomAhead(Formatted(buf, Message), k, v)
<1>. PICK b, l, a : b = Formatted(buf, Message) /\ l = Len(Message) /\ a = COLS - (l - 2)
  OBVIOUS
<1>0. l \in 2..BUF-1 /\ BUF \in Nat /\ a \in 0 .. COLS - (l - 2) /\ l \in k .. BUF-1
  BY MessageNumbers
<1>1. b[l] = "NUL" /\ Guides(Line(a), b, k, l)
  BY <1>0, LineGuides
<1>2. Line(a)[k] = Room(k) /\ Room(k) \in Nat
  BY <1>0, RoomIs DEF Line, Room
<1>3. v <= Line(a)[k]
  BY <1>2
<1>. QED BY <1>0, <1>1, <1>3 DEF RoomAhead

LEMMA RoomAtStart == RoomAhead(Formatted(buf, Message), 0, 0)
<1>. PICK b, l : b = Formatted(buf, Message) /\ l = Len(Message)
  OBVIOUS
<1>0. l \in 2..BUF-1 /\ BUF \in Nat /\ 0 \in 0 .. COLS - (l - 2) /\ l \in 0 .. BUF-1
  BY MessageNumbers
<1>1. b[l] = "NUL" /\ Guides(Line(0), b, 0, l) /\ 0 <= Line(0)[0]
  BY <1>0, LineGuides DEF Line
<1>. QED BY <1>0, <1>1 DEF RoomAhead

(* What there was room for past the first character, there still is.       *)
LEMMA RoomKept ==
  ASSUME NEW k \in 1..BUF, NEW v \in Nat, RoomAhead(buf, k, v)
  PROVE  RoomAhead(Formatted(buf, Message), k, v)
<1>. PICK b, l : b = Formatted(buf, Message) /\ l = Len(Message)
  OBVIOUS
<1>0. l \in 2..BUF-1 /\ BUF \in Nat
  BY MessageNumbers
<1>. PICK F, e : e \in k .. BUF-1 /\ buf[e] = "NUL" /\ Guides(F, buf, k, e) /\ v <= F[k]
  BY DEF RoomAhead
<1>1. F[k] \in Nat /\ F[k] <= Room(k) /\ Room(k) \in Nat
  BY <1>0, RoomIs DEF Guides
<1>2. CASE k < l
  BY <1>0, <1>1, <1>2, RoomForMessage
<1>3. CASE k = l
  <2>1. b[k] = "NUL" /\ k \in k .. BUF-1
    BY <1>0, <1>3, MessageOver
  <2>2. Guides(F, b, k, k)
    BY <1>0, <1>1 DEF Guides
  <2>. QED BY <2>1, <2>2 DEF RoomAhead
<1>4. CASE k > l
  <2>1. \A j \in k..e : b[j] = buf[j]
    BY <1>0, <1>4, MessageOver
  <2>2. Guides(F, b, k, e) /\ b[e] = "NUL"
    BY <1>0, <2>1 DEF Guides
  <2>. QED BY <2>2 DEF RoomAhead
<1>. QED BY <1>0, <1>2, <1>3, <1>4

(* Also when the timer's message replaces the character about to be read.  *)
LEMMA RoomAtFetch ==
  ASSUME NEW i \in 0..BUF-1, NEW x \in Nat, RoomAhead(buf, i + 1, Col(buf[i], x))
  PROVE  RoomAhead(Formatted(buf, Message), i + 1, Col(Formatted(buf, Message)[i], 0))
<1>. PICK b, l, c, d : b = Formatted(buf, Message) /\ l = Len(Message) /\ c = Col(buf[i], x) /\ d = Col(b[i], 0)
  OBVIOUS
<1>0. l \in 2..BUF-1 /\ BUF \in Nat /\ i + 1 \in 1..BUF /\ c \in Nat /\ d \in 0..1
  BY MessageNumbers DEF Col
<1>1. RoomAhead(b, i + 1, c)
  BY <1>0, RoomKept
<1>2. CASE d <= c
  BY <1>0, <1>1, <1>2, RoomForLess
<1>3. CASE ~(d <= c)
  <2>1. d = 1 /\ c = 0
    BY <1>0, <1>3
  <2>2. b[i] \in Printable /\ buf[i] \notin Printable
    BY <1>0, <2>1 DEF Col
  <2>3. i \in 1 .. l - 2
    BY <1>0, <2>2, MessageOver, MessageNumbers, Controls
  <2>4. 1 \in 0..Room(i + 1) /\ i + 1 \in 1..l-1
    BY <1>0, <2>3, MessageNumbers DEF Room
  <2>. QED BY <2>1, <2>4, RoomForMessage
<1>. QED BY <1>2, <1>3

LEMMA ColumnAfter ==
  ASSUME NEW s \in Screens, NEW c, c \notin {"HT", "BS"}
  PROVE  console_putchar(s, c).x = Col(c, s.x) /\ Col(c, s.x) \in Nat
<1>. PICK g : g = Moved(s, c)
  OBVIOUS
<1>1. s \in Scrolling /\ s = [mem |-> s.mem, x |-> s.x, y |-> s.y] /\ s.x \in Nat
  BY Parts DEF Screens
<1>2. console_putchar(s, c) = console_scroll(g) /\ g = [mem |-> g.mem, x |-> g.x, y |-> g.y]
  BY <1>1, MovedIs, MovedType, Parts
<1>3. console_scroll(g).x = g.x
  <2>. PICK m, x, y : m = g.mem /\ x = g.x /\ y = g.y
    OBVIOUS
  <2>1. g = [mem |-> m, x |-> x, y |-> y]
    BY <1>2
  <2>2. console_scroll(g) \in {[mem |-> m, x |-> x, y |-> y], [mem |-> Up(m), x |-> x, y |-> ROWS - 1]}
    BY <2>1, ScrollIs
  <2>. QED BY <2>2
<1>4. g.x = Col(c, s.x)
  <2>1. CASE c \in Printable
    <3>1. g.x = Column(c, s.x)
      BY <2>1, Branches
    <3>. QED BY <2>1, <3>1, Controls DEF Column, Col
  <2>2. CASE c \in {"LF", "CR"}
    BY <2>2, Branches, Controls DEF Col
  <2>3. CASE c \notin Printable \cup {"LF", "CR"}
    <3>1. Ignored(c, s.x)
      BY <2>3 DEF Ignored
    <3>. QED BY <2>3, <3>1, Branches DEF Col
  <2>. QED BY <2>1, <2>2, <2>3
<1>. QED BY <1>1, <1>2, <1>3, <1>4 DEF Col

(* While the kernel formats: up to the index there is room, or a terminator*)
(* has been left behind by the message.  What remains of the text moves to *)
(* the right by d at most, the part of the message that is left before it. *)
FormatRoom(s, F, d) ==
  /\ \A n \in 1..Len(call.text) : After(s, call.text, n).x <= Width
  /\ screen.x <= F[0]
  /\ \/ \E e \in 0..call.i-1 : buf[e] = "NUL" /\ Guides(F, buf, 0, e)
     \/ /\ Guides(F, buf, 0, call.i)
        /\ F[call.i] <= After(s, call.text, call.i).x + d
        /\ d <= Len(Message) - 2 /\ (d = 0 \/ d < call.i)

(* The column at which the kernel will read the next character.            *)
Coming ==
  CASE call.pc = "fetch" -> Col(buf[call.i], screen.x)
    [] call.pc \in {"row", "locate", "store", "read_x"} -> screen.x + 1
    [] call.pc = "write_x" -> call.reg + 1
    [] call.pc \in {"read_y", "write_y", "return"} -> 0
    [] OTHER -> screen.x

ColumnInv ==
  /\ disturbed => tasking
  /\ tasking =>
       /\ call.pc \in Formatting =>
            \E s \in Screens : \E F \in [0..BUF -> Nat] : \E d \in Nat : FormatRoom(s, F, d)
       /\ call.pc = "test" => RoomAhead(buf, call.i, screen.x)
       /\ call.pc \in InPutchar => RoomAhead(buf, call.i + 1, Coming)
       /\ call.pc = "locate" => \E r \in 0..ROWS-1 : call.reg = r * COLS
       /\ call.pc = "store" => call.reg \in Cells

LEMMA ComingType ==
  ASSUME PrintInv, ScreenInv, tasking, call.pc \in InPutchar
  PROVE  Coming \in Nat
<1>1. screen.x \in Nat
  BY Parts DEF ScreenInv
<1>2. call.pc = "write_x" => call.reg \in Nat
  BY DEF ScreenInv
<1>. QED BY <1>1, <1>2 DEF Coming, Col, InPutchar

LEMMA ColumnTimer == PrintInv /\ ScreenInv /\ ColumnInv /\ TimerIRQ => ColumnInv'
<1>. SUFFICES ASSUME PrintInv, ScreenInv, ColumnInv, TimerIRQ PROVE ColumnInv'
  OBVIOUS
<1>. PICK b, l, i : b = Formatted(buf, Message) /\ l = Len(Message) /\ i = call.i
  OBVIOUS
<1>0. l \in 2..BUF-1 /\ BUF \in Nat /\ i \in 0..BUF-1 /\ COLS \in Nat /\ l - 2 <= COLS
  BY MessageNumbers DEF PrintInv, TypeOK
<1>1. /\ tasking /\ tasking' = tasking /\ call' = call /\ buf' = b /\ screen'.x = 0
      /\ screen.x \in Nat
  <2>1. tasking /\ screen' = console_puts(screen, Message)
    BY DEF TimerIRQ
  <2>2. screen'.x = 0 /\ screen.x \in Nat
    BY <2>1, MessageLine, Parts DEF ScreenInv
  <2>. QED BY <2>2 DEF TimerIRQ
<1>2. ASSUME call.pc \in Formatting
      PROVE  (\E s \in Screens : \E F \in [0..BUF -> Nat] : \E d \in Nat : FormatRoom(s, F, d))'
  <2>1. PICK s \in Screens : \A n \in 1..Len(call.text) : After(s, call.text, n).x <= Width
    BY <1>1, <1>2 DEF ColumnInv, FormatRoom
  <2>. PICK F, d : F = Line(0) /\ d = F[i]
    OBVIOUS
  <2>2. /\ 0 \in 0 .. COLS - (l - 2) /\ F \in [0..BUF -> Nat] /\ F[0] = 0
        /\ d \in 0..l-2 /\ (d = 0 \/ d < i)
    <3>1. 0 \in 0 .. COLS - (l - 2) /\ F \in [0..BUF -> Nat] /\ F[0] = 0
      BY <1>0 DEF Line
    <3>2. d = IF i \in 1..l-1 THEN i - 1 ELSE 0
      BY <1>0 DEF Line
    <3>3. d \in 0..l-2 /\ (d = 0 \/ d < i)
      BY <1>0, <3>2
    <3>. QED BY <3>1, <3>3
  <2>3. b[l] = "NUL" /\ \A e \in 0..l : Guides(F, b, 0, e)
    <3>1. b[l] = "NUL" /\ \A m, e \in 0..l : Guides(Line(0), b, m, e)
      BY <2>2, LineGuides, Zenon
    <3>2. 0 \in 0..l
      BY <1>0
    <3>. QED BY <3>1, <3>2, Zenon
  <2>4. After(s, call.text, i).x \in Nat
    <3>1. /\ call.text \in Seq(STRING) /\ Len(call.text) \in Nat /\ i \in 0..Len(call.text)
      BY <1>0, <1>2, BufferAssumption DEF PrintInv, WithinText, AllTexts
    <3>2. After(s, call.text, i) \in Screens
      BY <3>1, AfterIsScreen
    <3>. QED BY <3>2, Parts DEF Screens
  <2>5. FormatRoom(s, F, d)'
    <3>1. Width' = Width
      BY <1>1 DEF Width
    <3>2. CASE i > l
      <4>1. l \in 0..i-1 /\ Guides(F, b, 0, l)
        BY <1>0, <2>3, <3>2
      <4>. QED BY <1>1, <2>1, <2>2, <2>3, <3>1, <4>1 DEF FormatRoom
    <3>3. CASE ~(i > l)
      <4>1. Guides(F, b, 0, i)
        BY <1>0, <2>3, <3>3
      <4>. PICK column : column = After(s, call.text, i).x
        OBVIOUS
      <4>2. F[i] <= column + d
        BY <2>2, <2>4
      <4>3. d <= l - 2 /\ (d = 0 \/ d < i)
        BY <2>2
      <4>. QED BY <1>1, <2>1, <2>2, <3>1, <4>1, <4>2, <4>3 DEF FormatRoom
    <3>. QED BY <3>2, <3>3
  <2>. QED BY <2>2, <2>5
<1>3. call.pc = "test" => RoomAhead(b, i, 0)
  <2>. SUFFICES ASSUME call.pc = "test" PROVE RoomAhead(b, i, 0)
    OBVIOUS
  <2>1. RoomAhead(buf, i, screen.x)
    BY <1>1 DEF ColumnInv
  <2>2. CASE i = 0
    BY <2>2, RoomAtStart
  <2>3. CASE i # 0
    <3>1. RoomAhead(b, i, screen.x)
      BY <1>0, <1>1, <2>1, <2>3, RoomKept
    <3>. QED BY <1>0, <1>1, <3>1, RoomForLess
  <2>. QED BY <2>2, <2>3
<1>4. ASSUME call.pc \in InPutchar PROVE RoomAhead(b, i + 1, Coming')
  <2>1. RoomAhead(buf, i + 1, Coming) /\ Coming \in Nat /\ i + 1 \in 1..BUF
    BY <1>0, <1>1, <1>4, ComingType DEF ColumnInv
  <2>2. CASE call.pc = "fetch"
    <3>1. Coming = Col(buf[i], screen.x) /\ Coming' = Col(b[i], 0)
      BY <1>1, <2>2 DEF Coming
    <3>. QED BY <1>0, <1>1, <2>1, <3>1, RoomAtFetch
  <2>3. CASE call.pc # "fetch"
    <3>1. Coming' \in 0..Coming
      BY <1>1, <2>1, <2>3 DEF Coming
    <3>2. RoomAhead(b, i + 1, Coming)
      BY <2>1, RoomKept
    <3>. QED BY <1>0, <2>1, <3>1, <3>2, RoomForLess
  <2>. QED BY <2>2, <2>3
<1>. QED BY <1>1, <1>2, <1>3, <1>4 DEF ColumnInv

LEMMA ColumnInit == Init => ColumnInv
BY DEF Init, ColumnInv

LEMMA ColumnCall ==
  ASSUME NEW text \in Texts \cup BootTexts, PrintInv, ScreenInv, ColumnInv, Call(text)
  PROVE  ColumnInv'
<1>1. /\ screen' = screen /\ buf' = buf /\ tasking' = tasking /\ Fits(text) /\ call.pc = "idle"
      /\ call'.pc = "format" /\ call'.text = text /\ call'.i = 0 /\ ~disturbed'
  BY DEF Call, Idle, memory, At
<1>2. screen \in Screens
  BY <1>1 DEF ScreenInv, Screens
<1>3. screen.x \in Nat /\ BUF \in Nat /\ text \in Seq(STRING) /\ Len(text) \in Nat
  BY <1>2, Parts, TextIs, BufferAssumption DEF Screens
<1>. PICK F : F = [j \in 0..BUF |-> screen.x]
  OBVIOUS
<1>4. F \in [0..BUF -> Nat] /\ F[0] = screen.x
  BY <1>3
<1>5. FormatRoom(screen, F, 0)'
  <2>1. (\A n \in 1..Len(call.text) : After(screen, call.text, n).x <= Width)'
    BY <1>1 DEF Fits, After, Width
  <2>2. After(screen, text, 0) = screen
    BY <1>3, PutsPrefix
  <2>3. Guides(F, buf, 0, 0)
    BY <1>4 DEF Guides
  <2>4. 0 <= Len(Message) - 2 /\ F[0] <= screen.x + 0 /\ screen.x <= F[0]
    BY <1>3, <1>4, MessageNumbers
  <2>. QED BY <1>1, <2>1, <2>2, <2>3, <2>4 DEF FormatRoom
<1>6. (\E s \in Screens : \E G \in [0..BUF -> Nat] : \E d \in Nat : FormatRoom(s, G, d))'
  BY <1>1, <1>2, <1>4, <1>5
<1>. QED BY <1>1, <1>6 DEF ColumnInv, Formatting, InPutchar

LEMMA NextColumn ==
  ASSUME NEW s \in Screens, NEW txt \in Seq(STRING), NEW i \in Nat, i + 1 \in 1..Len(txt),
         txt[i + 1] \notin {"HT", "BS"}
  PROVE  /\ After(s, txt, i) \in Screens /\ After(s, txt, i).x \in Nat
         /\ After(s, txt, i + 1).x = Col(txt[i + 1], After(s, txt, i).x)
         /\ After(s, txt, i + 1).x \in Nat
<1>. PICK k, q : k = i + 1 /\ q = After(s, txt, i)
  OBVIOUS
<1>0. k \in 1..Len(txt) /\ k - 1 = i /\ i \in 0..Len(txt)
  OBVIOUS
<1>1. q \in Screens /\ q.x \in Nat
  BY <1>0, AfterIsScreen, Parts DEF Screens
<1>2. After(s, txt, k) = console_putchar(After(s, txt, k - 1), txt[k])
  <2>. DEFINE f(n) == After(s, txt, n)
  <2>1. \A n \in 1..Len(txt) : f(n) = console_putchar(f(n - 1), txt[n])
    BY PutsPrefix
  <2>. HIDE DEF f
  <2>2. f(k) = console_putchar(f(k - 1), txt[k])
    BY <1>0, <2>1
  <2>. QED BY <2>2 DEF f
<1>3. console_putchar(q, txt[k]).x = Col(txt[k], q.x) /\ Col(txt[k], q.x) \in Nat
  BY <1>1, ColumnAfter
<1>. QED BY <1>0, <1>1, <1>2, <1>3

(* Writing a character of the text into the buffer.                        *)
LEMMA RoomForCharacter ==
  ASSUME NEW s \in Screens, NEW F \in [0..BUF -> Nat], NEW d \in Nat, FormatRoom(s, F, d),
         PrintInv, ScreenInv, tasking, call.pc = "format", call.i < Len(call.text),
         UNCHANGED <<screen, tasking>>,
         call' = [call EXCEPT !.i = call.i + 1],
         buf' = [buf EXCEPT ![call.i] = call.text[call.i + 1]]
  PROVE  \E G \in [0..BUF -> Nat] : FormatRoom(s, G, d)'
<1>. PICK i, t, b, c : i = call.i /\ t = call.text /\ b = buf' /\ c = call.text[call.i + 1]
  OBVIOUS
<1>0. /\ DOMAIN call = {"pc", "text", "i", "c", "k", "reg"} /\ DOMAIN buf = 0..BUF-1
      /\ i \in 0..BUF-1 /\ BUF \in Nat /\ t \in Texts
  BY BufferAssumption DEF PrintInv, TypeOK, ScreenInv, NoBackspace, Formatting
<1>1. t \in Seq(STRING) /\ Len(t) \in Nat /\ i \in 0..Len(t) /\ i + 1 \in 1..Len(t)
  BY <1>0, TextIs
<1>2. call'.i = i + 1 /\ call'.text = t /\ Width' = Width
  BY <1>0 DEF Width
<1>3. b[i] = c /\ \A j \in 0..i-1 : b[j] = buf[j]
  BY <1>0
<1>4. /\ \A n \in 1..Len(t) : After(s, t, n).x <= Width
      /\ screen.x <= F[0]
  BY DEF FormatRoom
<1>5. CASE \E e \in 0..i-1 : buf[e] = "NUL" /\ Guides(F, buf, 0, e)
  <2>. PICK e \in 0..i-1 : buf[e] = "NUL" /\ Guides(F, buf, 0, e)
    BY <1>5
  <2>1. b[e] = "NUL" /\ Guides(F, b, 0, e)
    BY <1>0, <1>3 DEF Guides
  <2>2. e \in 0..call'.i-1
    BY <1>0, <1>2
  <2>3. FormatRoom(s, F, d)'
    BY <1>2, <1>4, <2>1, <2>2 DEF FormatRoom
  <2>. QED BY <2>3
<1>6. CASE ~\E e \in 0..i-1 : buf[e] = "NUL" /\ Guides(F, buf, 0, e)
  <2>. PICK v, w : v = After(s, t, i).x /\ w = After(s, t, i + 1).x
    OBVIOUS
  <2>1. Guides(F, buf, 0, i) /\ F[i] <= v + d /\ d <= Len(Message) - 2 /\ (d = 0 \/ d < i)
    BY <1>6 DEF FormatRoom
  <2>2. w = Col(c, v) /\ v \in Nat /\ w \in Nat
    <3>1. t[i + 1] \notin {"HT", "BS"}
      BY <1>0, <1>1, TextAssumption
    <3>. QED BY <1>1, <3>1, NextColumn
  <2>3. w <= Width /\ Width = COLS - (Len(Message) - 2)
    BY <1>1, <1>4 DEF Width
  <2>. PICK G : G = [F EXCEPT ![i + 1] = w + d]
    OBVIOUS
  <2>4. /\ G \in [0..BUF -> Nat] /\ G[i + 1] = w + d /\ F[i] \in Nat
        /\ \A j \in 0..i : G[j] = F[j]
    BY <1>0, <2>2
  <2>5. w + d <= Room(i + 1)
    <3>. PICK l : l = Len(Message)
      OBVIOUS
    <3>1. COLS \in Nat /\ l \in 2..BUF-1
      BY MessageNumbers
    <3>2. w <= COLS - (l - 2) /\ d <= l - 2 /\ (d = 0 \/ d < i) /\ w \in Nat
      BY <2>1, <2>2, <2>3
    <3>3. w + d <= COLS
      BY <1>0, <3>1, <3>2
    <3>4. w + d <= COLS - (l - 2) + ((i + 1) - 1)
      BY <1>0, <3>1, <3>2
    <3>. QED BY <3>3, <3>4 DEF Room
  <2>6. Col(c, F[i]) <= w + d
    <3>1. \/ Col(c, F[i]) = F[i] + 1 /\ w = v + 1
          \/ Col(c, F[i]) = 0
          \/ Col(c, F[i]) = F[i] /\ w = v
      BY <2>2 DEF Col
    <3>. QED BY <2>1, <2>2, <2>4, <3>1, SMTT(30)
  <2>7. Guides(G, b, 0, i + 1)
    <3>1. ASSUME NEW j \in 0..i PROVE Col(b[j], G[j]) <= G[j + 1]
      <4>1. CASE j = i
        BY <1>3, <2>4, <2>6, <4>1
      <4>2. CASE j # i
        <5>1. j \in 0..i-1 /\ j + 1 \in 0..i
          BY <1>0, <4>2
        <5>. QED BY <1>3, <2>1, <2>4, <5>1 DEF Guides
      <4>. QED BY <4>1, <4>2
    <3>2. ASSUME NEW j \in 0..i+1, j >= 1 PROVE G[j] <= Room(j)
      <4>1. CASE j = i + 1
        BY <2>4, <2>5, <4>1
      <4>2. CASE j # i + 1
        <5>1. j \in 0..i
          BY <1>0, <4>2
        <5>. QED BY <2>1, <2>4, <3>2, <5>1 DEF Guides
      <4>. QED BY <4>1, <4>2
    <3>3. (i + 1) - 1 = i
      BY <1>0
    <3>. QED BY <2>4, <3>1, <3>2, <3>3 DEF Guides
  <2>8. screen.x <= G[0]
    BY <1>0, <1>4, <2>4
  <2>9. G[i + 1] <= w + d /\ (d = 0 \/ d < i + 1)
    BY <1>0, <2>1, <2>2, <2>4
  <2>10. FormatRoom(s, G, d)'
    BY <1>2, <1>4, <2>1, <2>7, <2>8, <2>9 DEF FormatRoom
  <2>. QED BY <2>4, <2>10
<1>. QED BY <1>5, <1>6

(* The terminator.                                                         *)
LEMMA RoomTerminated ==
  ASSUME NEW s \in Screens, NEW F \in [0..BUF -> Nat], NEW d \in Nat, FormatRoom(s, F, d),
         PrintInv, buf' = [buf EXCEPT ![call.i] = "NUL"]
  PROVE  /\ UNCHANGED <<screen, tasking>> /\ call'.i = call.i /\ call'.text = call.text
              => FormatRoom(s, F, d)'
         /\ RoomAhead(buf', 0, screen.x)
<1>. PICK i, b : i = call.i /\ b = buf'
  OBVIOUS
<1>0. DOMAIN buf = 0..BUF-1 /\ i \in 0..BUF-1 /\ BUF \in Nat
  BY BufferAssumption DEF PrintInv, TypeOK
<1>1. b[i] = "NUL" /\ \A j \in 0..i-1 : b[j] = buf[j]
  BY <1>0
<1>2. ASSUME NEW e \in 0..i, Guides(F, buf, 0, e) PROVE Guides(F, b, 0, e)
  BY <1>0, <1>1, <1>2, SMTT(30) DEF Guides
<1>3. screen.x <= F[0]
  BY DEF FormatRoom
<1>4. CASE \E e \in 0..i-1 : buf[e] = "NUL" /\ Guides(F, buf, 0, e)
  <2>. PICK e \in 0..i-1 : buf[e] = "NUL" /\ Guides(F, buf, 0, e)
    BY <1>4
  <2>1. e \in 0..i /\ e \in 0 .. BUF-1 /\ b[e] = buf[e]
    BY <1>0, <1>1
  <2>2. b[e] = "NUL" /\ Guides(F, b, 0, e)
    BY <1>2, <2>1
  <2>3. RoomAhead(b, 0, screen.x)
    BY <1>3, <2>1, <2>2 DEF RoomAhead
  <2>4. ASSUME UNCHANGED <<screen, tasking>>, call'.i = i, call'.text = call.text
        PROVE  FormatRoom(s, F, d)'
    BY <1>3, <2>2, <2>4 DEF FormatRoom, Width
  <2>. QED BY <2>3, <2>4
<1>5. CASE ~\E e \in 0..i-1 : buf[e] = "NUL" /\ Guides(F, buf, 0, e)
  <2>1. Guides(F, buf, 0, i)
    BY <1>5 DEF FormatRoom
  <2>2. i \in 0..i /\ i \in 0 .. BUF-1
    BY <1>0
  <2>3. b[i] = "NUL" /\ Guides(F, b, 0, i)
    BY <1>1, <1>2, <2>1, <2>2
  <2>4. RoomAhead(b, 0, screen.x)
    BY <1>3, <2>2, <2>3 DEF RoomAhead
  <2>5. ASSUME UNCHANGED <<screen, tasking>>, call'.i = i, call'.text = call.text
        PROVE  FormatRoom(s, F, d)'
    <3>1. F[i] <= After(s, call.text, i).x + d /\ d <= Len(Message) - 2 /\ (d = 0 \/ d < i)
      BY <1>5 DEF FormatRoom
    <3>. QED BY <1>3, <2>3, <2>5, <3>1 DEF FormatRoom, Width
  <2>. QED BY <2>4, <2>5
<1>. QED BY <1>4, <1>5

LEMMA ColumnFormat == PrintInv /\ ScreenInv /\ ColumnInv /\ (vsprintf \/ Terminate)
                        /\ UNCHANGED <<tasking, disturbed>> => ColumnInv'
<1>. SUFFICES ASSUME PrintInv, ScreenInv, ColumnInv, vsprintf \/ Terminate,
                     UNCHANGED <<tasking, disturbed>>
              PROVE  ColumnInv'
  OBVIOUS
<1>1. DOMAIN call = {"pc", "text", "i", "c", "k", "reg"}
  BY DEF PrintInv
<1>2. screen' = screen /\ call.pc \in Formatting
  BY DEF vsprintf, Terminate, At, Formatting
<1>3. CASE ~tasking
  BY <1>3 DEF ColumnInv
<1>4. CASE tasking
  <2>. PICK s \in Screens, F \in [0..BUF -> Nat], d \in Nat : FormatRoom(s, F, d)
    BY <1>2, <1>4 DEF ColumnInv
  <2>1. CASE vsprintf /\ call.i < Len(call.text)
    <3>1. /\ call.pc = "format" /\ call' = [call EXCEPT !.i = call.i + 1] /\ call'.pc = "format"
          /\ buf' = [buf EXCEPT ![call.i] = call.text[call.i + 1]]
      BY <1>1, <2>1 DEF vsprintf, At
    <3>2. PICK G \in [0..BUF -> Nat] : FormatRoom(s, G, d)'
      BY <1>2, <1>4, <2>1, <3>1, RoomForCharacter
    <3>3. (\E q \in Screens : \E H \in [0..BUF -> Nat] : \E e \in Nat : FormatRoom(q, H, e))'
      BY <3>2
    <3>. QED BY <1>4, <3>1, <3>3 DEF ColumnInv, InPutchar
  <2>2. CASE vsprintf /\ ~(call.i < Len(call.text))
    <3>1. /\ call'.i = call.i /\ call'.text = call.text /\ call'.pc = "terminate"
          /\ buf' = [buf EXCEPT ![call.i] = "NUL"]
      BY <1>1, <2>2 DEF vsprintf, Goto
    <3>2. FormatRoom(s, F, d)'
      BY <1>2, <3>1, RoomTerminated
    <3>3. (\E q \in Screens : \E H \in [0..BUF -> Nat] : \E e \in Nat : FormatRoom(q, H, e))'
      BY <3>2
    <3>. QED BY <1>4, <3>1, <3>3 DEF ColumnInv, InPutchar
  <2>3. CASE Terminate
    <3>1. call'.pc = "test" /\ call'.i = 0 /\ buf' = [buf EXCEPT ![call.i] = "NUL"]
      BY <1>1, <2>3 DEF Terminate
    <3>2. RoomAhead(buf', 0, screen.x)
      BY <3>1, RoomTerminated
    <3>. QED BY <1>2, <1>4, <3>1, <3>2 DEF ColumnInv, Formatting, InPutchar
  <2>. QED BY <2>1, <2>2, <2>3
<1>. QED BY <1>3, <1>4

(* Reading the buffer.                                                     *)
LEMMA ColumnPuts == PrintInv /\ ScreenInv /\ ColumnInv /\ (Test \/ Fetch \/ WriteLow)
                      /\ UNCHANGED <<tasking, disturbed>> => ColumnInv'
<1>. SUFFICES ASSUME PrintInv, ScreenInv, ColumnInv, Test \/ Fetch \/ WriteLow,
                     UNCHANGED <<tasking, disturbed>>, tasking
              PROVE  ColumnInv'
  BY DEF ColumnInv
<1>. PICK i : i = call.i
  OBVIOUS
<1>1. /\ DOMAIN call = {"pc", "text", "i", "c", "k", "reg"}
      /\ i \in 0..BUF-1 /\ BUF \in Nat /\ screen.x \in Nat
  BY Parts, BufferAssumption DEF PrintInv, TypeOK, ScreenInv
<1>2. CASE Test
  <2>1. /\ screen' = screen /\ buf' = buf /\ call.pc = "test"
        /\ IF buf[i] = "NUL" THEN call' = Idle ELSE call' = [call EXCEPT !.pc = "fetch"]
    BY <1>2 DEF Test, At, Goto, memory
  <2>2. CASE buf[i] = "NUL"
    <3>1. call'.pc = "idle"
      BY <2>1, <2>2 DEF Idle
    <3>. QED BY <3>1 DEF ColumnInv, Formatting, InPutchar
  <2>3. CASE buf[i] # "NUL"
    <3>1. call'.pc = "fetch" /\ call'.i = i
      BY <1>1, <2>1, <2>3
    <3>2. RoomAhead(buf, i, screen.x)
      BY <2>1 DEF ColumnInv
    <3>3. RoomAhead(buf, i + 1, Col(buf[i], screen.x))
      BY <1>1, <2>3, <3>2, RoomRead
    <3>4. Coming' = Col(buf[i], screen.x)
      BY <2>1, <3>1 DEF Coming
    <3>. QED BY <2>1, <3>1, <3>3, <3>4 DEF ColumnInv, Formatting
  <2>. QED BY <2>2, <2>3
<1>3. CASE Fetch
  <2>. PICK c : c = buf[i]
    OBVIOUS
  <2>1. /\ screen' = screen /\ buf' = buf /\ call.pc = "fetch" /\ call'.i = i
        /\ call'.pc = CASE c \in Printable -> "row"
                        [] c = "HT" \/ (c = "BS" /\ screen.x > 0) -> "read_x"
                        [] c = "CR" -> "return"
                        [] c = "LF" -> "read_y"
                        [] OTHER -> "scroll"
    BY <1>1, <1>3 DEF Fetch, At, memory
  <2>2. c \notin {"HT", "BS"}
    <3>1. PICK j \in i + 1 .. BUF-1 : buf[j] = "NUL" /\ Clean(buf, j)
      BY <2>1 DEF ScreenInv, NoBackspace, InPutchar, CleanText
    <3>2. i \in 0..j-1
      BY <1>1
    <3>. QED BY <3>1, <3>2, CharactersAre DEF Clean
  <2>3. Coming = Col(c, screen.x) /\ RoomAhead(buf, i + 1, Coming)
    BY <2>1 DEF ColumnInv, Coming, InPutchar
  <2>4. \/ call'.pc = "row" /\ c \in Printable
        \/ call'.pc \in {"return", "read_y"} /\ c \notin Printable /\ c \in {"LF", "CR"}
        \/ call'.pc = "scroll" /\ c \notin Printable \cup {"LF", "CR"}
    BY <2>1, <2>2, Controls
  <2>5. Coming' = Coming
    BY <2>1, <2>3, <2>4 DEF Coming, Col
  <2>6. call'.pc \in {"row", "return", "read_y", "scroll"}
    BY <2>4
  <2>. QED BY <2>1, <2>3, <2>5, <2>6 DEF ColumnInv, Formatting
<1>4. CASE WriteLow
  <2>1. /\ screen' = screen /\ buf' = buf /\ call.pc = "write_low"
        /\ call'.pc = "test" /\ call'.i = i + 1
    BY <1>1, <1>4 DEF WriteLow, At
  <2>2. Coming = screen.x /\ RoomAhead(buf, i + 1, Coming)
    BY <2>1 DEF ColumnInv, Coming, InPutchar
  <2>. QED BY <2>1, <2>2 DEF ColumnInv, Formatting, InPutchar
<1>. QED BY <1>2, <1>3, <1>4

(* There is a cell for a character at a column with room after it.         *)
LEMMA RoomForCell ==
  ASSUME NEW i \in 0..BUF-1, NEW v \in Nat, RoomAhead(buf, i + 1, v)
  PROVE  v <= COLS
<1>0. BUF \in Nat /\ COLS \in Nat
  BY MessageNumbers
<1>. PICK F, e : e \in i + 1 .. BUF-1 /\ Guides(F, buf, i + 1, e) /\ v <= F[i + 1]
  BY DEF RoomAhead
<1>1. F[i + 1] \in Nat /\ F[i + 1] <= Room(i + 1)
  BY <1>0 DEF Guides
<1>2. Room(i + 1) \in Nat /\ Room(i + 1) <= COLS
  BY <1>0, RoomIs
<1>. QED BY <1>0, <1>1, <1>2

(* Inside console_putchar the column to come stays the same.               *)
LEMMA ColumnPutchar ==
  PrintInv /\ ScreenInv /\ ColumnInv /\ Step /\ call.pc \in InPutchar \ {"fetch", "write_low"}
    => ColumnInv'
<1>. SUFFICES ASSUME PrintInv, ScreenInv, ColumnInv, Step, tasking,
                     call.pc \in InPutchar \ {"fetch", "write_low"}
              PROVE  ColumnInv'
  BY DEF Step, ColumnInv, history
<1>0. /\ tasking' = tasking
      /\ \/ Row \/ Locate \/ Store \/ ReadX \/ WriteX \/ ReadY \/ WriteY \/ CarriageReturn
         \/ ScrollTest \/ Scroll \/ CursorRow \/ CursorX \/ SelectHigh \/ WriteHigh \/ SelectLow
  BY DEF Step, At, vsprintf, Terminate, Test, Fetch, WriteLow, InPutchar
<1>. PICK i : i = call.i
  OBVIOUS
<1>1. /\ DOMAIN call = {"pc", "text", "i", "c", "k", "reg"} /\ i \in 0..BUF-1 /\ BUF \in Nat
      /\ screen = [mem |-> screen.mem, x |-> screen.x, y |-> screen.y]
      /\ screen.x \in Nat /\ screen.y \in 0..ROWS /\ ROWS \in Nat \ {0} /\ COLS \in Nat
  BY Parts, ScreenAssumption, BufferAssumption DEF PrintInv, TypeOK, ScreenInv
<1>2. RoomAhead(buf, i + 1, Coming)
  BY DEF ColumnInv
<1>3. ASSUME buf' = buf, call'.i = i, call'.pc \in InPutchar \ {"locate", "store"}, Coming' = Coming
      PROVE  ColumnInv'
  BY <1>0, <1>2, <1>3 DEF ColumnInv, Formatting, InPutchar
<1>4. CASE Row
  <2>1. /\ screen' = screen /\ buf' = buf /\ call.pc = "row" /\ call'.pc = "locate"
        /\ call'.i = i /\ call'.reg = screen.y * COLS
    BY <1>1, <1>4 DEF Row, At, Load, memory
  <2>2. screen.y \in 0..ROWS-1
    BY <1>1, <2>1 DEF ScreenInv
  <2>3. \E r \in 0..ROWS-1 : call'.reg = r * COLS
    BY <2>1, <2>2
  <2>4. Coming' = Coming
    BY <2>1 DEF Coming
  <2>. QED BY <1>0, <1>2, <2>1, <2>3, <2>4 DEF ColumnInv, Formatting
<1>5. CASE Locate
  <2>1. /\ screen' = screen /\ buf' = buf /\ call.pc = "locate" /\ call'.pc = "store"
        /\ call'.i = i /\ call'.reg = call.reg + screen.x
    BY <1>1, <1>5 DEF Locate, At, Load, memory
  <2>2. Coming = screen.x + 1 /\ Coming' = Coming
    BY <2>1 DEF Coming
  <2>3. screen.x \in 0..COLS-1
    <3>1. screen.x + 1 <= COLS
      BY <1>1, <1>2, <2>2, RoomForCell
    <3>. QED BY <1>1, <3>1
  <2>4. PICK r \in 0..ROWS-1 : call.reg = r * COLS
    BY <2>1 DEF ColumnInv
  <2>5. call'.reg \in Cells
    BY <2>1, <2>3, <2>4, CellAt
  <2>. QED BY <1>0, <1>2, <2>1, <2>2, <2>5 DEF ColumnInv, Formatting
<1>6. CASE Store \/ WriteY \/ Scroll
  <2>1. /\ buf' = buf /\ call'.i = i /\ screen'.x = screen.x
        /\ \/ call.pc = "store" /\ call'.pc = "read_x"
           \/ call.pc = "write_y" /\ call'.pc = "return"
           \/ call.pc = "copy" /\ call'.pc \in {"copy", "cursor_row"}
    BY <1>1, <1>6 DEF Store, WriteY, Scroll, At, Goto
  <2>2. Coming' = Coming
    BY <2>1 DEF Coming
  <2>. QED BY <1>3, <2>1, <2>2 DEF InPutchar
<1>7. CASE ReadX
  <2>1. /\ screen' = screen /\ buf' = buf /\ call.pc = "read_x" /\ call'.pc = "write_x"
        /\ call'.i = i /\ call'.reg = screen.x
    BY <1>1, <1>7 DEF ReadX, At, Load, memory
  <2>2. Coming' = Coming
    BY <2>1 DEF Coming
  <2>. QED BY <1>3, <2>1, <2>2 DEF InPutchar
<1>8. CASE WriteX
  <2>1. /\ buf' = buf /\ call.pc = "write_x" /\ call'.pc = "scroll" /\ call'.i = i
        /\ screen'.x = Column(call.c, call.reg)
    BY <1>1, <1>8 DEF WriteX, At, Goto
  <2>2. call.c \in Printable
    BY <2>1 DEF ScreenInv, NoBackspace
  <2>3. Column(call.c, call.reg) = call.reg + 1
    BY <2>2, Controls DEF Column
  <2>4. Coming' = Coming
    BY <2>1, <2>3 DEF Coming
  <2>. QED BY <1>3, <2>1, <2>4 DEF InPutchar
<1>9. CASE CarriageReturn
  <2>1. /\ buf' = buf /\ call.pc = "return" /\ call'.pc = "scroll" /\ call'.i = i
        /\ screen'.x = 0
    BY <1>1, <1>9 DEF CarriageReturn, At, Goto
  <2>2. Coming' = Coming
    BY <2>1 DEF Coming
  <2>. QED BY <1>3, <2>1, <2>2 DEF InPutchar
<1>10. CASE ReadY \/ ScrollTest \/ CursorRow \/ CursorX \/ SelectHigh \/ WriteHigh \/ SelectLow
  <2>1. /\ buf' = buf /\ call'.i = i /\ screen' = screen
        /\ \/ call.pc = "read_y" /\ call'.pc = "write_y"
           \/ call.pc = "scroll" /\ call'.pc \in {"copy", "cursor_row"}
           \/ call.pc = "cursor_row" /\ call'.pc = "cursor_x"
           \/ call.pc = "cursor_x" /\ call'.pc = "select_high"
           \/ call.pc = "select_high" /\ call'.pc = "write_high"
           \/ call.pc = "write_high" /\ call'.pc = "select_low"
           \/ call.pc = "select_low" /\ call'.pc = "write_low"
    BY <1>1, <1>10 DEF ReadY, ScrollTest, CursorRow, CursorX, SelectHigh, SelectLow, Select,
       WriteHigh, At, Goto, Load, memory
  <2>2. Coming' = Coming
    BY <2>1 DEF Coming
  <2>. QED BY <1>3, <2>1, <2>2 DEF InPutchar
<1>. QED BY <1>0, <1>4, <1>5, <1>6, <1>7, <1>8, <1>9, <1>10

LEMMA ColumnNext == PrintInv /\ ScreenInv /\ ColumnInv /\ [Next]_vars => ColumnInv'
<1>. SUFFICES ASSUME PrintInv, ScreenInv, ColumnInv, [Next]_vars PROVE ColumnInv'
  OBVIOUS
<1>1. CASE InitTasking
  <2>1. call' = call /\ call.pc = "idle" /\ tasking' /\ disturbed' = disturbed
    BY <1>1 DEF InitTasking, At, history
  <2>. QED BY <2>1 DEF ColumnInv, Formatting, InPutchar
<1>2. CASE Step
  <2>1. UNCHANGED <<tasking, disturbed>>
    BY <1>2 DEF Step, history
  <2>2. CASE vsprintf \/ Terminate
    BY <2>1, <2>2, ColumnFormat
  <2>3. CASE Test \/ Fetch \/ WriteLow
    BY <2>1, <2>3, ColumnPuts
  <2>4. CASE ~(vsprintf \/ Terminate \/ Test \/ Fetch \/ WriteLow)
    <3>1. call.pc \in InPutchar \ {"fetch", "write_low"}
      BY <1>2, <2>4 DEF Step, At, Row, Locate, Store, ReadX, WriteX, ReadY, WriteY,
         CarriageReturn, ScrollTest, Scroll, CursorRow, CursorX, SelectHigh, SelectLow, Select,
         WriteHigh, InPutchar
    <3>. QED BY <1>2, <3>1, ColumnPutchar
  <2>. QED BY <2>2, <2>3, <2>4
<1>3. CASE UNCHANGED vars
  BY <1>3 DEF vars, ColumnInv, FormatRoom, Coming, Width
<1>. QED BY <1>1, <1>2, <1>3, ColumnCall, ColumnTimer DEF Next

(* What an undisturbed call stores is on the screen too.                   *)
LEMMA StoreUndisturbed ==
  ASSUME NEW s \in Screens, PrintInv, ScreenInv, Undisturbed(s), call.pc = "store"
  PROVE  call.reg \in Cells
<1>. PICK t, i, q : t = call.text /\ i = call.i /\ q = After(s, t, i)
  OBVIOUS
<1>1. /\ screen = q /\ call.reg = q.y * COLS + q.x /\ i < Len(t) /\ t[i + 1] \in Printable
      /\ i \in Nat /\ \A n \in 1..Len(t) : After(s, t, n).x <= Width
  BY DEF Undisturbed, WritingOut, Putting, Before, Position, InRow, InPutchar, ScreenInv,
     PrintInv, TypeOK
<1>2. t \in Seq(STRING) /\ i + 1 \in 1..Len(t)
  BY <1>1, TextIs DEF Undisturbed
<1>. PICK w : w = After(s, t, i + 1).x
  OBVIOUS
<1>3. q \in Screens /\ q.x \in Nat /\ w = Col(t[i + 1], q.x)
  BY <1>1, <1>2, NextColumn, Controls
<1>4. w = q.x + 1 /\ w <= Width
  BY <1>1, <1>2, <1>3 DEF Col
<1>5. q.x \in 0..COLS-1
  BY <1>3, <1>4, Widths
<1>6. q.y \in 0..ROWS-1
  BY <1>3, Parts, ScreenAssumption DEF Screens
<1>. QED BY <1>1, <1>5, <1>6, CellAt

(* No character is stored outside the screen, however often the timer      *)
(* moves the cursor and the rows under the call, as long as the kernel's   *)
(* own lines leave room for the message (kernel/console.c).                *)
THEOREM StoredOnScreen == Spec => []StoresOnScreen
<1>1. PrintInv /\ ScreenInv /\ ShowInv /\ ColumnInv => StoresOnScreen
  <2>. SUFFICES ASSUME PrintInv, ScreenInv, ShowInv, ColumnInv, call.pc = "store"
                PROVE  call.reg \in Cells
    BY DEF StoresOnScreen, At
  <2>1. CASE tasking
    BY <2>1 DEF ColumnInv
  <2>2. CASE ~tasking
    <3>1. PICK s \in Screens : Undisturbed(s)
      BY <2>2 DEF ColumnInv, ShowInv
    <3>. QED BY <3>1, StoreUndisturbed
  <2>. QED BY <2>1, <2>2
<1>. QED BY PrintInit, PrintNext, ScreenInit, ScreenNext, ShowInit, ShowNext, ColumnInit,
        ColumnNext, <1>1, PTL DEF Spec

=============================================================================
