---------------------- MODULE MC68008Exceptions_proofs ----------------------
(***************************************************************************)
(* Proofs about the exceptions of the processor, for any number of         *)
(* addresses, any levels and masks and stacks of any depth.                *)
(***************************************************************************)
EXTENDS MC68008Exceptions, FiniteSetTheorems, SequenceTheorems, TLAPS

USE ExceptionAssumption

----------------------------------------------------------------------------
(* The frames on a stack.                                                  *)

LEMMA FrameCellsFinite ==
    ASSUME NEW c
    PROVE  /\ FrameCells(c) \subseteq Cells
           /\ IsFiniteSet(FrameCells(c)) /\ Cardinality(FrameCells(c)) \in Nat
           /\ \A cell \in FrameCells(c) : IsFiniteSet(OnTop(c, cell))
                                          /\ Cardinality(OnTop(c, cell)) \in Nat
<1>1. FrameCells(c) \subseteq Cells
  BY DEF FrameCells
<1>2. IsFiniteSet(Cells)
  BY FS_Interval DEF Cells
<1>3. IsFiniteSet(FrameCells(c))
  BY <1>1, <1>2, FS_Subset
<1>4. \A cell \in FrameCells(c) : IsFiniteSet(OnTop(c, cell))
  BY <1>3, FS_Subset DEF OnTop
<1> QED BY <1>1, <1>3, <1>4, FS_CardinalityType

\* A pointer that moves over data alone changes no frame.
LEMMA SameFrames ==
    ASSUME NEW c, NEW d, FrameCells(d) = FrameCells(c), d.memory = c.memory
    PROVE  Frames(d) = Frames(c)
<1>1. \A cell : OnTop(d, cell) = OnTop(c, cell)
  BY DEF OnTop
<1>2. \A n : FramesUnder(d, n) = FramesUnder(c, n)
  BY <1>1 DEF FramesUnder
<1> QED BY <1>2 DEF Frames

\* The stack of upper holds one frame more than that of lower, on top of the others.
HoldsOneMore(lower, upper, cell) ==
    /\ FrameCells(upper) = FrameCells(lower) \cup {cell}
    /\ \A other \in FrameCells(lower) :
           cell < other /\ upper.memory[other] = lower.memory[other]

\* It is the first frame, and the others follow.
LEMMA OneMoreFrame ==
    ASSUME NEW lower, NEW upper, NEW cell \in Cells, HoldsOneMore(lower, upper, cell)
    PROVE  /\ Frames(upper) # <<>>
           /\ Head(Frames(upper)) = upper.memory[cell]
           /\ Tail(Frames(upper)) = Frames(lower)
<1> USE DEF HoldsOneMore
<1> DEFINE n == Cardinality(FrameCells(lower))
           Entry(c, k) == CHOOSE frame \in FramesUnder(c, k) : TRUE
<1>1. cell \notin FrameCells(lower)
  <2>1. ~(cell < cell)
    BY DEF Cells
  <2> QED BY <2>1
<1>2. n \in Nat /\ Cardinality(FrameCells(upper)) = n + 1
  BY <1>1, FrameCellsFinite, FS_AddElement
<1>3. OnTop(upper, cell) = {} /\ Cardinality(OnTop(upper, cell)) = 0
  <2>1. \A other \in FrameCells(upper) : ~(other < cell)
    BY FrameCellsFinite DEF Cells
  <2> QED BY <2>1, FS_EmptySet DEF OnTop
<1>4. ASSUME NEW other \in FrameCells(lower)
      PROVE  /\ Cardinality(OnTop(lower, other)) \in Nat
             /\ Cardinality(OnTop(upper, other)) = Cardinality(OnTop(lower, other)) + 1
  <2>1. OnTop(upper, other) = OnTop(lower, other) \cup {cell}
    BY <1>4 DEF OnTop
  <2>2. cell \notin OnTop(lower, other)
    BY <1>1 DEF OnTop
  <2> QED BY <1>4, <2>1, <2>2, FrameCellsFinite, FS_AddElement
<1>5. FramesUnder(upper, 0) = {upper.memory[cell]}
  <2>1. {a \in FrameCells(upper) : Cardinality(OnTop(upper, a)) = 0} = {cell}
    BY <1>3, <1>4
  <2> QED BY <2>1 DEF FramesUnder
<1>6. ASSUME NEW k \in 0 .. n - 1
      PROVE  FramesUnder(upper, k + 1) = FramesUnder(lower, k)
  <2>1. {a \in FrameCells(upper) : Cardinality(OnTop(upper, a)) = k + 1}
          = {a \in FrameCells(lower) : Cardinality(OnTop(lower, a)) = k}
    BY <1>2, <1>3, <1>4
  <2> QED BY <2>1 DEF FramesUnder
<1>7. /\ Frames(upper) = [i \in 1 .. n + 1 |-> Entry(upper, i - 1)]
      /\ Frames(lower) = [i \in 1 .. n |-> Entry(lower, i - 1)]
  BY <1>2 DEF Frames
<1>8. Entry(upper, 0) = upper.memory[cell]
  BY <1>5
<1>9. \A i \in 1 .. n : Entry(upper, (i + 1) - 1) = Entry(lower, i - 1)
  <2> SUFFICES ASSUME NEW i \in 1 .. n PROVE Entry(upper, (i + 1) - 1) = Entry(lower, i - 1)
    OBVIOUS
  <2>1. i - 1 \in 0 .. n - 1 /\ (i + 1) - 1 = (i - 1) + 1
    BY <1>2
  <2>2. FramesUnder(upper, (i + 1) - 1) = FramesUnder(lower, i - 1)
    BY <1>6, <2>1
  <2> QED BY <2>2
<1> HIDE DEF Entry, n
<1> DEFINE items == {Entry(upper, i - 1) : i \in 1 .. n + 1}
           above == Frames(upper)
<1>10. /\ above \in Seq(items) /\ Len(above) = n + 1
       /\ \A i \in 1 .. n + 1 : above[i] = Entry(upper, i - 1)
  <2>1. \A i \in 1 .. n + 1 : above[i] = Entry(upper, i - 1)
    BY <1>7
  <2>2. above \in [1 .. n + 1 -> items]
    BY <1>7
  <2> HIDE DEF items, above
  <2>3. above \in Seq(items) /\ Len(above) = n + 1
    BY <1>2, <2>2
  <2> QED BY <2>1, <2>3
<1>11. above # <<>> /\ Head(above) = above[1]
  BY <1>2, <1>10
<1>12. Head(above) = upper.memory[cell]
  BY <1>2, <1>8, <1>10, <1>11
<1>13. Tail(above) = [i \in 1 .. n |-> above[i + 1]]
  <2> HIDE DEF items, above
  <2>1. /\ Tail(above) \in Seq(items) /\ Len(Tail(above)) = n
        /\ \A i \in 1 .. n : Tail(above)[i] = above[i + 1]
    BY <1>2, <1>10, <1>11, HeadTailProperties
  <2>2. DOMAIN Tail(above) = 1 .. n /\ Tail(above) = [i \in 1 .. n |-> Tail(above)[i]]
    BY <2>1, LenProperties
  <2> QED BY <2>1, <2>2
<1>14. Tail(above) = Frames(lower)
  <2> HIDE DEF items, above
  <2>1. \A i \in 1 .. n : i + 1 \in 1 .. n + 1
    BY <1>2
  <2>2. \A i \in 1 .. n : above[i + 1] = Entry(lower, i - 1)
    BY <1>9, <1>10, <2>1
  <2>3. [i \in 1 .. n |-> above[i + 1]] = [i \in 1 .. n |-> Entry(lower, i - 1)]
    BY <2>2
  <2> QED BY <1>7, <1>13, <2>3
<1> QED BY <1>11, <1>12, <1>14

----------------------------------------------------------------------------
(* The registers.                                                          *)

Contents == Frame \cup {Data}

Registers == [pc : Pcs, sr : Status, a7 : Int, ssp : Int, usp : Int, stopped : BOOLEAN,
              raised : BOOLEAN, memory : [Cells -> Contents]]

\* The supervisor stack ends at its top, below its pointer there is nothing that RTE
\* could take for a frame, and user mode has a pointer of its own.
Sound(c) ==
    /\ c \in Registers
    /\ SupervisorSp(c) <= StackTop
    /\ UserSp(c) \in UserPointers
    /\ \A cell \in Cells : cell < SupervisorSp(c) => c.memory[cell] = Data

LEMMA SoundTypes ==
    ASSUME NEW c, Sound(c)
    PROVE  /\ c.pc \in Pcs /\ c.sr \in Status
           /\ c.a7 \in Int /\ c.ssp \in Int /\ c.usp \in Int
           /\ c.stopped \in BOOLEAN /\ c.raised \in BOOLEAN
           /\ c.memory \in [Cells -> Contents]
           /\ SupervisorSp(c) \in Int
           /\ c.sr.s \in BOOLEAN /\ c.sr.t \in BOOLEAN /\ c.sr.mask \in Masks
BY DEF Sound, Registers, SupervisorSp, Status

LEMMA PointerTypes == UserPointers \subseteq Nat /\ Cells \subseteq Nat /\ Pcs \subseteq Nat
BY DEF UserPointers, Cells, Pcs

LEMMA CodeTypes ==
    /\ Handler \in Pcs /\ ResetPc \in Pcs
    /\ ResetStatus \in Status
    /\ \A sr \in Status : [sr EXCEPT !.s = TRUE] \in Status /\ [sr EXCEPT !.t = FALSE] \in Status
<1>1. Handler \in Pcs /\ ResetPc \in Pcs
  BY DEF Handler, ResetPc, Pcs
<1>2. ResetStatus \in Status
  BY DEF ResetStatus, Status
<1>3. \A sr \in Status : [sr EXCEPT !.s = TRUE] \in Status /\ [sr EXCEPT !.t = FALSE] \in Status
  BY DEF Status
<1> QED BY <1>1, <1>2, <1>3

LEMMA NextPcType ==
    ASSUME NEW c, c.pc \in Pcs
    PROVE  NextPc(c) \in Pcs /\ NextPc(c) # c.pc
BY DEF NextPc, Pcs

\* A frame is no data.
LEMMA FrameType ==
    ASSUME NEW sr \in Status, NEW pc \in Pcs
    PROVE  /\ [sr |-> sr, pc |-> pc] \in Frame
           /\ [sr |-> sr, pc |-> pc] # Data
<1>1. [sr |-> sr, pc |-> pc] \in Frame
  BY DEF Frame
<1>2. DOMAIN [sr |-> sr, pc |-> pc] # DOMAIN Data
  BY DEF Data
<1> QED BY <1>1, <1>2

\* A change of the status switches A7, and nothing else (setStatusRegister()).
LEMMA StatusSwitch ==
    ASSUME NEW c, Sound(c), NEW sr \in Status, NEW d, d = SetStatusRegister(c, sr)
    PROVE  /\ Sound(d)
           /\ d.sr = sr /\ d.pc = c.pc /\ d.memory = c.memory /\ d.raised = c.raised
           /\ SupervisorSp(d) = SupervisorSp(c)
           /\ UserSp(d) = UserSp(c)
<1>1. c \in Registers /\ sr.s \in BOOLEAN /\ c.sr.s \in BOOLEAN
  BY SoundTypes DEF Sound, Status
<1>2. /\ d \in Registers
      /\ d.sr = sr /\ d.pc = c.pc /\ d.memory = c.memory /\ d.raised = c.raised
      /\ SupervisorSp(d) = SupervisorSp(c)
      /\ UserSp(d) = UserSp(c)
  <2>1. CASE c.sr.s = sr.s
    <3>1. d = [c EXCEPT !.sr = sr]
      BY <2>1 DEF SetStatusRegister
    <3> QED BY <1>1, <2>1, <3>1 DEF Registers, SupervisorSp, UserSp
  <2>2. CASE c.sr.s # sr.s /\ c.sr.s
    <3>1. d = [c EXCEPT !.sr = sr, !.ssp = c.a7, !.a7 = c.usp]
      BY <2>2 DEF SetStatusRegister
    <3> QED BY <1>1, <2>2, <3>1 DEF Registers, SupervisorSp, UserSp
  <2>3. CASE c.sr.s # sr.s /\ ~c.sr.s
    <3>1. d = [c EXCEPT !.sr = sr, !.usp = c.a7, !.a7 = c.ssp]
      BY <2>3 DEF SetStatusRegister
    <3> QED BY <1>1, <2>3, <3>1 DEF Registers, SupervisorSp, UserSp
  <2> QED BY <2>1, <2>2, <2>3
<1>3. Sound(d)
  BY <1>2 DEF Sound
<1> QED BY <1>2, <1>3

\* e is in a handler, with the pointer of c moved by a frame.
InHandler(c, e) ==
    /\ e.pc = Handler /\ e.sr.s /\ ~e.sr.t /\ e.sr.mask = c.sr.mask
    /\ e.a7 = SupervisorSp(c) - 1 /\ SupervisorSp(e) = e.a7 /\ UserSp(e) = UserSp(c)

\* The frame is in memory, where the pointer leads.
FramePushed(c, pc, e) ==
    \A cell \in Cells : e.memory[cell] = IF cell = e.a7 THEN [sr |-> c.sr, pc |-> pc]
                                         ELSE c.memory[cell]

\* What an exception makes of the registers (exception()).
LEMMA ExceptionRegisters ==
    ASSUME NEW c, Sound(c), NEW pc \in Pcs, NEW e, e = Exception(c, pc)
    PROVE  /\ e \in Registers
           /\ InHandler(c, e)
           /\ e.raised = TRUE
           /\ FramePushed(c, pc, e)
<1> DEFINE up    == [c.sr EXCEPT !.s = TRUE]
           b     == SetStatusRegister(c, up)
           frame == [sr |-> c.sr, pc |-> pc]
<1>1. up \in Status /\ up.s = TRUE /\ up.mask = c.sr.mask
  BY SoundTypes, CodeTypes DEF Status
<1>2. /\ Sound(b) /\ b.sr = up /\ b.memory = c.memory
      /\ SupervisorSp(b) = SupervisorSp(c) /\ UserSp(b) = UserSp(c)
  BY <1>1, StatusSwitch
<1>3. b.a7 = SupervisorSp(c) /\ b.usp = UserSp(c) /\ b.a7 \in Int
  BY <1>1, <1>2, SoundTypes DEF SupervisorSp, UserSp
<1>4. e = [b EXCEPT !.sr.t = FALSE, !.a7 = b.a7 - 1, !.pc = Handler, !.stopped = FALSE,
                    !.raised = TRUE,
                    !.memory = [cell \in Cells |-> IF cell = b.a7 - 1 THEN frame
                                                   ELSE b.memory[cell]]]
  BY DEF Exception
<1>5. frame \in Frame /\ frame # Data
  BY SoundTypes, FrameType
<1> HIDE DEF b, frame, up
<1>6. b \in Registers /\ b.memory \in [Cells -> Contents] /\ c.memory \in [Cells -> Contents]
  BY <1>2, SoundTypes DEF Sound
<1>7. /\ e.sr = [b.sr EXCEPT !.t = FALSE] /\ e.a7 = b.a7 - 1 /\ e.pc = Handler /\ e.raised = TRUE
      /\ e.stopped = FALSE /\ e.ssp = b.ssp /\ e.usp = b.usp
      /\ e.memory = [cell \in Cells |-> IF cell = b.a7 - 1 THEN frame ELSE b.memory[cell]]
      /\ e \in [pc : {e.pc}, sr : {e.sr}, a7 : {e.a7}, ssp : {e.ssp}, usp : {e.usp},
                stopped : {e.stopped}, raised : {e.raised}, memory : {e.memory}]
  BY <1>4, <1>6 DEF Registers
<1>8. e.sr \in Status /\ e.sr.s = TRUE /\ e.sr.t = FALSE /\ e.sr.mask = c.sr.mask
  BY <1>1, <1>2, <1>7 DEF Status
<1>9. e.memory \in [Cells -> Contents]
  BY <1>5, <1>6, <1>7 DEF Contents
<1>10. \A cell \in Cells : e.memory[cell] = IF cell = e.a7 THEN frame ELSE c.memory[cell]
  BY <1>2, <1>7
<1>11. e.a7 = SupervisorSp(c) - 1 /\ SupervisorSp(e) = e.a7 /\ UserSp(e) = UserSp(c)
  BY <1>3, <1>7, <1>8 DEF SupervisorSp, UserSp
<1>12. e \in Registers
  <2>1. e.a7 \in Int /\ e.ssp \in Int /\ e.usp \in Int
    BY <1>3, <1>6, <1>7 DEF Registers
  <2>2. e.pc \in Pcs /\ e.stopped \in BOOLEAN /\ e.raised \in BOOLEAN
    BY <1>7, CodeTypes
  <2> QED BY <1>7, <1>8, <1>9, <2>1, <2>2, Zenon DEF Registers
<1> QED BY <1>7, <1>8, <1>10, <1>11, <1>12 DEF frame, InHandler, FramePushed

\* An exception pushes one frame.
LEMMA ExceptionPushes ==
    ASSUME NEW c, Sound(c), NEW pc \in Pcs, NEW e, e = Exception(c, pc), e.a7 >= 0
    PROVE  /\ Sound(e)
           /\ Frames(e) # <<>>
           /\ Head(Frames(e)) = [sr |-> c.sr, pc |-> pc]
           /\ Tail(Frames(e)) = Frames(c)
<1> DEFINE frame == [sr |-> c.sr, pc |-> pc]
<1>1. frame # Data
  BY SoundTypes, FrameType
<1>2. /\ e \in Registers
      /\ e.a7 = SupervisorSp(c) - 1 /\ SupervisorSp(e) = e.a7 /\ UserSp(e) = UserSp(c)
      /\ \A cell \in Cells : e.memory[cell] = IF cell = e.a7 THEN frame ELSE c.memory[cell]
  <2>1. e \in Registers /\ InHandler(c, e) /\ FramePushed(c, pc, e)
    BY ExceptionRegisters
  <2> QED BY <2>1 DEF InHandler, FramePushed
<1> HIDE DEF frame
<1>3. SupervisorSp(c) \in Int /\ SupervisorSp(c) <= StackTop /\ e.a7 \in Cells
  BY <1>2, SoundTypes DEF Sound, Cells
<1>4. Sound(e)
  <2>1. SupervisorSp(e) <= StackTop /\ UserSp(e) \in UserPointers
    BY <1>2, <1>3 DEF Sound
  <2>2. ASSUME NEW cell \in Cells, cell < SupervisorSp(e)
        PROVE  e.memory[cell] = Data
    <3>1. cell # e.a7 /\ cell < SupervisorSp(c)
      BY <1>2, <1>3, <2>2 DEF Cells
    <3> QED BY <1>2, <3>1 DEF Sound
  <2> QED BY <1>2, <2>1, <2>2 DEF Sound
<1>5. FrameCells(e) = FrameCells(c) \cup {e.a7}
  <2>1. ASSUME NEW cell \in Cells
        PROVE  cell \in FrameCells(e) <=> cell \in FrameCells(c) \/ cell = e.a7
    <3>1. CASE cell = e.a7
      <4>1. e.memory[cell] # Data /\ cell >= SupervisorSp(e)
        BY <1>1, <1>2, <1>3, <3>1 DEF Cells
      <4> QED BY <3>1, <4>1 DEF FrameCells
    <3>2. CASE cell # e.a7
      <4>1. e.memory[cell] = c.memory[cell]
        BY <1>2, <3>2
      <4>2. cell >= SupervisorSp(e) <=> cell >= SupervisorSp(c)
        BY <1>2, <1>3, <3>2 DEF Cells
      <4> QED BY <3>2, <4>1, <4>2 DEF FrameCells
    <3> QED BY <3>1, <3>2
  <2> QED BY <1>3, <2>1, FrameCellsFinite
<1>6. ASSUME NEW other \in FrameCells(c)
      PROVE  e.a7 < other /\ e.memory[other] = c.memory[other]
  <2>1. other \in Cells /\ other >= SupervisorSp(c)
    BY DEF FrameCells
  <2>2. e.a7 < other
    BY <1>2, <1>3, <2>1 DEF Cells
  <2> QED BY <1>2, <1>3, <2>1, <2>2 DEF Cells
<1>7. HoldsOneMore(c, e, e.a7)
  BY <1>5, <1>6 DEF HoldsOneMore
<1>8. Frames(e) # <<>> /\ Head(Frames(e)) = e.memory[e.a7] /\ Tail(Frames(e)) = Frames(c)
  BY <1>3, <1>7, OneMoreFrame
<1>9. e.memory[e.a7] = frame
  BY <1>2, <1>3
<1> QED BY <1>4, <1>8, <1>9 DEF frame

----------------------------------------------------------------------------
(* Instructions: one goes on, or raises an exception, or returns from one.  *)

Context(c) == [pc |-> c.pc, sr |-> c.sr]

\* User mode keeps its status; a pointer of user mode changes only with the address.
Proceeds(c, d) ==
    /\ Sound(d) /\ ~d.raised
    /\ d.sr \in IF c.sr.s THEN Status ELSE {c.sr}
    /\ Frames(d) = Frames(c)
    /\ UserSp(d) = UserSp(c) \/ d.pc # c.pc

Raises(c, d) == \E pc \in Pcs : d = Exception(c, pc)

Returns(c, d) ==
    /\ c.sr.s
    /\ Sound(d) /\ ~d.raised
    /\ HoldsOneMore(d, c, c.a7)
    /\ c.a7 \in Cells /\ c.memory[c.a7] = Context(d)
    /\ SupervisorSp(d) = c.a7 + 1 /\ UserSp(d) = UserSp(c)
    /\ d.memory = [c.memory EXCEPT ![c.a7] = Data]

LEMMA OrdinaryProceeds ==
    ASSUME NEW c, Sound(c), ~c.raised, NEW d \in Ordinary(c)
    PROVE  Proceeds(c, d)
<1>1. PICK pc \in Pcs : d = [c EXCEPT !.pc = pc]
  BY DEF Ordinary
<1>2. c \in Registers
  BY DEF Sound
<1>3. /\ d \in Registers /\ d.sr = c.sr /\ d.a7 = c.a7 /\ d.ssp = c.ssp /\ d.usp = c.usp
      /\ d.raised = c.raised /\ d.memory = c.memory
  BY <1>1, <1>2 DEF Registers
<1>4. SupervisorSp(d) = SupervisorSp(c) /\ UserSp(d) = UserSp(c) /\ FrameCells(d) = FrameCells(c)
  BY <1>3 DEF SupervisorSp, UserSp, FrameCells
<1>5. Sound(d)
  BY <1>3, <1>4 DEF Sound
<1> QED BY <1>3, <1>4, <1>5, SameFrames, SoundTypes DEF Proceeds

\* A push and a pop of the supervisor's data move its pointer over data.
LEMMA UseStackProceeds ==
    ASSUME NEW c, Sound(c), ~c.raised, NEW d \in UseStack(c)
    PROVE  Proceeds(c, d)
<1>1. c \in Registers /\ c.sr.s \in BOOLEAN /\ c.a7 \in Int /\ NextPc(c) \in Pcs
      /\ NextPc(c) # c.pc
  BY SoundTypes, NextPcType DEF Sound
<1>2. ASSUME NEW p \in Int, d = [c EXCEPT !.a7 = p, !.pc = NextPc(c)]
      PROVE  /\ d \in Registers /\ d.sr = c.sr /\ d.a7 = p /\ d.ssp = c.ssp /\ d.usp = c.usp
             /\ d.raised = c.raised /\ d.memory = c.memory /\ d.pc # c.pc
  BY <1>1, <1>2 DEF Registers
<1>3. CASE ~c.sr.s
  <2>1. PICK p \in {c.a7 - 1, c.a7 + 1} \cap UserPointers :
          d = [c EXCEPT !.a7 = p, !.pc = NextPc(c)]
    BY <1>3 DEF UseStack
  <2>2. p \in Int
    BY PointerTypes
  <2>3. /\ d \in Registers /\ d.sr = c.sr /\ d.a7 = p /\ d.ssp = c.ssp
        /\ d.raised = c.raised /\ d.memory = c.memory /\ d.pc # c.pc
    BY <1>2, <2>1, <2>2
  <2>4. SupervisorSp(d) = SupervisorSp(c) /\ UserSp(d) \in UserPointers
        /\ FrameCells(d) = FrameCells(c)
    BY <1>3, <2>3 DEF SupervisorSp, UserSp, FrameCells
  <2>5. Sound(d)
    BY <2>3, <2>4 DEF Sound
  <2> QED BY <2>3, <2>4, <2>5, SameFrames, SoundTypes DEF Proceeds
<1>4. CASE c.sr.s
  <2>1. \/ d = [c EXCEPT !.a7 = c.a7 - 1, !.pc = NextPc(c)]
        \/ /\ d = [c EXCEPT !.a7 = c.a7 + 1, !.pc = NextPc(c)]
           /\ c.a7 \in Cells /\ c.memory[c.a7] = Data
    BY <1>4 DEF UseStack
  <2>2. PICK p \in {c.a7 - 1, c.a7 + 1} :
          /\ d = [c EXCEPT !.a7 = p, !.pc = NextPc(c)]
          /\ p = c.a7 + 1 => c.a7 \in Cells /\ c.memory[c.a7] = Data
    <3>1. c.a7 - 1 # c.a7 + 1
      BY <1>1
    <3> QED BY <2>1, <3>1
  <2>3. /\ d \in Registers /\ d.sr = c.sr /\ d.a7 = p /\ d.usp = c.usp
        /\ d.raised = c.raised /\ d.memory = c.memory /\ d.pc # c.pc /\ p \in Int
    <3>1. p \in Int
      BY <1>1
    <3> QED BY <1>2, <2>2, <3>1
  <2>4. SupervisorSp(c) = c.a7 /\ SupervisorSp(d) = p /\ UserSp(d) = UserSp(c)
    BY <1>4, <2>3 DEF SupervisorSp, UserSp
  <2>5. p <= StackTop
    <3>1. c.a7 <= StackTop
      BY <2>4 DEF Sound
    <3> QED BY <1>1, <2>2, <3>1 DEF Cells
  <2>6. \A cell \in Cells : cell < p => c.memory[cell] = Data
    <3> SUFFICES ASSUME NEW cell \in Cells, cell < p PROVE c.memory[cell] = Data
      OBVIOUS
    <3>1. CASE cell < c.a7
      BY <2>4, <3>1 DEF Sound
    <3>2. CASE ~(cell < c.a7)
      BY <1>1, <2>2, <3>2 DEF Cells
    <3> QED BY <3>1, <3>2
  <2>7. Sound(d)
    BY <2>3, <2>4, <2>5, <2>6 DEF Sound
  <2>8. FrameCells(d) = FrameCells(c)
    <3>1. ASSUME NEW cell \in Cells, c.memory[cell] # Data
          PROVE  cell >= p <=> cell >= c.a7
      <4>1. ~(cell < p) /\ ~(cell < c.a7)
        BY <2>4, <2>6, <3>1 DEF Sound
      <4> QED BY <1>1, <2>3, <4>1 DEF Cells
    <3> QED BY <2>3, <2>4, <3>1 DEF FrameCells
  <2> QED BY <1>4, <2>3, <2>4, <2>7, <2>8, SameFrames, SoundTypes DEF Proceeds
<1> QED BY <1>1, <1>3, <1>4

\* MOVE to SR and STOP give the supervisor another status.
LEMMA MoveToSrProceeds ==
    ASSUME NEW c, Sound(c), ~c.raised, c.sr.s, NEW d \in MoveToSr(c) \cup Stop(c)
    PROVE  Proceeds(c, d)
<1>1. PICK sr \in Status :
        LET b == SetStatusRegister(c, sr)
        IN  \/ d = [b EXCEPT !.pc = NextPc(c)]
            \/ d = [[b EXCEPT !.pc = NextPc(c)] EXCEPT !.stopped = TRUE]
  BY DEF MoveToSr, Stop
<1> DEFINE b == SetStatusRegister(c, sr)
<1>2. /\ Sound(b) /\ b.sr = sr /\ b.pc = c.pc /\ b.memory = c.memory /\ b.raised = c.raised
      /\ SupervisorSp(b) = SupervisorSp(c) /\ UserSp(b) = UserSp(c)
  BY StatusSwitch
<1>3. NextPc(c) \in Pcs /\ NextPc(c) # c.pc
  BY SoundTypes, NextPcType
<1>4. \/ d = [b EXCEPT !.pc = NextPc(c)]
      \/ d = [[b EXCEPT !.pc = NextPc(c)] EXCEPT !.stopped = TRUE]
  BY <1>1
<1> HIDE DEF b
<1>5. b \in Registers
  BY <1>2 DEF Sound
<1>6. /\ d \in Registers /\ d.sr = sr /\ d.a7 = b.a7 /\ d.ssp = b.ssp /\ d.usp = b.usp
      /\ d.raised = b.raised /\ d.memory = b.memory /\ d.pc # c.pc
  <2>1. CASE d = [b EXCEPT !.pc = NextPc(c)]
    BY <1>2, <1>3, <1>5, <2>1 DEF Registers
  <2>2. CASE d = [[b EXCEPT !.pc = NextPc(c)] EXCEPT !.stopped = TRUE]
    <3>1. d = [b EXCEPT !.pc = NextPc(c), !.stopped = TRUE]
      BY <1>5, <2>2 DEF Registers
    <3> QED BY <1>2, <1>3, <1>5, <3>1 DEF Registers
  <2> QED BY <1>4, <2>1, <2>2
<1>7. SupervisorSp(d) = SupervisorSp(c) /\ UserSp(d) = UserSp(c)
  BY <1>2, <1>6 DEF SupervisorSp, UserSp
<1>8. FrameCells(d) = FrameCells(c) /\ d.memory = c.memory
  BY <1>2, <1>6, <1>7 DEF FrameCells
<1>9. Sound(d)
  BY <1>2, <1>6, <1>7 DEF Sound
<1>10. ~d.raised
  BY <1>2, <1>6
<1> QED BY <1>6, <1>7, <1>8, <1>9, <1>10, SameFrames DEF Proceeds

LEMMA MoveUspProceeds ==
    ASSUME NEW c, Sound(c), ~c.raised, c.sr.s, NEW d \in MoveUsp(c)
    PROVE  Proceeds(c, d)
<1>1. PICK p \in UserPointers : d = [c EXCEPT !.usp = p, !.pc = NextPc(c)]
  BY DEF MoveUsp
<1>2. c \in Registers /\ NextPc(c) \in Pcs /\ NextPc(c) # c.pc /\ p \in Int
  <2>1. p \in Int
    BY PointerTypes
  <2> QED BY <2>1, SoundTypes, NextPcType DEF Sound
<1>3. /\ d \in Registers /\ d.sr = c.sr /\ d.a7 = c.a7 /\ d.usp = p
      /\ d.raised = c.raised /\ d.memory = c.memory /\ d.pc # c.pc
  BY <1>1, <1>2 DEF Registers
<1>4. SupervisorSp(d) = SupervisorSp(c) /\ UserSp(d) = p /\ FrameCells(d) = FrameCells(c)
  BY <1>3 DEF SupervisorSp, UserSp, FrameCells
<1>5. Sound(d)
  BY <1>3, <1>4 DEF Sound
<1> QED BY <1>3, <1>4, <1>5, SameFrames, SoundTypes DEF Proceeds

\* RTE pops the frame and resumes what it holds.
LEMMA RteReturns ==
    ASSUME NEW c, Sound(c), ~c.raised, c.sr.s, NEW d \in Rte(c)
    PROVE  Returns(c, d)
<1>1. PICK frame : /\ c.a7 \in Cells /\ frame = c.memory[c.a7] /\ frame # Data
                   /\ d = [SetStatusRegister(Pop(c), frame.sr) EXCEPT !.pc = frame.pc]
  BY DEF Rte
<1>2. c \in Registers /\ c.memory \in [Cells -> Contents] /\ c.a7 \in Int
      /\ SupervisorSp(c) = c.a7 /\ c.a7 < StackTop
  BY <1>1, SoundTypes DEF Sound, SupervisorSp, Cells
<1>3. frame \in Frame /\ frame.sr \in Status /\ frame.pc \in Pcs
      /\ frame = [pc |-> frame.pc, sr |-> frame.sr]
  <2>1. frame \in Frame
    BY <1>1, <1>2 DEF Contents
  <2> QED BY <2>1 DEF Frame
<1> DEFINE popped == Pop(c)
<1>4. /\ popped \in Registers /\ popped.sr = c.sr /\ popped.a7 = c.a7 + 1
      /\ popped.usp = c.usp /\ popped.raised = c.raised
      /\ popped.memory = [c.memory EXCEPT ![c.a7] = Data]
  <2> DEFINE left == [c.memory EXCEPT ![c.a7] = Data]
  <2>1. left \in [Cells -> Contents] /\ c.a7 + 1 \in Int
    BY <1>1, <1>2 DEF Contents
  <2>2. popped = [c EXCEPT !.a7 = c.a7 + 1, !.memory = left]
    BY <1>2 DEF Pop, Registers
  <2> HIDE DEF popped, left
  <2>3. /\ popped \in Registers /\ popped.sr = c.sr /\ popped.a7 = c.a7 + 1
        /\ popped.usp = c.usp /\ popped.raised = c.raised /\ popped.memory = left
    BY <1>2, <2>1, <2>2 DEF Registers
  <2> QED BY <2>3 DEF left
<1> HIDE DEF popped
<1>5. SupervisorSp(popped) = c.a7 + 1 /\ UserSp(popped) = UserSp(c)
  BY <1>4 DEF SupervisorSp, UserSp
<1>6. \A cell \in Cells : popped.memory[cell] = IF cell = c.a7 THEN Data ELSE c.memory[cell]
  BY <1>1, <1>2, <1>4
<1>7. Sound(popped)
  <2>1. c.a7 + 1 <= StackTop
    BY <1>2
  <2>2. ASSUME NEW cell \in Cells, cell < c.a7 + 1
        PROVE  popped.memory[cell] = Data
    <3>1. cell = c.a7 \/ cell < c.a7
      BY <1>2, <2>2 DEF Cells
    <3> QED BY <1>2, <1>6, <3>1 DEF Sound
  <2> QED BY <1>4, <1>5, <2>1, <2>2 DEF Sound
<1> DEFINE b == SetStatusRegister(popped, frame.sr)
<1>8. /\ Sound(b) /\ b.sr = frame.sr /\ b.memory = popped.memory /\ b.raised = popped.raised
      /\ SupervisorSp(b) = c.a7 + 1 /\ UserSp(b) = UserSp(c)
  BY <1>3, <1>5, <1>7, StatusSwitch
<1>9. d = [b EXCEPT !.pc = frame.pc]
  BY <1>1 DEF popped
<1> HIDE DEF b
<1>10. /\ d \in Registers /\ d.sr = b.sr /\ d.a7 = b.a7 /\ d.ssp = b.ssp /\ d.usp = b.usp
       /\ d.raised = b.raised /\ d.memory = b.memory /\ d.pc = frame.pc
  <2>1. b \in Registers
    BY <1>8 DEF Sound
  <2> QED BY <1>3, <1>9, <2>1 DEF Registers
<1>11. SupervisorSp(d) = c.a7 + 1 /\ UserSp(d) = UserSp(c)
  BY <1>8, <1>10 DEF SupervisorSp, UserSp
<1>12. Sound(d)
  BY <1>8, <1>10, <1>11 DEF Sound
<1>13. c.memory[c.a7] = Context(d)
  BY <1>1, <1>3, <1>8, <1>10 DEF Context
<1>14. d.memory = [c.memory EXCEPT ![c.a7] = Data]
  BY <1>4, <1>8, <1>10
<1>15. HoldsOneMore(d, c, c.a7)
  <2>1. \A cell \in Cells : d.memory[cell] = IF cell = c.a7 THEN Data ELSE c.memory[cell]
    BY <1>6, <1>8, <1>10
  <2>2. ASSUME NEW cell \in Cells
        PROVE  cell \in FrameCells(c) <=> cell \in FrameCells(d) \/ cell = c.a7
    <3>1. CASE cell = c.a7
      <4>1. c.memory[cell] # Data /\ cell >= SupervisorSp(c)
        BY <1>1, <1>2, <3>1
      <4> QED BY <3>1, <4>1 DEF FrameCells
    <3>2. CASE cell # c.a7
      <4>1. cell >= SupervisorSp(c) <=> cell >= SupervisorSp(d)
        BY <1>2, <1>11, <3>2 DEF Cells
      <4> QED BY <2>1, <3>2, <4>1 DEF FrameCells
    <3> QED BY <3>1, <3>2
  <2>3. FrameCells(c) = FrameCells(d) \cup {c.a7}
    BY <1>1, <2>2, FrameCellsFinite
  <2>4. ASSUME NEW other \in FrameCells(d)
        PROVE  c.a7 < other /\ c.memory[other] = d.memory[other]
    <3>1. other \in Cells /\ other >= c.a7 + 1
      BY <1>11 DEF FrameCells
    <3> QED BY <1>2, <2>1, <3>1 DEF Cells
  <2> QED BY <2>3, <2>4 DEF HoldsOneMore
<1>16. ~d.raised
  BY <1>4, <1>8, <1>10
<1> QED BY <1>1, <1>11, <1>12, <1>13, <1>14, <1>15, <1>16 DEF Returns

LEMMA ExecuteClasses ==
    ASSUME NEW c, Sound(c), ~c.raised, NEW d \in Execute(c)
    PROVE  Proceeds(c, d) \/ Raises(c, d) \/ Returns(c, d)
<1>1. c.pc \in Pcs /\ NextPc(c) \in Pcs
  BY SoundTypes, NextPcType
<1>2. CASE d \in Ordinary(c)
  BY <1>2, OrdinaryProceeds
<1>3. CASE d \in UseStack(c)
  BY <1>3, UseStackProceeds
<1>4. CASE d \in Trap(c) \cup Fault(c)
  BY <1>1, <1>4 DEF Trap, Fault, Raises
<1>5. CASE ~c.sr.s /\ d \notin Ordinary(c) \cup UseStack(c)
  BY <1>1, <1>5 DEF Execute, Privileged, Trap, Fault, Raises
<1>6. CASE c.sr.s /\ d \in MoveToSr(c) \cup Stop(c)
  BY <1>6, MoveToSrProceeds
<1>7. CASE c.sr.s /\ d \in MoveUsp(c)
  BY <1>7, MoveUspProceeds
<1>8. CASE c.sr.s /\ d \in Rte(c)
  BY <1>8, RteReturns
<1> QED BY <1>2, <1>3, <1>4, <1>5, <1>6, <1>7, <1>8 DEF Execute, Privileged

----------------------------------------------------------------------------
(* Steps of the processor.                                                 *)

\* The mark of an exception is for the step alone.
LEMMA Unmarked ==
    ASSUME NEW e \in Registers, NEW r, r = [e EXCEPT !.raised = FALSE]
    PROVE  /\ ~r.raised
           /\ r.pc = e.pc /\ r.sr = e.sr /\ r.a7 = e.a7 /\ r.ssp = e.ssp /\ r.memory = e.memory
           /\ SupervisorSp(r) = SupervisorSp(e) /\ UserSp(r) = UserSp(e)
           /\ Frames(r) = Frames(e) /\ Context(r) = Context(e)
           /\ Sound(e) => Sound(r)
<1>1. /\ r \in Registers /\ r.raised = FALSE
      /\ r.pc = e.pc /\ r.sr = e.sr /\ r.a7 = e.a7 /\ r.ssp = e.ssp /\ r.usp = e.usp
      /\ r.memory = e.memory
  BY DEF Registers
<1>2. SupervisorSp(r) = SupervisorSp(e) /\ UserSp(r) = UserSp(e) /\ Context(r) = Context(e)
  BY <1>1 DEF SupervisorSp, UserSp, Context
<1>3. Frames(r) = Frames(e)
  BY <1>1, <1>2, SameFrames DEF FrameCells
<1>4. Sound(e) => Sound(r)
  BY <1>1, <1>2 DEF Sound
<1> QED BY <1>1, <1>2, <1>3, <1>4

\* The processor between two steps.
Steady(c) == Sound(c) /\ SupervisorSp(c) >= 0 /\ ~c.raised

\* It enters a handler: what it leaves is the first of the frames.
Enters(c, r, context) ==
    /\ Steady(r)
    /\ r.pc = Handler /\ r.sr.s /\ ~r.sr.t /\ r.sr.mask >= context.sr.mask
    /\ Frames(r) # <<>>
    /\ Head(Frames(r)) = context
    /\ Tail(Frames(r)) = Frames(c)

LEMMA ExceptionEnters ==
    ASSUME NEW c, Sound(c), NEW pc \in Pcs, NEW e, e = Exception(c, pc),
           NEW r, r = [e EXCEPT !.raised = FALSE], Fits(e)
    PROVE  Enters(c, r, [pc |-> pc, sr |-> c.sr]) /\ UserSp(r) = UserSp(c)
<1>1. e \in Registers /\ InHandler(c, e)
  BY ExceptionRegisters
<1>2. e.a7 >= 0
  BY DEF Fits
<1>3. Sound(e) /\ Frames(e) # <<>> /\ Head(Frames(e)) = [sr |-> c.sr, pc |-> pc]
      /\ Tail(Frames(e)) = Frames(c)
  BY <1>2, ExceptionPushes
<1>4. Steady(r)
  BY <1>1, <1>2, <1>3, Unmarked DEF Steady, InHandler
<1>5. r.pc = Handler /\ r.sr.s /\ ~r.sr.t /\ r.sr.mask = c.sr.mask /\ UserSp(r) = UserSp(c)
      /\ Frames(r) = Frames(e)
  BY <1>1, Unmarked DEF InHandler
<1>6. c.sr.mask >= c.sr.mask
  BY SoundTypes
<1>7. [sr |-> c.sr, pc |-> pc] = [pc |-> pc, sr |-> c.sr]
  OBVIOUS
<1> DEFINE context == [pc |-> pc, sr |-> c.sr]
<1>8. context.sr = c.sr
  OBVIOUS
<1> HIDE DEF context
<1>9. Enters(c, r, context)
  BY <1>3, <1>4, <1>5, <1>6, <1>7, <1>8 DEF Enters, context
<1> QED BY <1>5, <1>9 DEF context

\* The instruction that is traced is followed by an exception of its result.
LEMMA TraceEnters ==
    ASSUME NEW c, Steady(c), NEW d, Proceeds(c, d) \/ Returns(c, d),
           NEW e, e = Exception(d, d.pc), NEW r, r = [e EXCEPT !.raised = FALSE], Fits(e)
    PROVE  Enters(d, r, Context(d)) /\ UserSp(r) = UserSp(d)
<1>1. Sound(d) /\ d.pc \in Pcs
  BY SoundTypes DEF Proceeds, Returns
<1> QED BY <1>1, ExceptionEnters DEF Context

\* RTE, traced: the frame it popped is pushed again.
LEMMA TracedReturn ==
    ASSUME NEW c, Steady(c), NEW d, Returns(c, d),
           NEW e, e = Exception(d, d.pc), NEW r, r = [e EXCEPT !.raised = FALSE], Fits(e)
    PROVE  /\ Frames(c) # <<>> /\ Enters(d, r, Head(Frames(c)))
           /\ Frames(r) = Frames(c) /\ UserSp(r) = UserSp(c)
<1>1. Enters(d, r, Context(d)) /\ UserSp(r) = UserSp(d)
  BY TraceEnters
<1>2. /\ Frames(c) # <<>> /\ Head(Frames(c)) = Context(d) /\ Tail(Frames(c)) = Frames(d)
  BY OneMoreFrame DEF Returns
<1>3. Frames(r) = Frames(c)
  <2>1. Sound(c) /\ Sound(d) /\ d.pc \in Pcs
    BY SoundTypes DEF Returns, Steady
  <2>2. e \in Registers /\ InHandler(d, e) /\ FramePushed(d, d.pc, e)
    BY <2>1, ExceptionRegisters
  <2>3. c.a7 \in Cells /\ c.a7 \in Int /\ SupervisorSp(c) = c.a7
        /\ c.memory \in [Cells -> Contents]
    BY <2>1, SoundTypes DEF Returns, SupervisorSp
  <2>4. e.a7 = c.a7 /\ SupervisorSp(e) = SupervisorSp(c)
    BY <2>2, <2>3 DEF Returns, InHandler
  <2>5. [sr |-> d.sr, pc |-> d.pc] = c.memory[c.a7]
    BY DEF Returns, Context
  <2>6. \A cell \in Cells : e.memory[cell] = c.memory[cell]
    BY <2>2, <2>3, <2>4, <2>5 DEF Returns, FramePushed
  <2>7. e.memory = c.memory
    BY <2>2, <2>3, <2>6 DEF Registers
  <2>8. FrameCells(e) = FrameCells(c)
    BY <2>4, <2>7 DEF FrameCells
  <2>9. Frames(e) = Frames(c)
    BY <2>7, <2>8, SameFrames
  <2> QED BY <2>2, <2>9, Unmarked
<1> QED BY <1>1, <1>2, <1>3 DEF Returns

----------------------------------------------------------------------------
(* The inductive invariant.                                                *)

LevelTypes ==
    /\ interruptLevel \in Levels \cup {0}
    /\ level7Pending \in BOOLEAN
    /\ served \in Nat

\* While the line is at 7, its edge waits for as long as no exception has been taken for
\* it, and one is taken at most.
EdgesServed == interruptLevel = 7 => served <= 1 /\ (level7Pending <=> served = 0)

IInv == Steady(cpu) /\ LevelTypes /\ EdgesServed

LEMMA ResetSteady ==
    /\ Steady(ResetCpu)
    /\ Frames(ResetCpu) = <<>> /\ UserSp(ResetCpu) \in UserPointers
    /\ Context(ResetCpu) = [pc |-> ResetPc, sr |-> ResetStatus]
<1>1. /\ ResetCpu.pc = ResetPc /\ ResetCpu.sr = ResetStatus /\ ResetCpu.sr.s = TRUE
      /\ ResetCpu.a7 = StackTop /\ ResetCpu.usp = 0 /\ ResetCpu.raised = FALSE
      /\ ResetCpu.memory = [cell \in Cells |-> Data]
  BY DEF ResetCpu, ResetStatus
<1>2. ResetCpu \in Registers
  <2>1. [cell \in Cells |-> Data] \in [Cells -> Contents]
    BY DEF Contents
  <2>2. StackTop \in Int /\ 0 \in Int
    OBVIOUS
  <2> QED BY <2>1, <2>2, CodeTypes DEF ResetCpu, Registers
<1>3. SupervisorSp(ResetCpu) = StackTop /\ UserSp(ResetCpu) = 0
  BY <1>1 DEF SupervisorSp, UserSp
<1>4. Sound(ResetCpu)
  BY <1>1, <1>2, <1>3 DEF Sound, UserPointers
<1>5. FrameCells(ResetCpu) = {}
  BY <1>1 DEF FrameCells
<1>6. Frames(ResetCpu) = <<>>
  BY <1>5, FS_EmptySet DEF Frames
<1> QED BY <1>1, <1>3, <1>4, <1>6 DEF Steady, Context, UserPointers

\* What an instruction makes of the processor.
Executes(c, r) ==
    \/ Proceeds(c, r) /\ ~c.sr.t
    \/ Returns(c, r) /\ ~c.sr.t
    \/ \E pc \in Pcs : Enters(c, r, [pc |-> pc, sr |-> c.sr]) /\ UserSp(r) = UserSp(c)
    \/ \E d : Proceeds(c, d) /\ Enters(d, r, Context(d)) /\ UserSp(r) = UserSp(d)
    \/ /\ c.sr.s /\ c.sr.t
       /\ Frames(c) # <<>> /\ \E d : Returns(c, d) /\ Enters(d, r, Head(Frames(c)))
       /\ Frames(r) = Frames(c) /\ UserSp(r) = UserSp(c)

LEMMA InstructionExecutes ==
    ASSUME Steady(cpu), Instruction
    PROVE  Executes(cpu, cpu') /\ Steady(cpu')
<1>1. PICK d \in Execute(cpu) :
        LET e == IF Traced(cpu, d) /\ ~d.raised THEN Exception(d, d.pc) ELSE d
        IN  Fits(e) /\ cpu' = [e EXCEPT !.raised = FALSE]
  BY DEF Instruction
<1>2. Sound(cpu) /\ ~cpu.raised /\ cpu.sr.t \in BOOLEAN
  BY SoundTypes DEF Steady
<1>3. Proceeds(cpu, d) \/ Raises(cpu, d) \/ Returns(cpu, d)
  BY <1>2, ExecuteClasses
<1>4. CASE Raises(cpu, d)
  <2>1. PICK pc \in Pcs : d = Exception(cpu, pc)
    BY <1>4 DEF Raises
  <2>2. d.raised
    BY <1>2, <2>1, ExceptionRegisters
  <2>3. Fits(d) /\ cpu' = [d EXCEPT !.raised = FALSE]
    BY <1>1, <2>2
  <2>4. Enters(cpu, cpu', [pc |-> pc, sr |-> cpu.sr]) /\ UserSp(cpu') = UserSp(cpu)
    <3> DEFINE r == cpu'
    <3>1. r = [d EXCEPT !.raised = FALSE]
      BY <2>3
    <3> HIDE DEF r
    <3>2. Enters(cpu, r, [pc |-> pc, sr |-> cpu.sr]) /\ UserSp(r) = UserSp(cpu)
      BY <1>2, <2>1, <2>3, <3>1, ExceptionEnters
    <3> QED BY <3>2 DEF r
  <2> QED BY <2>4 DEF Executes, Enters
<1>5. CASE (Proceeds(cpu, d) \/ Returns(cpu, d)) /\ ~cpu.sr.t
  <2>1. Sound(d) /\ d \in Registers /\ ~d.raised
    BY <1>5 DEF Proceeds, Returns, Sound
  <2>2. Fits(d) /\ cpu' = [d EXCEPT !.raised = FALSE]
    BY <1>1, <1>5 DEF Traced
  <2>3. cpu' = d
    <3>1. d.raised = FALSE
      BY <2>1 DEF Registers
    <3> QED BY <2>1, <2>2, <3>1 DEF Registers
  <2>4. SupervisorSp(d) >= 0
    BY <2>2 DEF Fits, SupervisorSp
  <2> QED BY <1>5, <2>1, <2>3, <2>4 DEF Executes, Steady
<1>6. CASE (Proceeds(cpu, d) \/ Returns(cpu, d)) /\ cpu.sr.t
  <2> DEFINE e == Exception(d, d.pc)
             r == cpu'
  <2>1. ~d.raised
    BY <1>6 DEF Proceeds, Returns
  <2>2. Fits(e) /\ r = [e EXCEPT !.raised = FALSE]
    BY <1>1, <1>6, <2>1 DEF Traced
  <2> HIDE DEF r
  <2>3. PICK f : f = e
    OBVIOUS
  <2>4. f = Exception(d, d.pc) /\ Fits(f) /\ r = [f EXCEPT !.raised = FALSE]
    BY <2>2, <2>3
  <2> HIDE DEF e
  <2>5. Enters(d, r, Context(d)) /\ UserSp(r) = UserSp(d)
    BY <1>6, <2>4, TraceEnters
  <2>6. CASE Proceeds(cpu, d)
    BY <2>5, <2>6 DEF Executes, Enters, r
  <2>7. CASE Returns(cpu, d)
    <3>1. /\ Frames(cpu) # <<>> /\ Enters(d, r, Head(Frames(cpu)))
          /\ Frames(r) = Frames(cpu) /\ UserSp(r) = UserSp(cpu)
      BY <2>4, <2>7, TracedReturn
    <3>2. cpu.sr.s
      BY <2>7 DEF Returns
    <3> QED BY <1>6, <2>7, <3>1, <3>2 DEF Executes, Enters, r
  <2> QED BY <1>6, <2>6, <2>7
<1> QED BY <1>2, <1>3, <1>4, <1>5, <1>6

\* An interrupt suspends what runs, and raises the mask to its level.
LEMMA InterruptEnters ==
    ASSUME Steady(cpu), LevelTypes, AcceptInterrupt
    PROVE  Enters(cpu, cpu', Context(cpu)) /\ UserSp(cpu') = UserSp(cpu)
<1> DEFINE level == PendingInterruptLevel
           e     == Exception(cpu, cpu.pc)
           r     == cpu'
<1>1. Sound(cpu) /\ cpu.pc \in Pcs /\ cpu.sr.mask \in 0 .. 7
  BY SoundTypes DEF Steady
<1>2. level \in Masks /\ level >= cpu.sr.mask
  <2>1. interruptLevel \in Masks /\ interruptLevel \in 0 .. 7
    BY DEF LevelTypes
  <2> QED BY <1>1, <2>1 DEF AcceptInterrupt, PendingInterruptLevel
<1>3. r = [e EXCEPT !.sr.mask = level, !.raised = FALSE] /\ Fits(r)
  BY DEF AcceptInterrupt
<1>4. e \in Registers /\ InHandler(cpu, e)
  BY <1>1, ExceptionRegisters
<1> HIDE DEF level, r
<1>5. /\ r.pc = e.pc /\ r.sr = [e.sr EXCEPT !.mask = level] /\ r.a7 = e.a7 /\ r.ssp = e.ssp
      /\ r.usp = e.usp /\ r.memory = e.memory /\ r.raised = FALSE /\ r.stopped = e.stopped
      /\ [e.sr EXCEPT !.mask = level] \in Status
      /\ r \in Registers
  <2> HIDE DEF e
  <2> DEFINE sr == [e.sr EXCEPT !.mask = level]
  <2>1. sr \in Status
    BY <1>2, <1>4 DEF Registers, Status
  <2>2. r = [e EXCEPT !.sr = sr, !.raised = FALSE]
    BY <1>3, <1>4 DEF Registers
  <2> HIDE DEF sr
  <2>3. /\ r.pc = e.pc /\ r.sr = sr /\ r.a7 = e.a7 /\ r.ssp = e.ssp
        /\ r.usp = e.usp /\ r.memory = e.memory /\ r.raised = FALSE /\ r.stopped = e.stopped
        /\ r \in Registers
    BY <1>4, <2>1, <2>2 DEF Registers
  <2> QED BY <2>1, <2>3 DEF sr
<1>6. r.sr.s = e.sr.s /\ r.sr.t = e.sr.t /\ r.sr.mask = level
  BY <1>4, <1>5 DEF Registers, Status
<1>7. e.a7 >= 0
  BY <1>3, <1>5 DEF Fits
<1>8. Sound(e) /\ Frames(e) # <<>> /\ Head(Frames(e)) = [sr |-> cpu.sr, pc |-> cpu.pc]
      /\ Tail(Frames(e)) = Frames(cpu)
  BY <1>1, <1>7, ExceptionPushes
<1> HIDE DEF e
<1>9. SupervisorSp(r) = SupervisorSp(e) /\ UserSp(r) = UserSp(e)
  BY <1>5, <1>6 DEF SupervisorSp, UserSp
<1>10. Frames(r) = Frames(e)
  BY <1>5, <1>9, SameFrames DEF FrameCells
<1>11. Sound(r)
  BY <1>5, <1>8, <1>9 DEF Sound
<1>12. Steady(r) /\ UserSp(r) = UserSp(cpu)
  BY <1>4, <1>5, <1>7, <1>9, <1>11 DEF Steady, InHandler
<1>13. [sr |-> cpu.sr, pc |-> cpu.pc] = Context(cpu) /\ Context(cpu).sr.mask = cpu.sr.mask
  BY DEF Context
<1>14. Enters(cpu, r, Context(cpu))
  BY <1>2, <1>4, <1>5, <1>6, <1>8, <1>10, <1>12, <1>13 DEF Enters, InHandler
<1> QED BY <1>12, <1>14 DEF r

LEMMA Initially == Init => IInv
<1> SUFFICES ASSUME Init PROVE IInv
  OBVIOUS
<1>1. Steady(cpu)
  BY ResetSteady DEF Init
<1>2. LevelTypes
  BY DEF Init, LevelTypes
<1>3. EdgesServed
  BY DEF Init, EdgesServed
<1> QED BY <1>1, <1>2, <1>3 DEF IInv

\* Level 7 is pending exactly while the line is at 7 and its edge waits.
LEMMA PendingIsEdge ==
    ASSUME LevelTypes
    PROVE  PendingInterruptLevel = 7 <=> interruptLevel = 7 /\ level7Pending
<1>1. CASE interruptLevel = 7 /\ level7Pending
  BY <1>1 DEF PendingInterruptLevel
<1>2. CASE interruptLevel = 7 /\ ~level7Pending
  BY <1>2 DEF PendingInterruptLevel
<1>3. CASE interruptLevel # 7
  BY <1>3 DEF PendingInterruptLevel
<1> QED BY <1>1, <1>2, <1>3

LEMMA LevelsKept ==
    ASSUME LevelTypes, EdgesServed,
           \/ AcceptInterrupt \/ Instruction \/ Reset
           \/ \E level \in Levels : SetInterruptLevel(level)
    PROVE  LevelTypes' /\ EdgesServed'
<1>1. level7Pending \in BOOLEAN /\ served \in Nat /\ interruptLevel \in Levels \cup {0}
  BY DEF LevelTypes
<1>2. CASE AcceptInterrupt
  <2>1. UNCHANGED interruptLevel
    BY <1>2 DEF AcceptInterrupt
  <2>2. CASE PendingInterruptLevel = 7
    <3>1. level7Pending' = FALSE /\ served' = served + 1
      BY <1>2, <2>2 DEF AcceptInterrupt
    <3>2. interruptLevel = 7 /\ level7Pending
      BY <2>2, PendingIsEdge
    <3>3. served = 0
      BY <3>2 DEF EdgesServed
    <3>4. served' = 1
      BY <3>1, <3>3
    <3>5. LevelTypes'
      <4>1. served' \in Nat
        BY <3>4
      <4> QED BY <1>1, <2>1, <3>1, <4>1, Zenon DEF LevelTypes
    <3>6. ~level7Pending' /\ served' <= 1 /\ served' # 0
      BY <3>1, <3>4
    <3> QED BY <3>5, <3>6 DEF EdgesServed
  <2>3. CASE PendingInterruptLevel # 7
    <3>1. (level7Pending' <=> level7Pending) /\ level7Pending' \in BOOLEAN /\ served' = served
      BY <1>2, <2>3 DEF AcceptInterrupt
    <3> QED BY <1>1, <2>1, <3>1 DEF LevelTypes, EdgesServed
  <2> QED BY <2>2, <2>3
<1>3. CASE Instruction
  BY <1>3 DEF Instruction, levels, LevelTypes, EdgesServed
<1>4. CASE Reset
  <2>1. interruptLevel' = 0 /\ level7Pending' = FALSE /\ served' = served
    BY <1>4 DEF Reset
  <2>2. interruptLevel' # 7
    BY <2>1
  <2> QED BY <1>1, <2>1, <2>2 DEF LevelTypes, EdgesServed
<1>5. ASSUME NEW level \in Levels, SetInterruptLevel(level)
      PROVE  LevelTypes' /\ EdgesServed'
  <2>1. interruptLevel' = level
    BY <1>5 DEF SetInterruptLevel
  <2>2. CASE level = 7 /\ interruptLevel # 7
    <3>1. level7Pending' = TRUE /\ served' = 0
      BY <1>5, <2>2 DEF SetInterruptLevel, Level7Pending
    <3> QED BY <1>1, <2>1, <3>1 DEF LevelTypes, EdgesServed
  <2>3. CASE level = 7 /\ interruptLevel = 7
    <3>1. level7Pending' \in BOOLEAN /\ (level7Pending' <=> level7Pending) /\ served' = served
      BY <1>1, <1>5, <2>3 DEF SetInterruptLevel, Level7Pending
    <3> QED BY <1>1, <2>1, <2>3, <3>1 DEF LevelTypes, EdgesServed
  <2>4. CASE level # 7
    <3>1. level7Pending' = FALSE /\ served' = served
      BY <1>5, <2>4 DEF SetInterruptLevel, Level7Pending
    <3> QED BY <1>1, <2>1, <2>4, <3>1 DEF LevelTypes, EdgesServed
  <2> QED BY <2>2, <2>3, <2>4
<1> QED BY <1>2, <1>3, <1>4, <1>5

LEMMA Inductive == IInv /\ [Next]_vars => IInv'
<1> SUFFICES ASSUME IInv, [Next]_vars PROVE IInv'
  OBVIOUS
<1>1. Steady(cpu) /\ LevelTypes /\ EdgesServed
  BY DEF IInv
<1>2. CASE AcceptInterrupt
  <2>1. Steady(cpu')
    BY <1>1, <1>2, InterruptEnters DEF Enters
  <2> QED BY <1>1, <1>2, <2>1, LevelsKept DEF IInv
<1>3. CASE Instruction
  <2>1. Steady(cpu')
    BY <1>1, <1>3, InstructionExecutes
  <2> QED BY <1>1, <1>3, <2>1, LevelsKept DEF IInv
<1>4. CASE \E level \in Levels : SetInterruptLevel(level)
  <2>1. Steady(cpu')
    BY <1>1, <1>4 DEF SetInterruptLevel
  <2> QED BY <1>1, <1>4, <2>1, LevelsKept DEF IInv
<1>5. CASE Reset
  <2>1. Steady(cpu')
    BY <1>5, ResetSteady DEF Reset
  <2> QED BY <1>1, <1>5, <2>1, LevelsKept DEF IInv
<1>6. CASE UNCHANGED vars
  BY <1>1, <1>6 DEF vars, levels, IInv, LevelTypes, EdgesServed
<1> QED BY <1>2, <1>3, <1>4, <1>5, <1>6 DEF Next, Step

THEOREM InvariantHolds == Spec => []IInv
BY Initially, Inductive, PTL DEF Spec

----------------------------------------------------------------------------
(* What follows.                                                           *)

\* While the line stays at 7, the interrupt of its transition is pending whatever the
\* mask until it has been taken, and then no more: it is taken at most once
\* (setInterruptLevel(), pendingInterruptLevel(), acceptInterrupt()).
THEOREM Level7Correct == Spec => []Level7Once
<1>1. IInv => Level7Once
  <2> SUFFICES ASSUME IInv PROVE Level7Once
    OBVIOUS
  <2>1. Sound(cpu) /\ SupervisorSp(cpu) >= 0 /\ LevelTypes /\ EdgesServed
    BY DEF IInv, Steady
  <2>2. SupervisorSp(cpu) \in 0 .. StackTop
    <3>1. SupervisorSp(cpu) \in Int /\ SupervisorSp(cpu) <= StackTop
      BY <2>1, SoundTypes DEF Sound
    <3> QED BY <2>1, <3>1
  <2>3. cpu.pc \in Pcs /\ cpu.sr \in Status /\ cpu.stopped \in BOOLEAN
        /\ UserSp(cpu) \in UserPointers /\ cpu.memory \in [Cells -> Frame \cup {Data}]
    BY <2>1, SoundTypes DEF Sound, Contents
  <2>4. TypeOK
    BY <2>1, <2>2, <2>3 DEF TypeOK, LevelTypes
  <2>5. interruptLevel = 7 => served <= 1 /\ (PendingInterruptLevel = 7 <=> served = 0)
    BY <2>1, PendingIsEdge DEF EdgesServed
  <2> QED BY <2>4, <2>5 DEF Level7Once
<1> QED BY <1>1, InvariantHolds, PTL

\* The next call of step() takes the interrupt of a transition that waits, whatever the
\* mask and however many handlers are under way: no instruction is executed before it.
Level7Served ==
    [][interruptLevel = 7 /\ served = 0 /\ cpu' # cpu
         => \/ served' = 1 /\ cpu'.pc = Handler /\ cpu'.sr.mask = 7
            \/ cpu' = ResetCpu]_vars

\* A transition to level 7 is not put off, neither masked nor overtaken (step()).
THEOREM Level7NotMasked == Spec => Level7Served
<1>1. IInv /\ [Next]_vars =>
        [interruptLevel = 7 /\ served = 0 /\ cpu' # cpu
           => \/ served' = 1 /\ cpu'.pc = Handler /\ cpu'.sr.mask = 7
              \/ cpu' = ResetCpu]_vars
  <2> SUFFICES ASSUME IInv, [Next]_vars, interruptLevel = 7, served = 0, cpu' # cpu
               PROVE  \/ served' = 1 /\ cpu'.pc = Handler /\ cpu'.sr.mask = 7
                      \/ cpu' = ResetCpu
    OBVIOUS
  <2>1. PendingInterruptLevel = 7
    BY PendingIsEdge DEF IInv, EdgesServed
  <2>2. CASE AcceptInterrupt
    <3>1. served' = 1
      BY <2>1, <2>2 DEF AcceptInterrupt
    <3> DEFINE e == Exception(cpu, cpu.pc)
    <3>2. e \in Registers /\ InHandler(cpu, e)
      BY SoundTypes, ExceptionRegisters DEF IInv, Steady
    <3>3. cpu' = [e EXCEPT !.sr.mask = 7, !.raised = FALSE]
      BY <2>1, <2>2 DEF AcceptInterrupt
    <3> HIDE DEF e
    <3>4. cpu'.pc = e.pc /\ cpu'.sr.mask = 7
      BY <3>2, <3>3 DEF Registers, Status
    <3> QED BY <3>1, <3>2, <3>4 DEF InHandler
  <2>3. CASE Instruction
    BY <2>1, <2>3 DEF Instruction
  <2>4. CASE Reset
    BY <2>4 DEF Reset
  <2>5. CASE (\E level \in Levels : SetInterruptLevel(level)) \/ UNCHANGED vars
    BY <2>5 DEF SetInterruptLevel, vars
  <2> QED BY <2>2, <2>3, <2>4, <2>5 DEF Next, Step
<1> QED BY <1>1, InvariantHolds, PTL DEF Spec, Level7Served

\* Every instruction executed with the trace bit set is followed by an exception, its
\* own or the trace (step()).
THEOREM TraceCorrect == Spec => TracedInstructions
<1>1. IInv /\ [Next]_vars =>
        [cpu.sr.t => \/ cpu'.pc = Handler /\ cpu'.sr.s /\ ~cpu'.sr.t
                     \/ cpu' = ResetCpu]_cpu
  <2> SUFFICES ASSUME IInv, [Next]_vars, cpu.sr.t
               PROVE  \/ cpu'.pc = Handler /\ cpu'.sr.s /\ ~cpu'.sr.t
                      \/ cpu' = ResetCpu
                      \/ cpu' = cpu
    OBVIOUS
  <2>1. Steady(cpu) /\ LevelTypes
    BY DEF IInv
  <2>2. CASE AcceptInterrupt
    BY <2>1, <2>2, InterruptEnters DEF Enters
  <2>3. CASE Instruction
    <3>1. Executes(cpu, cpu')
      BY <2>1, <2>3, InstructionExecutes
    <3> QED BY <3>1 DEF Executes, Enters
  <2>4. CASE Reset
    BY <2>4 DEF Reset
  <2>5. CASE (\E level \in Levels : SetInterruptLevel(level)) \/ UNCHANGED vars
    BY <2>5 DEF SetInterruptLevel, vars
  <2> QED BY <2>2, <2>3, <2>4, <2>5 DEF Next, Step
<1> QED BY <1>1, InvariantHolds, PTL DEF Spec, TracedInstructions

\* A context that goes on is one that an instruction may make of it.
LEMMA ProceedsAfter ==
    ASSUME NEW c, NEW d, Proceeds(c, d)
    PROVE  Context(d) \in Saved!After(Context(c))
<1>1. d.pc \in Pcs
  BY SoundTypes DEF Proceeds
<1>2. Context(c).sr = c.sr
  BY DEF Context
<1>3. d.sr \in IF Context(c).sr.s THEN Status ELSE {Context(c).sr}
  BY <1>2 DEF Proceeds
<1> QED BY <1>1, <1>3 DEF Saved!After, Context

\* A step of the processor into a handler suspends the context that it leaves.
LEMMA EntersSuspends ==
    ASSUME NEW context \in {Context(cpu)} \cup Saved!After(Context(cpu)),
           Enters(cpu, cpu', context),
           UserSp(cpu') = UserSp(cpu) \/ context # Context(cpu)
    PROVE  Saved!Suspend
<1>1. /\ cpu'.pc = Handler /\ cpu'.sr.s /\ ~cpu'.sr.t /\ cpu'.sr.mask >= context.sr.mask
      /\ Frames(cpu') # <<>> /\ Head(Frames(cpu')) = context /\ Tail(Frames(cpu')) = Frames(cpu)
  BY DEF Enters
<1>2. UserSp(cpu') \in UserPointers
  BY DEF Enters, Steady, Sound
<1>3. Saved!Enter(context)
  BY <1>1 DEF Saved!Enter
<1> QED BY <1>1, <1>2, <1>3 DEF Saved!Suspend, Context

LEMMA InstructionSaves ==
    ASSUME Steady(cpu), Instruction
    PROVE  Saved!Next
<1>1. Executes(cpu, cpu') /\ Steady(cpu')
  BY InstructionExecutes
<1>2. UserSp(cpu') \in UserPointers /\ Sound(cpu)
  BY <1>1 DEF Steady, Sound
<1>3. CASE Proceeds(cpu, cpu')
  <2>1. Context(cpu') \in Saved!After(Context(cpu))
    BY <1>3, ProceedsAfter
  <2>2. Frames(cpu') = Frames(cpu)
    BY <1>3 DEF Proceeds
  <2>3. Saved!Proceed
    BY <1>2, <2>1, <2>2 DEF Saved!Proceed, Context
  <2> QED BY <2>3 DEF Saved!Next
<1>4. CASE Returns(cpu, cpu')
  <2>1. /\ cpu.sr.s /\ UserSp(cpu') = UserSp(cpu)
        /\ Frames(cpu) # <<>> /\ Head(Frames(cpu)) = Context(cpu')
        /\ Tail(Frames(cpu)) = Frames(cpu')
    BY <1>4, OneMoreFrame DEF Returns
  <2>2. Saved!Resume
    BY <2>1 DEF Saved!Resume, Context
  <2> QED BY <2>2 DEF Saved!Next
<1>5. CASE \E pc \in Pcs : Enters(cpu, cpu', [pc |-> pc, sr |-> cpu.sr])
                           /\ UserSp(cpu') = UserSp(cpu)
  <2>1. PICK pc \in Pcs : Enters(cpu, cpu', [pc |-> pc, sr |-> cpu.sr])
                          /\ UserSp(cpu') = UserSp(cpu)
    BY <1>5
  <2>2. [pc |-> pc, sr |-> cpu.sr] \in Saved!After(Context(cpu))
    <3>1. Context(cpu).sr = cpu.sr /\ cpu.sr \in Status
      BY <1>2, SoundTypes DEF Context
    <3> QED BY <3>1 DEF Saved!After
  <2>3. Saved!Suspend
    BY <2>1, <2>2, EntersSuspends
  <2> QED BY <2>3 DEF Saved!Next
<1>6. CASE \E d : Proceeds(cpu, d) /\ Enters(d, cpu', Context(d)) /\ UserSp(cpu') = UserSp(d)
  <2>1. PICK d : Proceeds(cpu, d) /\ Enters(d, cpu', Context(d)) /\ UserSp(cpu') = UserSp(d)
    BY <1>6
  <2>2. Context(d) \in Saved!After(Context(cpu))
    BY <2>1, ProceedsAfter
  <2>3. Enters(cpu, cpu', Context(d))
    BY <2>1 DEF Enters, Proceeds
  <2>4. UserSp(cpu') = UserSp(cpu) \/ Context(d) # Context(cpu)
    <3>1. Context(d).pc = d.pc /\ Context(cpu).pc = cpu.pc
      BY DEF Context
    <3> QED BY <2>1, <3>1 DEF Proceeds
  <2>5. Saved!Suspend
    BY <2>2, <2>3, <2>4, EntersSuspends
  <2> QED BY <2>5 DEF Saved!Next
<1>7. CASE /\ cpu.sr.s /\ cpu.sr.t
           /\ Frames(cpu) # <<>> /\ \E d : Returns(cpu, d) /\ Enters(d, cpu', Head(Frames(cpu)))
           /\ Frames(cpu') = Frames(cpu) /\ UserSp(cpu') = UserSp(cpu)
  <2>1. Saved!Enter(Head(Frames(cpu)))
    BY <1>7 DEF Saved!Enter, Enters
  <2>2. Saved!ResumeTraced
    BY <1>7, <2>1 DEF Saved!ResumeTraced
  <2> QED BY <2>2 DEF Saved!Next
<1> QED BY <1>1, <1>3, <1>4, <1>5, <1>6, <1>7 DEF Executes

\* Every step of the processor is a step of the contexts or a stutter.
LEMMA StepSaves ==
    ASSUME IInv, [Next]_vars
    PROVE  [Saved!Next]_(Saved!vars)
<1>1. Steady(cpu) /\ LevelTypes
  BY DEF IInv
<1>2. CASE AcceptInterrupt
  <2>1. Enters(cpu, cpu', Context(cpu)) /\ UserSp(cpu') = UserSp(cpu)
    BY <1>1, <1>2, InterruptEnters
  <2>2. Saved!Suspend
    BY <2>1, EntersSuspends
  <2> QED BY <2>2 DEF Saved!Next
<1>3. CASE Instruction
  BY <1>1, <1>3, InstructionSaves
<1>4. CASE Reset
  <2>1. cpu' = ResetCpu
    BY <1>4 DEF Reset
  <2>2. /\ Context(cpu') = [pc |-> ResetPc, sr |-> ResetStatus]
        /\ Frames(cpu') = <<>> /\ UserSp(cpu') \in UserPointers
    BY <2>1, ResetSteady
  <2>3. Saved!Reset
    BY <2>2 DEF Saved!Reset, Saved!Initial, Context, ResetStatus
  <2> QED BY <2>3 DEF Saved!Next
<1>5. CASE (\E level \in Levels : SetInterruptLevel(level)) \/ UNCHANGED vars
  <2>1. UNCHANGED cpu
    BY <1>5 DEF SetInterruptLevel, vars
  <2> QED BY <2>1 DEF Saved!vars
<1> QED BY <1>2, <1>3, <1>4, <1>5 DEF Next, Step

\* The switched stack pointers and the frames in memory keep the promise of Contexts:
\* what an exception suspends is resumed exactly as it was, the last first, and no
\* handler changes the stack pointer of user mode (exception(), setStatusRegister(),
\* RTE).
THEOREM ImplementsContexts == Spec => SavesContexts
<1>1. Init => Saved!Init
  <2> SUFFICES ASSUME Init PROVE Saved!Init
    OBVIOUS
  <2>1. /\ Context(cpu) = [pc |-> ResetPc, sr |-> ResetStatus]
        /\ Frames(cpu) = <<>> /\ UserSp(cpu) \in UserPointers
    BY ResetSteady DEF Init
  <2> QED BY <2>1 DEF Saved!Init, Saved!Initial, Context, ResetStatus
<1>2. IInv /\ [Next]_vars => [Saved!Next]_(Saved!vars)
  BY StepSaves
<1> QED BY <1>1, <1>2, InvariantHolds, PTL DEF Spec, SavesContexts, Saved!Spec
=============================================================================
