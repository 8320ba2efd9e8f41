--------------------------- MODULE LibraryProofs ---------------------------
(***************************************************************************)
(* malloc's blocks never overlap, vprintfmt never reads behind a format    *)
(* and prints what the standard says, the CLIC driver's levels land in     *)
(* their field, and the trim search ends where it should: for every heap,  *)
(* every format, every width of the CLIC's registers and every oscillator. *)
(***************************************************************************)
EXTENDS Library, FormatSpec, Induction, SequenceTheorems, TLAPS

-----------------------------------------------------------------------------
(* The heap *)

HeapInv == TypeOK /\ BlocksDisjoint

\* The base and the size of a block are numbers.
LEMMA BlockType == ASSUME NEW r \in Blocks PROVE r.base \in Nat /\ r.size \in Nat
<1>1. r.base \in End .. HeapEnd /\ r.size \in Requests
  BY DEF Blocks
<1>2. r.base \in Nat
  BY <1>1, HeapAssumption
<1>3. \A sz \in Requests : sz \in Nat
  BY HeapAssumption
<1> QED
  BY <1>1, <1>2, <1>3

\* sbrk grants only what leaves the break in the heap, whichever way the sum
\* wraps; a size the heap can hold at all does not wrap.
LEMMA GrantedFits ==
  ASSUME TypeOK, NEW sz \in Requests, ~SbrkFails(sz)
  PROVE  /\ sz \in Nat
         /\ BreakPlus(sz) \in End .. HeapEnd
         /\ sz <= HeapEnd - End => BreakPlus(sz) = curbrk + sz
<1>1. sz \in Nat /\ curbrk \in Nat /\ End <= curbrk /\ curbrk <= HeapEnd
  BY HeapAssumption DEF TypeOK
<1>2. BreakPlus(sz) \in Int
  BY <1>1, HeapAssumption DEF BreakPlus
<1>3. BreakPlus(sz) \in End .. HeapEnd
  BY <1>2, HeapAssumption DEF SbrkFails
<1>4. ASSUME sz <= HeapEnd - End PROVE curbrk + sz < AddrMod
  <2>1. CASE curbrk + sz < AddrMod
    BY <2>1
  <2>2. CASE ~(curbrk + sz < AddrMod)
    \* The break would end below _end.
    <3>1. BreakPlus(sz) = curbrk + sz - AddrMod
      BY <2>2 DEF BreakPlus
    <3>2. curbrk + sz - AddrMod < End
      BY <1>1, <1>4, HeapAssumption
    <3> QED
      BY <1>1, <1>3, <3>1, <3>2, HeapAssumption
  <2> QED
    BY <2>1, <2>2
<1> QED
  BY <1>1, <1>3, <1>4 DEF BreakPlus

\* malloc keeps the break in the heap, and the blocks apart until it grants
\* one larger than the heap.
LEMMA MallocStep == ASSUME HeapInv, NEW sz \in Requests, Malloc(sz) PROVE HeapInv'
<1> USE DEF HeapInv
<1>0. sz \in Nat
  BY HeapAssumption
<1>1. CASE SbrkFails(sz)
  <2>1. UNCHANGED <<curbrk, blocks>> /\ res' = NULL /\ asked' = sz
    BY <1>1 DEF Malloc
  <2> QED
    BY <1>0, <2>1 DEF TypeOK, BlocksDisjoint, GrantedTooMuch
<1>2. CASE ~SbrkFails(sz)
  <2> DEFINE b == [base |-> curbrk, size |-> sz]
  <2>1. /\ curbrk' = BreakPlus(sz) /\ curbrk' \in End .. HeapEnd
        /\ sz <= HeapEnd - End => curbrk' = curbrk + sz
        /\ res' = curbrk /\ asked' = sz
        /\ blocks' = Append(blocks, b)
    BY <1>2, GrantedFits DEF Malloc
  <2>2. /\ curbrk \in Nat /\ End \in Nat /\ HeapEnd \in Nat
        /\ End <= curbrk /\ curbrk <= HeapEnd
        /\ blocks \in Seq(Blocks) /\ b \in Blocks
    BY HeapAssumption DEF TypeOK, Blocks
  <2>3. /\ blocks' \in Seq(Blocks)
        /\ Len(blocks) \in Nat
        /\ Len(blocks') = Len(blocks) + 1
        /\ \A i \in 1 .. Len(blocks) : blocks'[i] = blocks[i]
        /\ blocks'[Len(blocks) + 1] = b
    BY <2>1, <2>2, AppendProperties, LenProperties
  <2>4. TypeOK'
    BY <1>0, <2>1, <2>2, <2>3 DEF TypeOK
  <2>5. SUFFICES ASSUME ~GrantedTooMuch'
                 PROVE  /\ \A i \in 1 .. Len(blocks') : blocks'[i].base + blocks'[i].size <= curbrk'
                        /\ \A i, j \in 1 .. Len(blocks') :
                             i < j => blocks'[i].base + blocks'[i].size <= blocks'[j].base
    BY <2>4 DEF BlocksDisjoint
  <2>6. ASSUME NEW i \in 1 .. Len(blocks)
        PROVE  /\ i \in 1 .. Len(blocks')
               /\ blocks[i].base \in Nat /\ blocks[i].size \in Nat
               /\ ~(blocks[i].size > HeapEnd - End)
    <3>1. blocks[i] \in Blocks
      BY <2>2, ElementOfSeq
    <3>2. i \in 1 .. Len(blocks')
      BY <2>3
    <3>3. ~(blocks'[i].size > HeapEnd - End)
      BY <2>5, <3>2 DEF GrantedTooMuch
    <3> QED
      BY <2>3, <3>1, <3>2, <3>3, BlockType
  <2>7. ~GrantedTooMuch
    BY <2>6 DEF GrantedTooMuch
  <2>8. sz <= HeapEnd - End
    <3>1. Len(blocks) + 1 \in 1 .. Len(blocks')
      BY <2>3
    <3>2. ~(b.size > HeapEnd - End)
      BY <2>3, <2>5, <3>1 DEF GrantedTooMuch
    <3> QED
      BY <1>0, <2>2, <3>2
  <2>9. ASSUME NEW i \in 1 .. Len(blocks)
        PROVE  blocks[i].base + blocks[i].size <= curbrk
    BY <2>7 DEF BlocksDisjoint
  <2>10. ASSUME NEW i \in 1 .. Len(blocks')
         PROVE  blocks'[i].base + blocks'[i].size <= curbrk'
    <3>1. CASE i = Len(blocks) + 1
      BY <1>0, <2>1, <2>2, <2>3, <2>8, <3>1
    <3>2. CASE i \in 1 .. Len(blocks)
      BY <1>0, <2>1, <2>2, <2>3, <2>6, <2>8, <2>9, <3>2
    <3> QED
      BY <2>3, <3>1, <3>2
  <2>11. ASSUME NEW i \in 1 .. Len(blocks'), NEW j \in 1 .. Len(blocks'), i < j
         PROVE  blocks'[i].base + blocks'[i].size <= blocks'[j].base
    <3>1. i \in 1 .. Len(blocks) /\ blocks'[i] = blocks[i]
      BY <2>3, <2>11
    <3>2. CASE j = Len(blocks) + 1
      BY <2>3, <2>9, <3>1, <3>2
    <3>3. CASE j \in 1 .. Len(blocks)
      BY <2>3, <2>7, <2>11, <3>1, <3>3 DEF BlocksDisjoint
    <3> QED
      BY <2>3, <3>2, <3>3
  <2> QED
    BY <2>10, <2>11
<1> QED
  BY <1>1, <1>2

\* Types and disjointness are inductive together.
THEOREM HeapInductive == Spec => []HeapInv
<1>1. Init => HeapInv
  BY EmptySeq, HeapAssumption DEF Init, HeapInv, TypeOK, BlocksDisjoint, GrantedTooMuch, NULL
<1>2. HeapInv /\ [Next]_vars => HeapInv'
  BY MallocStep DEF Next, vars, HeapInv, TypeOK, BlocksDisjoint, GrantedTooMuch
<1> QED
  BY <1>1, <1>2, PTL DEF Spec

\* The break and the blocks stay in the heap.
THEOREM HeapTypeCorrect == Spec => []TypeOK
<1>1. HeapInv => TypeOK
  BY DEF HeapInv
<1> QED
  BY <1>1, HeapInductive, PTL

\* Whatever sizes are asked for, the blocks malloc has returned never overlap,
\* nor reach past the break, until it grants one larger than the whole heap,
\* which it does for a size that is a small negative number.
THEOREM BlocksNeverOverlap == Spec => []BlocksDisjoint
<1>1. HeapInv => BlocksDisjoint
  BY DEF HeapInv
<1> QED
  BY <1>1, HeapInductive, PTL

\* malloc returns NULL only for requests larger than what is left.
THEOREM RefusalsJustified == Spec => RefusesOnlyTooLarge
<1>1. HeapInv /\ [Next]_vars => [res' = NULL => asked' > HeapEnd - curbrk]_vars
  <2> SUFFICES ASSUME HeapInv, NEW sz \in Requests, Malloc(sz), res' = NULL
               PROVE  asked' > HeapEnd - curbrk
    BY DEF Next
  <2>1. curbrk \in Nat /\ End <= curbrk /\ curbrk <= HeapEnd /\ sz \in Nat /\ curbrk # NULL
    BY HeapAssumption DEF HeapInv, TypeOK, NULL
  <2>2. SbrkFails(sz) /\ asked' = sz
    BY <2>1 DEF Malloc
  <2> QED
    BY <2>1, <2>2, HeapAssumption DEF SbrkFails, BreakPlus
<1> QED
  BY <1>1, HeapInductive, PTL DEF Spec, RefusesOnlyTooLarge

-----------------------------------------------------------------------------
(* printf *)

PrintfInv == print \in PrintCalls /\ FormatInBounds

\* A character of a number is no end of a format.
LEMMA DigitIsNotNul == "NUL" \notin DecimalChars /\ "%" # "NUL"
  BY DEF DecimalChars, DigitChars

\* A character that does not end the format has one behind it.
LEMMA OneMore ==
  ASSUME PrintfInv, Ch # "NUL"
  PROVE  fmt + 1 \in 1 .. Len(print.fmt)
<1>1. /\ print.fmt \in Seq(STRING)
      /\ print.fmt[Len(print.fmt)] = "NUL"
  BY PrintfAssumption DEF PrintfInv
<1>2. Len(print.fmt) \in Nat
  BY <1>1
<1>3. fmt # Len(print.fmt)
  BY <1>1 DEF Ch
<1> QED
  BY <1>2, <1>3 DEF PrintfInv, FormatInBounds

\* A call starts at a character.
LEMMA CallStartsInside ==
  ASSUME NEW c \in PrintCalls
  PROVE  1 \in 1 .. Len(c.fmt)
<1>1. c.fmt \in Seq(STRING) /\ c.fmt # <<>>
  BY PrintfAssumption
<1>2. Len(c.fmt) \in Nat /\ Len(c.fmt) # 0
  BY <1>1
<1> QED
  BY <1>2

\* A step of the switch reads one character.
LEMMA SwitchStaysInside ==
  ASSUME PrintfInv, NEW chs, Switch(chs), "NUL" \notin chs
  PROVE  PrintfInv'
<1>1. fmt + 1 \in 1 .. Len(print.fmt)
  BY OneMore DEF Switch
<1> QED
  BY <1>1 DEF Switch, PrintfInv, FormatInBounds

\* Every step of vprintfmt stays inside the format.
LEMMA PrintfStepInside ==
  ASSUME PrintfInv, [PrintfNext]_printfVars
  PROVE  PrintfInv'
<1>1. CASE UNCHANGED printfVars
  BY <1>1 DEF PrintfInv, FormatInBounds, printfVars
<1>2. CASE \E c \in PrintCalls : CallPrintf(c)
  BY <1>2, CallStartsInside DEF CallPrintf, PrintfInv, FormatInBounds
<1>3. CASE Literal
  BY <1>3, OneMore DEF Literal, conversion, PrintfInv, FormatInBounds
<1>4. CASE ReturnPrintf \/ WriteHex \/ LastDigit
  BY <1>4 DEF ReturnPrintf, WriteHex, LastDigit, conversion, PrintfInv, FormatInBounds
<1>5. CASE Percent
  BY <1>5, OneMore, DigitIsNotNul DEF Percent, PrintfInv, FormatInBounds
<1>6. CASE NextDigit
  BY <1>6, OneMore, DigitIsNotNul DEF NextDigit, PrintfInv, FormatInBounds
<1>7. CASE Unknown
  BY <1>7 DEF Unknown, conversion, PrintfInv, FormatInBounds
<1>8. CASE Flag
  BY <1>8, SwitchStaysInside DEF Flag
<1>9. CASE FirstDigit
  <2>1. "NUL" \notin DecimalChars \ {"0"}
    BY DigitIsNotNul
  <2> QED
    BY <1>9, <2>1, SwitchStaysInside DEF FirstDigit
<1>10. CASE Star \/ Dot \/ Ignored
  BY <1>10, SwitchStaysInside DEF Star, Dot, Ignored
<1>11. CASE Char \/ Str \/ Signed
  BY <1>11, SwitchStaysInside DEF Char, Str, Signed, Converts
<1>12. CASE Unsigned \/ NoArgument
  BY <1>12, SwitchStaysInside DEF Unsigned, NoArgument, Converts
<1> QED
  BY <1>1, <1>2, <1>3, <1>4, <1>5, <1>6, <1>7, <1>8, <1>9, <1>10, <1>11, <1>12
     DEF PrintfNext, PrintfStep

\* The pointer of vprintfmt never leaves the format, whatever its characters.
THEOREM PrintfReadsInside == PrintfSpec => []FormatInBounds
<1>1. PrintfInit => PrintfInv
  BY CallStartsInside DEF PrintfInit, PrintfInv, FormatInBounds
<1>2. PrintfInv /\ [PrintfNext]_printfVars => PrintfInv'
  BY PrintfStepInside
<1>3. PrintfInv => FormatInBounds
  BY DEF PrintfInv
<1> QED
  BY <1>1, <1>2, <1>3, PTL DEF PrintfSpec

-----------------------------------------------------------------------------
(* The CLIC driver *)

Setters == {"set_int_level", "set_int_priority"}

\* What the driver's calls keep: the widths, and the byte the program read
\* when nobody has written it since.
ClicInv ==
  /\ cliccfg \in SUBSET Bits /\ NlBits(cliccfg) <= ConfigBits
  /\ intcfg \in [ClicSources -> SUBSET Bits]
  /\ writing = None \/ (writing \in SourceCalls /\ writing.fn \in Setters)
  /\ current_intcfg \in SUBSET Bits
  /\ raced \in BOOLEAN
  /\ writing # None /\ ~raced => current_intcfg = intcfg[writing.src]

\* The width of the level field is a number.
LEMMA NlBitsIsNat == \A cfg : NlBits(cfg) \in 0 .. 7
  BY DEF NlBits

\* The two shifts put exactly the bits of the level asked for into the level
\* field; a call for a priority sets nothing.
LEMMA OrBytes ==
  ASSUME NlBits(cliccfg) <= ConfigBits, NEW c \in SourceCalls, c.fn \in Setters
  PROVE  /\ OrByte(c) \in SUBSET Bits
         /\ c.fn = "set_int_level" => OrByte(c) = LevelAsked(c)
         /\ c.fn = "set_int_priority" => OrByte(c) = {}
<1> DEFINE n == NlBits(cliccfg)
<1>1. n \in 0 .. 7 /\ n <= ConfigBits /\ ConfigBits \in 0 .. 8
  BY NlBitsIsNat, ClicAssumption
<1>2. c.val \in SUBSET (0 .. 7)
  BY DEF SourceCalls, Bits
<1> HIDE DEF n
<1>3. CASE c.fn = "set_int_level"
  <2>1. LevelByte(c.val) = ShiftLeft(ShiftRight(c.val, ConfigBits - n), (8 - ConfigBits) + (ConfigBits - n))
    BY DEF LevelByte, n
  <2>2. LevelAsked(c) = ShiftLeft(c.val, 8 - ConfigBits) \cap (8 - n) .. 7
    BY DEF LevelAsked, LevelField, n
  <2>3. LevelByte(c.val) \subseteq LevelAsked(c)
    BY <1>1, <1>2, <2>1, <2>2 DEF ShiftLeft, ShiftRight, Bits
  <2>4. LevelAsked(c) \subseteq LevelByte(c.val)
    <3> SUFFICES ASSUME NEW x \in LevelAsked(c) PROVE x \in LevelByte(c.val)
      OBVIOUS
    <3>1. PICK b \in c.val : x = b + (8 - ConfigBits)
      BY <2>2 DEF ShiftLeft
    <3>2. x \in 0 .. 7 /\ x \in (8 - n) .. 7
      BY <2>2 DEF ShiftLeft, Bits
    <3> DEFINE k == ConfigBits
    <3>3. b - (k - n) \in 0 .. 7
      <4>1. b \in 0 .. 7 /\ n \in 0 .. 7 /\ k \in 0 .. 8 /\ n <= k
        BY <1>1, <1>2
      <4>2. x = b + (8 - k) /\ x \in (8 - n) .. 7
        BY <3>1, <3>2
      <4> HIDE DEF k
      <4>3. b + (8 - k) \in (8 - n) .. 7
        BY <4>2
      <4>4. b + (8 - k) >= 8 - n
        BY <4>1, <4>3
      <4> QED
        BY <4>1, <4>4
    <3>4. b - (ConfigBits - n) \in ShiftRight(c.val, ConfigBits - n)
      BY <3>1, <3>3 DEF ShiftRight, Bits
    <3>5. x = (b - (ConfigBits - n)) + ((8 - ConfigBits) + (ConfigBits - n))
      BY <1>1, <1>2, <3>1
    <3> QED
      BY <2>1, <3>2, <3>4, <3>5 DEF ShiftLeft, Bits
  <2> QED
    BY <1>3, <2>1, <2>3, <2>4 DEF OrByte, ShiftLeft
<1>4. CASE c.fn = "set_int_priority"
  <2>1. ShiftRight(c.val, 8 - 0) = {}
    BY <1>2 DEF ShiftRight, Bits
  <2>2. PriorityByte(c.val) = {}
    BY <2>1 DEF PriorityByte, ShiftLeft
  <2> QED
    BY <1>4, <2>2 DEF OrByte
<1> QED
  BY <1>3, <1>4 DEF Setters

\* A level is read back from the place it is written to.
LEMMA LevelReadsBack ==
  ASSUME NlBits(cliccfg) <= ConfigBits, NEW w \in SUBSET Bits
  PROVE  ShiftRight(ShiftRight(w, 8 - ConfigBits), ConfigBits - NlBits(cliccfg))
           = { b \in Bits : b + 8 - NlBits(cliccfg) \in w }
<1> DEFINE n == NlBits(cliccfg)
<1>1. n \in 0 .. 7 /\ n <= ConfigBits /\ ConfigBits \in 0 .. 8
  BY NlBitsIsNat, ClicAssumption
<1>2. w \in SUBSET (0 .. 7)
  BY DEF Bits
<1> HIDE DEF n
<1>4. ASSUME NEW x \in ShiftRight(ShiftRight(w, 8 - ConfigBits), ConfigBits - n)
      PROVE  x \in 0 .. 7 /\ x + 8 - n \in w
  <2>1. PICK b \in ShiftRight(w, 8 - ConfigBits) : x = b - (ConfigBits - n) /\ x \in 0 .. 7
    BY <1>4 DEF ShiftRight, Bits
  <2>2. PICK y \in w : b = y - (8 - ConfigBits)
    BY <2>1 DEF ShiftRight, Bits
  <2>3. x + 8 - n = y
    BY <1>1, <1>2, <2>1, <2>2
  <2> QED
    BY <2>1, <2>2, <2>3
<1>5. ASSUME NEW x \in 0 .. 7, x + 8 - n \in w
      PROVE  x \in ShiftRight(ShiftRight(w, 8 - ConfigBits), ConfigBits - n)
  <2> DEFINE b == (x + 8 - n) - (8 - ConfigBits)
  <2>1. b \in 0 .. 7 /\ x = b - (ConfigBits - n)
    BY <1>1, <1>2, <1>5
  <2>2. b \in ShiftRight(w, 8 - ConfigBits)
    BY <1>5, <2>1 DEF ShiftRight, Bits
  <2> HIDE DEF b
  <2> QED
    BY <2>1, <2>2 DEF ShiftRight, Bits
<1>6. ShiftRight(ShiftRight(w, 8 - ConfigBits), ConfigBits - n) = { b \in 0 .. 7 : b + 8 - n \in w }
  BY <1>4, <1>5 DEF ShiftRight, Bits
<1> QED
  BY <1>6 DEF n, Bits

\* What the calls of the program and of the handler are.
LEMMA KnownCalls ==
  /\ \A c \in ClicCalls \cup HandlerClicCalls :
       c.fn \in Setters \cup {"set_intcfg"} =>
         c \in SourceCalls /\ c.src \in ClicSources /\ c.val \in SUBSET Bits
  /\ \A c \in ClicCalls :
       c.fn = "set_cliccfg" => c.val \in SUBSET Bits /\ NlBits(c.val) <= ConfigBits
  /\ \A c \in HandlerClicCalls : c.fn \notin {"init", "set_cliccfg"}
  /\ \A c \in SourceCalls : c.fn \in Setters => c # None
<1>1. \A c \in SourceCalls : c.src \in ClicSources /\ c.val \in SUBSET Bits
  BY DEF SourceCalls
<1>2. \A c \in [fn : {"init", "set_cliccfg"}, val : SUBSET Bits] :
        c.val \in SUBSET Bits /\ c.fn \notin Setters \cup {"set_intcfg"}
  BY DEF Setters
<1>3. \A c \in SourceCalls : c.fn \notin {"init", "set_cliccfg"}
  BY DEF SourceCalls
<1>4. \A c \in SourceCalls : c.fn \in Setters => c # None
  BY DEF Setters, None
<1> QED
  BY <1>1, <1>2, <1>3, <1>4, ClicAssumption

\* A call that writes one register keeps what the program holds of the
\* others.
LEMMA DirectKeeps ==
  ASSUME ClicInv, NEW c \in ClicCalls \cup HandlerClicCalls, DirectCall(c),
         UNCHANGED <<current_intcfg, writing>>
  PROVE  ClicInv'
<1>1. CASE ClicInitialise(c)
  <2>1. NlBits({}) = 0 /\ 0 <= ConfigBits
    BY ClicAssumption DEF NlBits
  <2> QED
    BY <1>1, <2>1 DEF ClicInitialise, ClicInv
<1>2. CASE SetCliccfg(c)
  <2>1. c.val \in SUBSET Bits /\ NlBits(c.val) <= ConfigBits
    BY <1>2, KnownCalls DEF SetCliccfg
  <2> QED
    BY <1>2, <2>1 DEF SetCliccfg, ClicInv
<1>3. CASE InstallHandler(c) \/ SetEnable(c) \/ SetPending(c)
  BY <1>3 DEF InstallHandler, SetEnable, SetPending, ClicInv
<1>4. CASE SetIntcfg(c)
  <2>1. c.src \in ClicSources /\ c.val \in SUBSET Bits
    BY <1>4, KnownCalls DEF SetIntcfg
  <2>2. /\ intcfg' = [intcfg EXCEPT ![c.src] = c.val]
        /\ raced' = (raced \/ Races(c.src))
        /\ cliccfg' = cliccfg
    BY <1>4 DEF SetIntcfg
  <2>3. intcfg' \in [ClicSources -> SUBSET Bits] /\ raced' \in BOOLEAN
    BY <2>1, <2>2 DEF ClicInv, Races
  <2>4. writing # None => writing.src \in ClicSources
    BY DEF ClicInv, SourceCalls
  <2>5. writing # None /\ ~raced' => current_intcfg = intcfg'[writing.src]
    BY <2>2, <2>4 DEF ClicInv, Races
  <2> QED
    BY <2>2, <2>3, <2>5 DEF ClicInv
<1> QED
  BY <1>1, <1>2, <1>3, <1>4 DEF DirectCall

\* Every step of the program and of the handler.
LEMMA ClicStepKeeps ==
  ASSUME ClicInv, [ClicNext]_clicVars
  PROVE  ClicInv'
<1>1. CASE UNCHANGED clicVars
  BY <1>1 DEF ClicInv, clicVars
<1>2. ASSUME NEW c \in ClicCalls, ClicCall(c)
      PROVE  ClicInv'
  BY <1>2, DirectKeeps DEF ClicCall
<1>3. ASSUME NEW c \in ClicCalls, ReadIntcfg(c)
      PROVE  ClicInv'
  <2>1. c \in SourceCalls /\ c.src \in ClicSources /\ c.fn \in Setters
    BY <1>3, KnownCalls DEF ReadIntcfg, Setters
  <2>2. current_intcfg' = intcfg[c.src] /\ writing' = c /\ raced' = FALSE /\ UNCHANGED <<intcfg, cliccfg>>
    BY <1>3 DEF ReadIntcfg, clicRegs
  <2>3. intcfg[c.src] \in SUBSET Bits
    BY <2>1 DEF ClicInv
  <2> QED
    BY <2>1, <2>2, <2>3 DEF ClicInv
<1>4. CASE WriteIntcfg
  <2>1. writing \in SourceCalls /\ writing.fn \in Setters
    BY <1>4 DEF WriteIntcfg, ClicInv
  <2>2. OrByte(writing) \in SUBSET Bits
    BY <2>1, OrBytes DEF ClicInv
  <2>3. intcfg' = [intcfg EXCEPT ![writing.src] = current_intcfg \cup OrByte(writing)]
        /\ writing' = None /\ UNCHANGED <<cliccfg, current_intcfg, raced>>
    BY <1>4 DEF WriteIntcfg
  <2>4. current_intcfg \cup OrByte(writing) \in SUBSET Bits
    BY <2>2 DEF ClicInv
  <2> QED
    BY <2>3, <2>4 DEF ClicInv
<1>5. ASSUME NEW c \in HandlerClicCalls, HandlerCall(c)
      PROVE  ClicInv'
  <2>1. CASE DirectCall(c)
    BY <1>5, <2>1, DirectKeeps DEF HandlerCall
  <2>2. CASE ~DirectCall(c)
    <3>1. c.fn \in Setters
      BY <1>5, <2>2 DEF HandlerCall, Setters
    <3>2. c \in SourceCalls /\ c.src \in ClicSources
      BY <3>1, KnownCalls
    <3>3. intcfg[c.src] \cup OrByte(c) \in SUBSET Bits
      BY <3>1, <3>2, OrBytes DEF ClicInv
    <3>4. /\ intcfg' = [intcfg EXCEPT ![c.src] = intcfg[c.src] \cup OrByte(c)]
          /\ raced' = (raced \/ Races(c.src))
          /\ writing # None
          /\ UNCHANGED <<cliccfg, current_intcfg, writing>>
      BY <1>5, <2>2 DEF HandlerCall
    <3>5. intcfg' \in [ClicSources -> SUBSET Bits] /\ raced' \in BOOLEAN
      BY <3>3, <3>4 DEF ClicInv, Races
    <3>6. writing.src \in ClicSources
      BY <3>4 DEF ClicInv, SourceCalls
    <3>7. ~raced' => current_intcfg = intcfg'[writing.src]
      BY <3>4, <3>6 DEF ClicInv, Races
    <3> QED
      BY <3>4, <3>5, <3>7 DEF ClicInv
  <2> QED
    BY <2>1, <2>2
<1> QED
  BY <1>1, <1>2, <1>3, <1>4, <1>5 DEF ClicNext

\* The program's calls for a level or a priority end with its write.
LEMMA OnlyWriteCompletes ==
  ASSUME ClicInv, [ClicNext]_clicVars, NEW fn \in Setters, Completes(fn)
  PROVE  /\ WriteIntcfg
         /\ writing \in SourceCalls /\ writing.fn = fn /\ writing.src \in ClicSources
<1>1. writing.fn \in Setters /\ None.fn \notin Setters /\ writing # None
  BY DEF Completes, Setters, None
<1>2. writing' # writing
  BY <1>1 DEF Completes
<1>3. WriteIntcfg
  BY <1>1, <1>2 DEF ClicNext, clicVars, ClicCall, ReadIntcfg, HandlerCall
<1> QED
  BY <1>1, <1>3 DEF Completes, ClicInv, SourceCalls

\* What the write of a call leaves in its register.
LEMMA WritePlaces ==
  ASSUME ClicInv, [ClicNext]_clicVars, NEW fn \in Setters, Completes(fn)
  PROVE  /\ intcfg'[writing.src] = current_intcfg \cup OrByte(writing)
         /\ ~raced => current_intcfg = intcfg[writing.src]
         /\ UNCHANGED cliccfg
<1>1. WriteIntcfg /\ writing.src \in ClicSources
  BY OnlyWriteCompletes
<1> QED
  BY <1>1 DEF WriteIntcfg, ClicInv

\* A level call leaves its level in the field, where it reads back.
LEMMA LevelArrives ==
  ASSUME ClicInv, ClicInv', [ClicNext]_clicVars, Completes("set_int_level"),
         NEW s \in ClicSources, s = writing.src, NEW b \in LevelAsked(writing)
  PROVE  b - (8 - NlBits(cliccfg)) \in GetLevel(s)'
<1> DEFINE w == intcfg'[s]
           x == b - (8 - NlBits(cliccfg))
<1>1. "set_int_level" \in Setters
  BY DEF Setters
<1>2. writing \in SourceCalls /\ writing.fn = "set_int_level" /\ UNCHANGED cliccfg
  BY <1>1, OnlyWriteCompletes, WritePlaces
<1>3. OrByte(writing) = LevelAsked(writing) /\ NlBits(cliccfg) <= ConfigBits
  BY <1>1, <1>2, OrBytes DEF ClicInv
<1>4. w \in SUBSET Bits /\ b \in w
  BY <1>1, <1>3, WritePlaces DEF ClicInv
<1>5. GetLevel(s)' = ShiftRight(ShiftRight(w, 8 - ConfigBits), ConfigBits - NlBits(cliccfg))
  BY <1>2 DEF GetLevel
<1>6. NlBits(cliccfg) \in 0 .. 7 /\ b \in (8 - NlBits(cliccfg)) .. 7
  BY NlBitsIsNat DEF LevelAsked, LevelField
<1>7. x \in Bits /\ x + 8 - NlBits(cliccfg) = b
  BY <1>6 DEF Bits
<1> HIDE DEF w, x
<1>8. GetLevel(s)' = { y \in Bits : y + 8 - NlBits(cliccfg) \in w }
  BY <1>3, <1>4, <1>5, LevelReadsBack
<1>9. x \in GetLevel(s)'
  BY <1>4, <1>7, <1>8
<1> QED
  BY <1>9 DEF x

\* A call for a level or a priority leaves the bits of the other one alone
\* when no handler has written the register since it was read.
LEMMA OtherFieldKept ==
  ASSUME ClicInv, [ClicNext]_clicVars, ~raced
  PROVE  /\ Completes("set_int_level") =>
              intcfg'[writing.src] \ LevelField = intcfg[writing.src] \ LevelField
         /\ Completes("set_int_priority") =>
              intcfg'[writing.src] \cap LevelField = intcfg[writing.src] \cap LevelField
<1>1. "set_int_level" \in Setters /\ "set_int_priority" \in Setters
  BY DEF Setters
<1>2. NlBits(cliccfg) <= ConfigBits
  BY DEF ClicInv
<1>3. ASSUME Completes("set_int_level")
      PROVE  intcfg'[writing.src] \ LevelField = intcfg[writing.src] \ LevelField
  <2>1. intcfg'[writing.src] = intcfg[writing.src] \cup LevelAsked(writing)
    BY <1>1, <1>2, <1>3, OnlyWriteCompletes, WritePlaces, OrBytes
  <2> QED
    BY <2>1 DEF LevelAsked
<1>4. ASSUME Completes("set_int_priority")
      PROVE  intcfg'[writing.src] \cap LevelField = intcfg[writing.src] \cap LevelField
  BY <1>1, <1>2, <1>4, OnlyWriteCompletes, WritePlaces, OrBytes
<1> QED
  BY <1>3, <1>4

\* For every width of the fields and whatever the handler calls in between, a
\* level that has been set reads back, and neither call disturbs the other's
\* bits in a register the handler has not written.
THEOREM LevelsArePlaced == ClicSpec => LevelPlaced
<1>1. ClicInit => ClicInv
  <2>1. NlBits({}) = 0 /\ 0 <= ConfigBits
    BY ClicAssumption DEF NlBits
  <2> QED
    BY <2>1 DEF ClicInit, ClicInv
<1>2. ClicInv /\ [ClicNext]_clicVars => ClicInv'
  BY ClicStepKeeps
<1>3. ClicInv /\ ClicInv' /\ [ClicNext]_clicVars =>
        [ /\ \A s \in ClicSources : Completes("set_int_level") /\ s = writing.src =>
               \A b \in LevelAsked(writing) : b - (8 - NlBits(cliccfg)) \in GetLevel(s)'
          /\ Completes("set_int_level") /\ ~raced =>
               intcfg'[writing.src] \ LevelField = intcfg[writing.src] \ LevelField
          /\ Completes("set_int_priority") /\ ~raced =>
               intcfg'[writing.src] \cap LevelField = intcfg[writing.src] \cap LevelField ]_clicVars
  BY LevelArrives, OtherFieldKept
<1> QED
  BY <1>1, <1>2, <1>3, PTL DEF ClicSpec, LevelPlaced

-----------------------------------------------------------------------------
(* The trim search *)

\* A measurement of the oscillator with trim t.
Near(f, t) == RoscFreq[t] - MeasureError <= f /\ f <= RoscFreq[t] + MeasureError

\* While it searches, the code holds the measurement of this trim and that
\* of the trim below, which was too low.
SearchInv ==
  step = "search" =>
    /\ hfrosctrim \in Trims /\ prev_trim \in Trims
    /\ cpu_freq \in Nat /\ prev_freq \in Nat
    /\ Near(cpu_freq, hfrosctrim) /\ Near(prev_freq, prev_trim)
    /\ IF hfrosctrim = 0 THEN prev_trim = 0 /\ prev_freq = cpu_freq
                         ELSE prev_trim = hfrosctrim - 1 /\ prev_freq < Desired

\* The search ends as asked.
TrimInv ==
  /\ request \in TrimCalls
  /\ SearchInv
  /\ TrimAsAsked

\* TrimAsAsked for a frequency d, a target and a trim.
Off(d, t) == IF RoscFreq[t] >= d THEN RoscFreq[t] - d ELSE d - RoscFreq[t]

AsAsked(d, target, t) ==
  /\ RoscFreq[0] + MeasureError < d /\ d + MeasureError <= RoscFreq[MaxTrim] =>
       CASE target = "UNDERSHOOT" ->
              /\ RoscFreq[t] < d + MeasureError
              /\ t < MaxTrim /\ RoscFreq[t + 1] + MeasureError >= d
         [] target = "OVERSHOOT" ->
              /\ RoscFreq[t] + MeasureError >= d
              /\ t > 0 /\ RoscFreq[t - 1] < d + MeasureError
         [] target = "CLOSEST" ->
              \A u \in Trims : Off(d, t) <= Off(d, u) + 2 * MeasureError
  /\ d + MeasureError < RoscFreq[0] => t = 0
  /\ RoscFreq[MaxTrim] + MeasureError < d => t >= MaxTrim - 1

\* The frequency the PLL has to be fed with is a number.
LEMMA DesiredIsNat == request \in TrimCalls => Desired \in Nat /\ request.target \in Targets
<1> SUFFICES ASSUME request \in TrimCalls PROVE Desired \in Nat /\ request.target \in Targets
  OBVIOUS
<1>1. request \in [f_cpu : Nat, target : Targets]
  BY TrimAssumption
<1>2. request.f_cpu \in Nat
  BY <1>1
<1> QED
  BY <1>1, <1>2 DEF Desired

\* The trim chosen at the end of a search, for every oscillator.
LEMMA EndIsAsAsked ==
  ASSUME NEW d \in Nat, NEW target \in Targets,
         NEW h \in Trims, NEW p \in Trims, NEW c \in Nat, NEW q \in Nat,
         Near(c, h), Near(q, p),
         IF h = 0 THEN p = 0 /\ q = c ELSE p = h - 1 /\ q < d,
         ~(c < d /\ h < MaxTrim),
         NEW t,
         t = IF \/ q > d \/ c < d \/ target = "UNDERSHOOT"
                \/ target = "CLOSEST" /\ d - q < c - d
               THEN p ELSE h
  PROVE  AsAsked(d, target, t)
<1> DEFINE R == RoscFreq
           E == MeasureError
           M == MaxTrim
<1>1. /\ M \in Nat /\ M # 0
      /\ R[0] \in Nat /\ R[M] \in Nat /\ R[h] \in Nat /\ R[p] \in Nat
      /\ E \in Nat
      /\ h \in 0 .. M /\ p \in 0 .. M
  BY TrimAssumption DEF Trims
<1>2. /\ R[h] - E <= c /\ c <= R[h] + E
      /\ R[p] - E <= q /\ q <= R[p] + E
  BY DEF Near
<1>3. \A u, v \in 0 .. M : R[u] \in Nat /\ (u <= v => R[u] <= R[v])
  BY TrimAssumption DEF Trims
<1> HIDE DEF R, E, M
<1>4. ASSUME R[0] + E < d, d + E <= R[M]
      PROVE  h # 0 /\ c >= d /\ p = h - 1 /\ q < d
  <2>1. c >= d
    <3>1. ASSUME c < d PROVE FALSE
      <4>1. h = M
        BY <1>1, <3>1 DEF M
      <4> QED
        BY <1>1, <1>2, <1>4, <3>1, <4>1
    <3> QED
      BY <1>1, <3>1
  <2>2. h # 0
    <3>1. ASSUME h = 0 PROVE FALSE
      <4>1. q = c /\ p = 0
        BY <3>1
      <4> QED
        BY <1>1, <1>2, <1>4, <2>1, <3>1, <4>1
    <3> QED
      BY <3>1
  <2> QED
    BY <2>1, <2>2
<1>5. ASSUME R[0] + E < d, d + E <= R[M], target = "UNDERSHOOT"
      PROVE  R[t] < d + E /\ t < M /\ R[t + 1] + E >= d
  <2>1. t = p /\ t + 1 = h
    BY <1>1, <1>4, <1>5
  <2>2. R[t] = R[p] /\ R[t + 1] = R[h]
    BY <2>1
  <2>3. R[p] < d + E /\ R[h] + E >= d
    BY <1>1, <1>2, <1>4, <1>5
  <2> QED
    BY <1>1, <1>4, <1>5, <2>1, <2>2, <2>3
<1>6. ASSUME R[0] + E < d, d + E <= R[M], target = "OVERSHOOT"
      PROVE  R[t] + E >= d /\ t > 0 /\ R[t - 1] < d + E
  <2>1. ~(q > d) /\ ~(c < d)
    BY <1>1, <1>4, <1>6
  <2>2. t = h /\ t - 1 = p
    BY <1>1, <1>4, <1>6, <2>1
  <2> QED
    BY <1>1, <1>2, <1>4, <1>6, <2>2
<1>7. ASSUME R[0] + E < d, d + E <= R[M], target = "CLOSEST", NEW u \in 0 .. M
      PROVE  Off(d, t) <= Off(d, u) + 2 * E
  <2>1. ~(q > d) /\ ~(c < d) /\ h # 0 /\ p = h - 1
    BY <1>1, <1>4, <1>7
  <2>2. t = IF d - q < c - d THEN p ELSE h
    BY <1>7, <2>1
  <2>3. /\ R[u] \in Nat
        /\ u <= p => R[u] <= R[p]
        /\ u >= h => R[h] <= R[u]
    BY <1>1, <1>3
  <2>4. u <= p \/ u >= h
    BY <1>1, <2>1
  <2>5. /\ Off(d, u) = IF R[u] >= d THEN R[u] - d ELSE d - R[u]
        /\ Off(d, p) = IF R[p] >= d THEN R[p] - d ELSE d - R[p]
        /\ Off(d, h) = IF R[h] >= d THEN R[h] - d ELSE d - R[h]
    BY DEF Off, R
  <2>6. CASE d - q < c - d
    <3>1. t = p
      BY <2>2, <2>6
    <3> QED
      BY <1>1, <1>2, <2>1, <2>3, <2>4, <2>5, <2>6, <3>1
  <2>7. CASE ~(d - q < c - d)
    <3>1. t = h
      BY <2>2, <2>7
    <3> QED
      BY <1>1, <1>2, <2>1, <2>3, <2>4, <2>5, <2>7, <3>1
  <2> QED
    BY <2>6, <2>7
<1>8. ASSUME d + E < R[0]
      PROVE  t = 0
  <2>1. R[0] <= R[h] /\ R[0] <= R[p]
    BY <1>1, <1>3
  <2>2. c >= d /\ q > d
    BY <1>1, <1>2, <1>8, <2>1
  <2>3. p = 0
    BY <1>1, <2>2
  <2> QED
    BY <2>2, <2>3
<1>9. ASSUME R[M] + E < d
      PROVE  t >= M - 1
  <2>1. R[h] <= R[M]
    BY <1>1, <1>3
  <2>2. c < d
    BY <1>1, <1>2, <1>9, <2>1
  <2>3. h = M
    BY <1>1, <2>2 DEF M
  <2> QED
    BY <1>1, <2>2, <2>3
<1>10. target \in {"OVERSHOOT", "CLOSEST", "UNDERSHOOT"}
  BY DEF Targets
<1>11. R[0] + E < d /\ d + E <= R[M] =>
         CASE target = "UNDERSHOOT" -> R[t] < d + E /\ t < M /\ R[t + 1] + E >= d
           [] target = "OVERSHOOT" -> R[t] + E >= d /\ t > 0 /\ R[t - 1] < d + E
           [] target = "CLOSEST" -> \A u \in 0 .. M : Off(d, t) <= Off(d, u) + 2 * E
  BY <1>5, <1>6, <1>7, <1>10
<1> QED
  BY <1>8, <1>9, <1>11 DEF AsAsked, Trims, R, E, M

\* Every step of the search.
LEMMA TrimStepKeeps ==
  ASSUME TrimInv, [TrimNext]_trimVars
  PROVE  TrimInv'
<1>1. CASE UNCHANGED trimVars
  BY <1>1 DEF TrimInv, SearchInv, TrimAsAsked, Distance, Desired, trimVars
<1>2. ASSUME NEW c \in TrimCalls, BeginTrim(c)
      PROVE  TrimInv'
  <2>1. /\ request' = c /\ step' = "search"
        /\ hfrosctrim' = 0 /\ prev_trim' = 0 /\ prev_freq' = cpu_freq'
    BY <1>2 DEF BeginTrim, Try
  <2>2. cpu_freq' \in Nat /\ Near(cpu_freq', 0) /\ 0 \in Trims
    BY <1>2, TrimAssumption DEF BeginTrim, Try, Near, Trims
  <2>3. SearchInv'
    BY <2>1, <2>2 DEF SearchInv
  <2> QED
    BY <2>1, <2>3 DEF TrimInv, TrimAsAsked
<1>3. CASE NextTrim
  <2>1. /\ request' = request /\ step' = "search" /\ step = "search"
        /\ hfrosctrim' = hfrosctrim + 1 /\ prev_trim' = hfrosctrim /\ prev_freq' = cpu_freq
        /\ cpu_freq < Desired /\ hfrosctrim < MaxTrim
    BY <1>3 DEF NextTrim, Try
  <2>2. hfrosctrim \in Trims /\ cpu_freq \in Nat /\ Near(cpu_freq, hfrosctrim)
    BY <2>1 DEF TrimInv, SearchInv
  <2>3. hfrosctrim + 1 \in Trims /\ hfrosctrim + 1 # 0
    BY <2>1, <2>2, TrimAssumption DEF Trims
  <2>4. cpu_freq' \in Nat /\ Near(cpu_freq', hfrosctrim + 1)
    <3>1. RoscFreq[hfrosctrim + 1] \in Nat /\ MeasureError \in Nat
      BY <2>3, TrimAssumption
    <3> QED
      BY <1>3, <3>1 DEF NextTrim, Try, Near
  <2>5. Desired' = Desired
    BY <2>1 DEF Desired
  <2>6. SearchInv'
    BY <2>1, <2>2, <2>3, <2>4, <2>5, TrimAssumption DEF SearchInv, Trims, Near
  <2> QED
    BY <2>1, <2>6 DEF TrimInv, TrimAsAsked
<1>4. CASE EndTrim
  <2>1. /\ request' = request /\ step' = "done" /\ step = "search" /\ trim' = Chosen
        /\ ~(cpu_freq < Desired /\ hfrosctrim < MaxTrim)
    BY <1>4 DEF EndTrim
  <2>2. Desired \in Nat /\ request.target \in Targets
    BY DesiredIsNat DEF TrimInv
  <2>3. AsAsked(Desired, request.target, Chosen)
    BY <2>1, <2>2, EndIsAsAsked DEF TrimInv, SearchInv, Chosen
  <2>4. Desired' = Desired /\ request'.target = request.target
    BY <2>1 DEF Desired
  <2>5. AsAsked(Desired', request'.target, trim')
    BY <2>1, <2>3, <2>4
  <2>6. TrimAsAsked'
    BY <2>5 DEF TrimAsAsked, AsAsked, Off, Distance
  <2> QED
    BY <2>1, <2>6 DEF TrimInv, SearchInv
<1> QED
  BY <1>1, <1>2, <1>3, <1>4 DEF TrimNext

\* The trim search keeps its promise for every oscillator that a higher trim
\* does not slow down, every measuring error and every frequency.
THEOREM SearchEndsAsAsked == TrimSpec => []TrimAsAsked
<1>1. TrimInit => TrimInv
  BY DEF TrimInit, TrimInv, SearchInv, TrimAsAsked
<1>2. TrimInv /\ [TrimNext]_trimVars => TrimInv'
  BY TrimStepKeeps
<1>3. TrimInv => TrimAsAsked
  BY DEF TrimInv
<1> QED
  BY <1>1, <1>2, <1>3, PTL DEF TrimSpec

-----------------------------------------------------------------------------
(* Numerals *)

\* The digits of k in a base, given those of smaller numbers.
LastOf(k, base) == << DigitChars[(k % base) + 1] >>
DigitsWith(f, k, base) == (IF k < base THEN <<>> ELSE f[k \div base]) \o LastOf(k, base)

IsNumeral(f, base) == f = [k \in Nat |-> DigitsWith(f, k, base)]

\* The same up to a number.
UpTo(f, n, base) == f = [k \in 0 .. n |-> DigitsWith(f, k, base)]

Bases == {8, 10, 16}

\* Dividing by a base makes a number smaller.
LEMMA Quotient ==
  ASSUME NEW base \in Bases, NEW k \in Nat
  PROVE  /\ k \div base \in Nat /\ k % base \in 0 .. base - 1
         /\ k = base * (k \div base) + (k % base)
         /\ k >= base => k \div base < k /\ k \div base > 0
<1>1. base = 8 \/ base = 10 \/ base = 16
  BY DEF Bases
<1> QED
  BY <1>1

\* There are digits up to every number, and only one way to write them.
LEMMA DigitsUpTo ==
  ASSUME NEW base \in Bases
  PROVE  /\ \A n \in Nat : \E f : UpTo(f, n, base)
         /\ \A m, n \in Nat : \A f, g : UpTo(f, m, base) /\ UpTo(g, n, base) =>
              \A k \in Nat : k <= m /\ k <= n => f[k] = g[k]
<1> DEFINE T == { n \in Nat : \E f : UpTo(f, n, base) }
<1>1. 0 \in T
  <2>1. UpTo([k \in 0 .. 0 |-> LastOf(0, base)], 0, base)
    <3>1. 0 < base
      BY DEF Bases
    <3>2. <<>> \o LastOf(0, base) = LastOf(0, base)
      OBVIOUS
    <3> DEFINE f == [k \in 0 .. 0 |-> LastOf(0, base)]
    <3>3. \A k \in 0 .. 0 : DigitsWith(f, k, base) = LastOf(0, base)
      BY <3>1, <3>2 DEF DigitsWith, LastOf
    <3> QED
      BY <3>3 DEF UpTo
  <2> QED
    BY <2>1
<1>2. ASSUME NEW n \in Nat, n \in T PROVE n + 1 \in T
  <2>1. PICK f : UpTo(f, n, base)
    BY <1>2
  <2>2. \A k \in 0 .. n : f[k] = DigitsWith(f, k, base)
    BY <2>1 DEF UpTo
  <2> DEFINE g == [k \in 0 .. n + 1 |-> DigitsWith(f, k, base)]
  <2>3. ASSUME NEW k \in 0 .. n PROVE g[k] = f[k]
    BY <2>2
  <2>4. ASSUME NEW k \in 0 .. n + 1 PROVE g[k] = DigitsWith(g, k, base)
    <3>1. k >= base => k \div base \in 0 .. n
      BY Quotient DEF Bases
    <3>2. k >= base => g[k \div base] = f[k \div base]
      BY <2>3, <3>1
    <3>3. g[k] = DigitsWith(f, k, base)
      OBVIOUS
    <3>4. k >= base \/ k < base
      BY DEF Bases
    <3> HIDE DEF g
    <3> QED
      BY <3>2, <3>3, <3>4 DEF DigitsWith, Bases
  <2>5. UpTo(g, n + 1, base)
    <3>1. g = [k \in 0 .. n + 1 |-> g[k]]
      OBVIOUS
    <3> HIDE DEF g
    <3> QED
      BY <2>4, <3>1 DEF UpTo
  <2> HIDE DEF g
  <2> QED
    BY <2>5
<1>3. Nat \subseteq T
  <2> HIDE DEF T
  <2> QED
    BY <1>1, <1>2, SetInduction
<1>4. ASSUME NEW m \in Nat, NEW n \in Nat, NEW f, NEW g, UpTo(f, m, base), UpTo(g, n, base)
      PROVE  \A k \in Nat : k <= m /\ k <= n => f[k] = g[k]
  <2> DEFINE U == { k \in Nat : k <= m /\ k <= n => f[k] = g[k] }
  <2>1. ASSUME NEW k \in Nat, \A j \in Nat : j < k => j \in U PROVE k \in U
    <3> SUFFICES ASSUME k <= m, k <= n PROVE f[k] = g[k]
      OBVIOUS
    <3>1. f[k] = DigitsWith(f, k, base) /\ g[k] = DigitsWith(g, k, base)
      <4>1. k \in 0 .. m /\ k \in 0 .. n
        OBVIOUS
      <4> QED
        BY <1>4, <4>1 DEF UpTo
    <3>2. ~(k < base) => f[k \div base] = g[k \div base]
      <4> SUFFICES ASSUME ~(k < base) PROVE f[k \div base] = g[k \div base]
        OBVIOUS
      <4>1. k \div base \in Nat /\ k \div base < k
        BY Quotient DEF Bases
      <4> QED
        BY <2>1, <4>1
    <3> HIDE DEF U
    <3> QED
      BY <3>1, <3>2 DEF DigitsWith
  <2>2. Nat \subseteq U
    <3> HIDE DEF U
    <3> QED
      BY <2>1, StrongInduction
  <2> QED
    BY <2>2
<1> QED
  BY <1>3, <1>4

\* The recursive function of FormatSpec exists.
LEMMA NumeralExists == ASSUME NEW base \in Bases PROVE \E f : IsNumeral(f, base)
<1> DEFINE h(n) == CHOOSE f : UpTo(f, n, base)
           F == [n \in Nat |-> h(n)[n]]
<1>1. \A n \in Nat : UpTo(h(n), n, base)
  BY DigitsUpTo
<1>2. \A m, n \in Nat : \A k \in Nat : k <= m /\ k <= n => h(m)[k] = h(n)[k]
  <2> HIDE DEF h
  <2> QED
    BY <1>1, DigitsUpTo
<1>3. \A n \in Nat : F[n] = h(n)[n]
  OBVIOUS
<1>4. F = [n \in Nat |-> F[n]]
  OBVIOUS
<1> HIDE DEF h, F
<1>5. ASSUME NEW n \in Nat PROVE F[n] = DigitsWith(F, n, base)
  <2>1. h(n)[n] = DigitsWith(h(n), n, base)
    <3>1. n \in 0 .. n
      OBVIOUS
    <3> QED
      BY <1>1, <3>1 DEF UpTo
  <2>2. ~(n < base) => h(n)[n \div base] = F[n \div base]
    <3> SUFFICES ASSUME ~(n < base) PROVE h(n)[n \div base] = F[n \div base]
      OBVIOUS
    <3>1. n \div base \in Nat /\ n \div base < n
      BY Quotient DEF Bases
    <3> QED
      BY <1>2, <1>3, <3>1
  <2> QED
    BY <1>3, <2>1, <2>2 DEF DigitsWith
<1>6. IsNumeral(F, base)
  BY <1>4, <1>5 DEF IsNumeral
<1> QED
  BY <1>6

\* A numeral, digit by digit from behind.
LEMMA NumeralStep ==
  ASSUME NEW base \in Bases, NEW n \in Nat
  PROVE  Numeral(n, base) =
           (IF n < base THEN <<>> ELSE Numeral(n \div base, base)) \o LastOf(n, base)
<1> DEFINE num == CHOOSE f : IsNumeral(f, base)
<1>1. IsNumeral(num, base)
  BY NumeralExists
<1>2. \A k : Numeral(k, base) = num[k]
  BY DEF Numeral, IsNumeral, DigitsWith, LastOf, DigitChars
<1> HIDE DEF num
<1>3. num[n] = DigitsWith(num, n, base)
  BY <1>1 DEF IsNumeral
<1> QED
  BY <1>2, <1>3 DEF DigitsWith

\* The characters of formats and texts.  The provers do not know that a string
\* is a member of STRING; these are.
UsedChars ==
  { "0", "1", "2", "3", "4", "5", "6", "7", "8", "9", "a", "b", "c", "d", "e", "f",
    " ", "%", "-", "*", ".", "s", "u", "o", "x", "q", "NUL" }

Chars == STRING \cup UsedChars

\* The digits are characters.
LEMMA DigitCharsType == \A i \in 1 .. 16 : DigitChars[i] \in Chars
<1>1. /\ DigitChars[1] = "0" /\ DigitChars[2] = "1" /\ DigitChars[3] = "2" /\ DigitChars[4] = "3"
      /\ DigitChars[5] = "4" /\ DigitChars[6] = "5" /\ DigitChars[7] = "6" /\ DigitChars[8] = "7"
  BY DEF DigitChars
<1>2. /\ DigitChars[9] = "8" /\ DigitChars[10] = "9" /\ DigitChars[11] = "a" /\ DigitChars[12] = "b"
      /\ DigitChars[13] = "c" /\ DigitChars[14] = "d" /\ DigitChars[15] = "e" /\ DigitChars[16] = "f"
  BY DEF DigitChars
<1>3. \A i \in 1 .. 16 : i \in {1, 2, 3, 4, 5, 6, 7, 8} \/ i \in {9, 10, 11, 12, 13, 14, 15, 16}
  OBVIOUS
<1>4. \A i \in {1, 2, 3, 4, 5, 6, 7, 8} : DigitChars[i] \in UsedChars
  BY <1>1 DEF UsedChars
<1>5. \A i \in {9, 10, 11, 12, 13, 14, 15, 16} : DigitChars[i] \in UsedChars
  BY <1>2 DEF UsedChars
<1> QED
  BY <1>3, <1>4, <1>5 DEF Chars

\* A digit makes a sequence.
LEMMA LastOfType ==
  ASSUME NEW base \in Bases, NEW n \in Nat
  PROVE  /\ (n % base) + 1 \in 1 .. 16 /\ DigitChars[(n % base) + 1] \in Chars
         /\ LastOf(n, base) \in Seq(Chars) /\ Len(LastOf(n, base)) = 1
<1>1. (n % base) + 1 \in 1 .. 16
  BY Quotient DEF Bases
<1>2. DigitChars[(n % base) + 1] \in Chars
  BY <1>1, DigitCharsType
<1>3. \A c \in Chars : <<c>> \in Seq(Chars) /\ Len(<<c>>) = 1
  OBVIOUS
<1> QED
  BY <1>1, <1>2, <1>3 DEF LastOf

\* A numeral is a sequence of characters with at least one.
LEMMA NumeralType ==
  ASSUME NEW base \in Bases
  PROVE  \A n \in Nat : Numeral(n, base) \in Seq(Chars) /\ Len(Numeral(n, base)) > 0
<1> DEFINE T == { n \in Nat : Numeral(n, base) \in Seq(Chars) /\ Len(Numeral(n, base)) > 0 }
<1>1. ASSUME NEW n \in Nat, \A k \in Nat : k < n => k \in T PROVE n \in T
  <2>1. LastOf(n, base) \in Seq(Chars) /\ Len(LastOf(n, base)) = 1
    BY LastOfType
  <2> DEFINE u == IF n < base THEN <<>> ELSE Numeral(n \div base, base)
  <2>2. u \in Seq(Chars)
    <3>1. ~(n < base) => n \div base \in T
      BY <1>1, Quotient DEF Bases
    <3>2. <<>> \in Seq(Chars)
      BY EmptySeq
    <3> QED
      BY <3>1, <3>2
  <2>3. Numeral(n, base) = u \o LastOf(n, base)
    BY NumeralStep
  <2> HIDE DEF u
  <2>4. u \o LastOf(n, base) \in Seq(Chars) /\ Len(u \o LastOf(n, base)) = Len(u) + 1 /\ Len(u) \in Nat
    <3>1. \A v, w \in Seq(Chars) : v \o w \in Seq(Chars) /\ Len(v \o w) = Len(v) + Len(w) /\ Len(v) \in Nat
      BY ConcatProperties, LenProperties
    <3> QED
      BY <2>1, <2>2, <3>1
  <2> QED
    BY <2>3, <2>4
<1>2. Nat \subseteq T
  <2> HIDE DEF T
  <2> QED
    BY <1>1, StrongInduction
<1> QED
  BY <1>2

\* printnum computes the numeral.
LEMMA DigitsAreNumeral ==
  ASSUME NEW base \in Bases, NEW n \in Nat
  PROVE  DigitsIn(n, base) = Numeral(n, base)
<1> DEFINE Rec(f) == f = [k \in 0 .. n |->
                            IF k < base THEN << DigitChars[k + 1] >>
                            ELSE Append(f[k \div base], DigitChars[(k % base) + 1])]
           g == [k \in 0 .. n |-> Numeral(k, base)]
           d == CHOOSE f : Rec(f)
<1>1. \A k \in Nat : Numeral(k, base) =
        IF k < base THEN << DigitChars[k + 1] >>
        ELSE Append(Numeral(k \div base, base), DigitChars[(k % base) + 1])
  <2> SUFFICES ASSUME NEW k \in Nat
               PROVE  Numeral(k, base) =
                        IF k < base THEN << DigitChars[k + 1] >>
                        ELSE Append(Numeral(k \div base, base), DigitChars[(k % base) + 1])
    OBVIOUS
  <2>1. Numeral(k, base) =
           (IF k < base THEN <<>> ELSE Numeral(k \div base, base)) \o LastOf(k, base)
    BY NumeralStep
  <2>2. (k % base) + 1 \in 1 .. 16 /\ DigitChars[(k % base) + 1] \in Chars
    BY LastOfType
  <2>3. CASE k < base
    <3>1. k % base = k
      BY <2>3 DEF Bases
    <3>2. LastOf(k, base) = << DigitChars[k + 1] >>
      BY <3>1 DEF LastOf
    <3>3. <<>> \o << DigitChars[k + 1] >> = << DigitChars[k + 1] >>
      BY <2>2, <3>1
    <3> QED
      BY <2>1, <2>3, <3>2, <3>3
  <2>4. CASE ~(k < base)
    <3>1. Numeral(k \div base, base) \in Seq(Chars)
      BY Quotient, NumeralType
    <3>2. Append(Numeral(k \div base, base), DigitChars[(k % base) + 1])
            = Numeral(k \div base, base) \o << DigitChars[(k % base) + 1] >>
      BY <2>2, <3>1, AppendIsConcat
    <3> QED
      BY <2>1, <2>4, <3>2 DEF LastOf
  <2> QED
    BY <2>3, <2>4
<1>2. Rec(g)
  <2>1. ASSUME NEW k \in 0 .. n PROVE g[k] = IF k < base THEN << DigitChars[k + 1] >>
                            ELSE Append(g[k \div base], DigitChars[(k % base) + 1])
    <3>1. ~(k < base) => k \div base \in 0 .. n
      BY Quotient DEF Bases
    <3>2. ~(k < base) => g[k \div base] = Numeral(k \div base, base)
      BY <3>1
    <3>3. g[k] = Numeral(k, base)
      OBVIOUS
    <3> HIDE DEF g
    <3> QED
      BY <1>1, <3>2, <3>3
  <2>2. g = [k \in 0 .. n |-> g[k]]
    OBVIOUS
  <2> HIDE DEF g
  <2> QED
    BY <2>1, <2>2
<1>3. Rec(d)
  <2> HIDE DEF Rec, g
  <2> QED
    BY <1>2
<1>4. DigitsIn(n, base) = d[n]
  BY DEF DigitsIn
<1>5. \A k \in 0 .. n : d[k] = IF k < base THEN << DigitChars[k + 1] >>
                            ELSE Append(d[k \div base], DigitChars[(k % base) + 1])
  <2> HIDE DEF d
  <2> QED
    BY <1>3
<1> DEFINE T == { k \in Nat : k <= n => d[k] = Numeral(k, base) }
<1>6. ASSUME NEW k \in Nat, \A j \in Nat : j < k => j \in T PROVE k \in T
  <2> SUFFICES ASSUME k <= n PROVE d[k] = Numeral(k, base)
    OBVIOUS
  <2>1. ~(k < base) => d[k \div base] = Numeral(k \div base, base)
    <3> SUFFICES ASSUME ~(k < base) PROVE d[k \div base] = Numeral(k \div base, base)
      OBVIOUS
    <3>1. k \div base \in Nat /\ k \div base < k
      BY Quotient DEF Bases
    <3> HIDE DEF d
    <3> QED
      BY <1>6, <3>1
  <2>2. k \in 0 .. n
    OBVIOUS
  <2> HIDE DEF d, T
  <2> QED
    BY <1>1, <1>5, <2>1, <2>2
<1>7. Nat \subseteq T
  <2> HIDE DEF T
  <2> QED
    BY <1>6, StrongInduction
<1>8. d[n] = Numeral(n, base)
  <2> HIDE DEF d
  <2> QED
    BY <1>7
<1> QED
  BY <1>4, <1>8

\* The decimal digits and their values.
LEMMA DecimalDigits ==
  /\ \A i, j \in 1 .. 10 : DigitChars[i] = DigitChars[j] => i = j
  /\ \A v \in 0 .. 9 : DigitChars[v + 1] \in DecimalChars /\ ValueOf(DigitChars[v + 1]) = v
  /\ \A v \in 1 .. 9 : DigitChars[v + 1] \in DecimalChars \ {"0"}
  /\ \A c \in DecimalChars : c \in Chars /\ \E v \in 0 .. 9 : c = DigitChars[v + 1]
<1>1. \A i, j \in 1 .. 10 : DigitChars[i] = DigitChars[j] => i = j
  BY DEF DigitChars
<1>2. ASSUME NEW v \in 0 .. 9
      PROVE  DigitChars[v + 1] \in DecimalChars /\ ValueOf(DigitChars[v + 1]) = v
  <2>1. v + 1 \in 1 .. 10
    OBVIOUS
  <2>2. \A i \in 1 .. 10 : DigitChars[i] = DigitChars[v + 1] <=> i = v + 1
    BY <1>1, <2>1
  <2> DEFINE w == CHOOSE i \in 1 .. 10 : DigitChars[i] = DigitChars[v + 1]
  <2>3. w \in 1 .. 10 /\ DigitChars[w] = DigitChars[v + 1]
    BY <2>1
  <2> HIDE DEF w
  <2>4. w = v + 1
    BY <2>2, <2>3
  <2>5. ValueOf(DigitChars[v + 1]) = w - 1
    BY DEF ValueOf, w
  <2> QED
    BY <2>1, <2>4, <2>5 DEF DecimalChars
<1>3. ASSUME NEW v \in 1 .. 9 PROVE DigitChars[v + 1] \in DecimalChars \ {"0"}
  <2>1. DigitChars[1] = "0" /\ v + 1 \in 1 .. 10 /\ 1 \in 1 .. 10 /\ v + 1 # 1
    BY DEF DigitChars
  <2> QED
    BY <1>1, <2>1 DEF DecimalChars
<1>4. ASSUME NEW c \in DecimalChars PROVE c \in Chars /\ \E v \in 0 .. 9 : c = DigitChars[v + 1]
  <2>1. PICK i \in 1 .. 10 : c = DigitChars[i]
    BY DEF DecimalChars
  <2>2. i - 1 \in 0 .. 9 /\ (i - 1) + 1 = i /\ i \in 1 .. 16
    OBVIOUS
  <2> QED
    BY <2>1, <2>2, DigitCharsType
<1> QED
  BY <1>1, <1>2, <1>3, <1>4

\* The first digit of a number that is not 0 is not "0".
LEMMA NumeralBegins ==
  \A n \in Nat \ {0} : \E v \in 1 .. 9 : \E t \in Seq(DecimalChars) :
     Numeral(n, 10) = << DigitChars[v + 1] >> \o t
<1> DEFINE Good(n) == \E v \in 1 .. 9 : \E t \in Seq(DecimalChars) :
                        Numeral(n, 10) = << DigitChars[v + 1] >> \o t
           T == { n \in Nat : n > 0 => Good(n) }
<1>1. ASSUME NEW n \in Nat, \A k \in Nat : k < n => k \in T PROVE n \in T
  <2> SUFFICES ASSUME n > 0 PROVE Good(n)
    OBVIOUS
  <2>1. Numeral(n, 10) = (IF n < 10 THEN <<>> ELSE Numeral(n \div 10, 10)) \o LastOf(n, 10)
    BY NumeralStep DEF Bases
  <2>2. CASE n < 10
    <3>1. n % 10 = n /\ n \in 1 .. 9
      BY <2>2
    <3>2. DigitChars[n + 1] \in DecimalChars
      BY <3>1, DecimalDigits
    <3>3. Numeral(n, 10) = <<>> \o << DigitChars[n + 1] >>
      BY <2>1, <2>2, <3>1 DEF LastOf
    <3>4. \A c : <<>> \o <<c>> = <<c>> \o <<>>
      OBVIOUS
    <3>5. <<>> \in Seq(DecimalChars)
      BY EmptySeq
    <3> QED
      BY <3>1, <3>3, <3>4, <3>5
  <2>3. CASE ~(n < 10)
    <3>1. n \div 10 \in Nat /\ n \div 10 < n /\ n \div 10 > 0 /\ n % 10 \in 0 .. 9
      BY <2>3
    <3>2. Good(n \div 10)
      <4>1. n \div 10 \in T
        BY <1>1, <3>1
      <4> HIDE DEF Good
      <4> QED
        BY <3>1, <4>1
    <3>3. PICK v \in 1 .. 9 : \E t \in Seq(DecimalChars) :
            Numeral(n \div 10, 10) = << DigitChars[v + 1] >> \o t
      BY <3>2
    <3>4. PICK t \in Seq(DecimalChars) : Numeral(n \div 10, 10) = << DigitChars[v + 1] >> \o t
      BY <3>3
    <3> DEFINE h == << DigitChars[v + 1] >>
               l == LastOf(n, 10)
    <3>5. h \in Seq(DecimalChars) /\ l \in Seq(DecimalChars)
      <4>1. DigitChars[v + 1] \in DecimalChars /\ DigitChars[(n % 10) + 1] \in DecimalChars
        BY <3>1, DecimalDigits
      <4>2. \A c \in DecimalChars : <<c>> \in Seq(DecimalChars)
        OBVIOUS
      <4> QED
        BY <4>1, <4>2 DEF LastOf
    <3>6. Numeral(n, 10) = (h \o t) \o l
      BY <2>1, <2>3, <3>4
    <3> HIDE DEF h, l
    <3>7. (h \o t) \o l = h \o (t \o l)
      BY <3>5, ConcatAssociative
    <3>8. t \o l \in Seq(DecimalChars)
      BY <3>5, ConcatProperties
    <3> QED
      BY <3>6, <3>7, <3>8 DEF h
  <2> QED
    BY <2>2, <2>3
<1>2. Nat \subseteq T
  <2> HIDE DEF T
  <2> QED
    BY <1>1, StrongInduction
<1>3. \A n \in Nat \ {0} : n \in T /\ n > 0
  <2> HIDE DEF T
  <2> QED
    BY <1>2
<1> QED
  BY <1>3

\* One more digit.
LEMMA NumeralGrows ==
  ASSUME NEW p \in Nat \ {0}, NEW v \in 0 .. 9
  PROVE  Numeral(10 * p + v, 10) = Numeral(p, 10) \o << DigitChars[v + 1] >>
<1> DEFINE n == 10 * p + v
<1>1. n \in Nat /\ ~(n < 10) /\ n \div 10 = p /\ n % 10 = v
  OBVIOUS
<1> HIDE DEF n
<1>2. Numeral(n, 10) = (IF n < 10 THEN <<>> ELSE Numeral(n \div 10, 10)) \o LastOf(n, 10)
  BY <1>1, NumeralStep DEF Bases
<1> QED
  BY <1>1, <1>2 DEF LastOf, n

\* The last character and what is in front of it.
LEMMA LastMatches ==
  ASSUME NEW S, NEW s \in Seq(S), NEW t \in Seq(S), NEW c \in S, NEW d \in S,
         s \o <<c>> = t \o <<d>>
  PROVE  s = t /\ c = d
<1>1. s \o <<c>> = Append(s, c) /\ t \o <<d>> = Append(t, d)
  BY AppendIsConcat
<1> QED
  BY <1>1, AppendInjective

\* A numeral without its last digit, and that digit.
FrontOf(n) == IF n < 10 THEN <<>> ELSE Numeral(n \div 10, 10)
DigitOf(n) == DigitChars[(n % 10) + 1]

\* A numeral is of one number only.
LEMMA NumeralOfOne ==
  \A n, m \in Nat : Numeral(n, 10) = Numeral(m, 10) => n = m
<1> DEFINE T == { n \in Nat : \A m \in Nat : Numeral(n, 10) = Numeral(m, 10) => n = m }
<1>1. ASSUME NEW n \in Nat
      PROVE  /\ Numeral(n, 10) = FrontOf(n) \o << DigitOf(n) >>
             /\ FrontOf(n) \in Seq(Chars) /\ DigitOf(n) \in Chars
             /\ FrontOf(n) = <<>> <=> n < 10
  <2>1. Numeral(n, 10) = (IF n < 10 THEN <<>> ELSE Numeral(n \div 10, 10)) \o LastOf(n, 10)
    BY NumeralStep DEF Bases
  <2>2. DigitOf(n) \in Chars
    BY LastOfType DEF Bases, DigitOf
  <2>3. ~(n < 10) => Numeral(n \div 10, 10) \in Seq(Chars) /\ Len(Numeral(n \div 10, 10)) > 0
    <3>1. n \div 10 \in Nat
      OBVIOUS
    <3> QED
      BY <3>1, NumeralType DEF Bases
  <2>4. <<>> \in Seq(Chars) /\ Len(<<>>) = 0
    BY EmptySeq
  <2>5. ~(n < 10) => Numeral(n \div 10, 10) # <<>>
    <3>1. \A u : Len(u) > 0 => u # <<>>
      BY <2>4
    <3> QED
      BY <2>3, <3>1
  <2> QED
    BY <2>1, <2>2, <2>3, <2>4, <2>5 DEF LastOf, FrontOf, DigitOf
<1>2. ASSUME NEW n \in Nat, \A k \in Nat : k < n => k \in T PROVE n \in T
  <2> SUFFICES ASSUME NEW m \in Nat, Numeral(n, 10) = Numeral(m, 10) PROVE n = m
    OBVIOUS
  <2>1. FrontOf(n) \o << DigitOf(n) >> = FrontOf(m) \o << DigitOf(m) >>
    BY <1>1
  <2>2. FrontOf(n) = FrontOf(m) /\ DigitOf(n) = DigitOf(m)
    <3>1. \A s, t \in Seq(Chars) : \A c, d \in Chars :
            s \o <<c>> = t \o <<d>> => s = t /\ c = d
      BY LastMatches
    <3>2. FrontOf(n) \in Seq(Chars) /\ FrontOf(m) \in Seq(Chars) /\ DigitOf(n) \in Chars /\ DigitOf(m) \in Chars
      BY <1>1
    <3> QED
      BY <2>1, <3>1, <3>2
  <2>3. n % 10 = m % 10
    <3>1. (n % 10) + 1 \in 1 .. 10 /\ (m % 10) + 1 \in 1 .. 10
      OBVIOUS
    <3>2. (n % 10) + 1 = (m % 10) + 1
      BY <2>2, <3>1, DecimalDigits DEF DigitOf
    <3> QED
      BY <3>2
  <2>4. n < 10 <=> m < 10
    BY <1>1, <2>2
  <2>5. CASE n < 10
    BY <2>3, <2>4, <2>5
  <2>6. CASE ~(n < 10)
    <3>1. Numeral(n \div 10, 10) = Numeral(m \div 10, 10)
      BY <2>2, <2>4, <2>6 DEF FrontOf
    <3>2. n \div 10 \in Nat /\ m \div 10 \in Nat /\ n \div 10 < n
      BY <2>6
    <3>3. n \div 10 = m \div 10
      BY <1>2, <3>1, <3>2
    <3> QED
      BY <2>3, <3>3
  <2> QED
    BY <2>5, <2>6
<1>3. Nat \subseteq T
  <2> HIDE DEF T
  <2> QED
    BY <1>2, StrongInduction
<1> QED
  BY <1>3

Convs == { "literal", "c", "s", "d", "u", "o", "x", "%", "q" }

Args == Int \cup Chars \cup Seq(Chars)

\* The directives FormatSpec speaks of, over these characters.
Directives ==
  { d \in [ flag : {"", "-", "0"}, width : {-1} \cup Nat, star : BOOLEAN,
            prec : {-1} \cup Nat, conv : Convs, arg : Args ] :
      /\ Directive(d)
      /\ d.conv \in {"c", "literal"} => d.arg \in Chars
      /\ d.conv \in {"d", "u", "o", "x"} => d.arg \in Int
      /\ d.conv = "s" => d.arg \in Seq(Chars) }

-----------------------------------------------------------------------------
(* How a directive is spelled *)

FlagOf(d)  == IF d.flag = "" THEN <<>> ELSE << d.flag >>
WidthOf(d) == IF d.star THEN << "*" >> ELSE IF d.width < 0 THEN <<>> ELSE Numeral(d.width, 10)
PrecOf(d)  == IF d.prec < 0 THEN <<>> ELSE << "." >> \o Numeral(d.prec, 10)

FromConv(d, z)  == << d.conv >> \o z
FromPrec(d, z)  == PrecOf(d) \o FromConv(d, z)
FromWidth(d, z) == WidthOf(d) \o FromPrec(d, z)
FromFlag(d, z)  == FlagOf(d) \o FromWidth(d, z)

\* What the parts of a directive can be.
LEMMA DirectiveParts ==
  ASSUME NEW d \in Directives
  PROVE  /\ d.flag \in {"", "-", "0"} /\ d.width \in {-1} \cup Nat /\ d.star \in BOOLEAN
         /\ d.prec \in {-1} \cup Nat /\ d.prec # 0 /\ d.conv \in Convs /\ d.arg \in Args
         /\ d.star => d.width >= 0
         /\ ~d.star => d.width # 0
         /\ Standard(d)
         /\ d.conv = "literal" => d.arg \notin {"%", "NUL"} /\ d.flag = ""
         /\ d.conv = "s" => d.arg # "NULL" /\ d.arg \in Seq(Chars)
         /\ d.conv \in {"c", "literal"} => d.arg \in Chars
         /\ d.conv \in {"d", "u", "o", "x"} => d.arg \in Int
BY DEF Directives, Directive

\* The width and the precision.
LEMMA DirectiveNumbers ==
  ASSUME NEW d \in Directives
  PROVE  /\ d.width \in Int /\ d.width >= -1 /\ (~(d.width < 0) => d.width \in Nat)
         /\ d.prec \in Int /\ d.prec >= -1 /\ (~(d.prec < 0) => d.prec \in Nat \ {0})
<1>1. d.width \in {-1} \cup Nat /\ d.prec \in {-1} \cup Nat /\ d.prec # 0
  BY DirectiveParts
<1> QED
  BY <1>1

\* One character is a sequence.
LEMMA OneChar ==
  /\ \A c \in Chars : <<c>> \in Seq(Chars) /\ Len(<<c>>) = 1
  /\ "-" \in Chars /\ "0" \in Chars /\ "*" \in Chars /\ "." \in Chars /\ "%" \in Chars
  /\ "q" \in Chars /\ "NUL" \in Chars /\ <<>> \in Seq(Chars)
  /\ \A c \in Convs \ {"literal"} : c \in Chars
<1>1. \A c \in Chars : <<c>> \in Seq(Chars) /\ Len(<<c>>) = 1
  OBVIOUS
<1>2. /\ "-" \in UsedChars /\ "0" \in UsedChars /\ "*" \in UsedChars /\ "." \in UsedChars
      /\ "%" \in UsedChars /\ "q" \in UsedChars /\ "NUL" \in UsedChars
      /\ \A c \in Convs \ {"literal"} : c \in UsedChars
  BY DEF UsedChars, Convs
<1>3. \A c \in UsedChars : c \in Chars
  BY DEF Chars
<1>4. <<>> \in Seq(Chars)
  BY EmptySeq
<1> QED
  BY <1>1, <1>2, <1>3, <1>4

\* The parts are sequences of characters.
LEMMA PartsType ==
  ASSUME NEW d \in Directives
  PROVE  /\ FlagOf(d) \in Seq(Chars) /\ WidthOf(d) \in Seq(Chars) /\ PrecOf(d) \in Seq(Chars)
         /\ d.conv # "literal" => << d.conv >> \in Seq(Chars)
<1>1. FlagOf(d) \in Seq(Chars)
  <2>1. d.flag # "" => d.flag \in Chars
    BY DirectiveParts, OneChar
  <2> QED
    BY <2>1, OneChar DEF FlagOf
<1>2. \A n \in Nat : Numeral(n, 10) \in Seq(Chars)
  BY NumeralType DEF Bases
<1>3. WidthOf(d) \in Seq(Chars)
  <2>1. ~(d.width < 0) => Numeral(d.width, 10) \in Seq(Chars)
    BY <1>2, DirectiveNumbers
  <2> QED
    BY <2>1, OneChar DEF WidthOf
<1>4. PrecOf(d) \in Seq(Chars)
  <2>1. ~(d.prec < 0) => Numeral(d.prec, 10) \in Seq(Chars)
    BY <1>2, DirectiveNumbers
  <2>2. << "." >> \in Seq(Chars)
    BY OneChar
  <2>3. \A s, t \in Seq(Chars) : s \o t \in Seq(Chars)
    BY ConcatProperties
  <2> QED
    BY <2>1, <2>2, <2>3, OneChar DEF PrecOf
<1>5. d.conv # "literal" => << d.conv >> \in Seq(Chars)
  BY DirectiveParts, OneChar
<1> QED
  BY <1>1, <1>3, <1>4, <1>5

\* Concatenation over characters.
LEMMA CharMoves ==
  /\ \A s, t, u \in Seq(Chars) : (s \o t) \o u = s \o (t \o u)
  /\ \A s, t \in Seq(Chars) : s \o t \in Seq(Chars)
  /\ \A s \in Seq(Chars) : s \o <<>> = s /\ <<>> \o s = s
<1>1. \A s, t, u \in Seq(Chars) : (s \o t) \o u = s \o (t \o u)
  BY ConcatMoves
<1>2. \A s, t \in Seq(Chars) : s \o t \in Seq(Chars)
  BY ConcatProperties
<1>3. \A s \in Seq(Chars) : s \o <<>> = s /\ <<>> \o s = s
  BY ConcatEmptySeq
<1> QED
  BY <1>1, <1>2, <1>3

\* What is left of a format in a directive, part by part.
LEMMA FromTypes ==
  ASSUME NEW d \in Directives, d.conv # "literal", NEW z \in Seq(Chars)
  PROVE  /\ FromConv(d, z) \in Seq(Chars) /\ FromPrec(d, z) \in Seq(Chars)
         /\ FromWidth(d, z) \in Seq(Chars) /\ FromFlag(d, z) \in Seq(Chars)
<1>1. FromConv(d, z) \in Seq(Chars)
  BY PartsType, CharMoves DEF FromConv
<1>2. FromPrec(d, z) \in Seq(Chars)
  BY <1>1, PartsType, CharMoves DEF FromPrec
<1>3. FromWidth(d, z) \in Seq(Chars)
  BY <1>2, PartsType, CharMoves DEF FromWidth
<1>4. FromFlag(d, z) \in Seq(Chars)
  BY <1>3, PartsType, CharMoves DEF FromFlag
<1> QED
  BY <1>1, <1>2, <1>3, <1>4

\* A directive is spelled as its parts.
LEMMA SpelledAs ==
  ASSUME NEW d \in Directives
  PROVE  /\ d.conv = "literal" => Spelled(d) = << d.arg >>
         /\ d.conv # "literal" =>
              /\ \A z \in Seq(Chars) : Spelled(d) \o z = << "%" >> \o FromFlag(d, z)
              /\ Spelled(d) \in Seq(Chars)
<1>1. d.conv = "literal" => Spelled(d) = << d.arg >>
  BY DEF Spelled
<1>2. ASSUME d.conv # "literal"
      PROVE  /\ \A z \in Seq(Chars) : Spelled(d) \o z = << "%" >> \o FromFlag(d, z)
             /\ Spelled(d) \in Seq(Chars)
  <2> DEFINE p == << "%" >>
             f == FlagOf(d)
             w == WidthOf(d)
             c == PrecOf(d)
             v == << d.conv >>
  <2>1. Spelled(d) = (((p \o f) \o w) \o c) \o v
    BY <1>2 DEF Spelled, FlagOf, WidthOf, PrecOf
  <2>2. p \in Seq(Chars) /\ f \in Seq(Chars) /\ w \in Seq(Chars) /\ c \in Seq(Chars) /\ v \in Seq(Chars)
    BY <1>2, PartsType, OneChar
  <2>3. \A z : FromFlag(d, z) = f \o (w \o (c \o (v \o z)))
    BY DEF FromFlag, FromWidth, FromPrec, FromConv
  <2> HIDE DEF p, f, w, c, v
  <2>4. /\ p \o f \in Seq(Chars) /\ (p \o f) \o w \in Seq(Chars)
        /\ ((p \o f) \o w) \o c \in Seq(Chars)
        /\ (((p \o f) \o w) \o c) \o v \in Seq(Chars)
    BY <2>2, CharMoves
  <2>5. ASSUME NEW z \in Seq(Chars)
        PROVE  ((((p \o f) \o w) \o c) \o v) \o z = p \o (f \o (w \o (c \o (v \o z))))
    <3>1. /\ p \o f \in Seq(Chars) /\ (p \o f) \o w \in Seq(Chars)
          /\ ((p \o f) \o w) \o c \in Seq(Chars)
          /\ v \o z \in Seq(Chars) /\ c \o (v \o z) \in Seq(Chars)
          /\ w \o (c \o (v \o z)) \in Seq(Chars)
      BY <2>2, <2>5, CharMoves
    <3>2. \A s, t, u \in Seq(Chars) : (s \o t) \o u = s \o (t \o u)
      BY CharMoves
    <3>3. ((((p \o f) \o w) \o c) \o v) \o z = (((p \o f) \o w) \o c) \o (v \o z)
      <4>1. \A s, u \in Seq(Chars) : (s \o v) \o u = s \o (v \o u)
        BY <3>2
      <4> QED
        BY <3>1, <4>1
    <3>4. (((p \o f) \o w) \o c) \o (v \o z) = ((p \o f) \o w) \o (c \o (v \o z))
      <4>1. \A s, u \in Seq(Chars) : (s \o c) \o u = s \o (c \o u)
        BY <3>2
      <4> QED
        BY <3>1, <4>1
    <3>5. ((p \o f) \o w) \o (c \o (v \o z)) = (p \o f) \o (w \o (c \o (v \o z)))
      <4>1. \A s, u \in Seq(Chars) : (s \o w) \o u = s \o (w \o u)
        BY <3>2
      <4> QED
        BY <3>1, <4>1
    <3>6. (p \o f) \o (w \o (c \o (v \o z))) = p \o (f \o (w \o (c \o (v \o z))))
      <4>1. \A u \in Seq(Chars) : (p \o f) \o u = p \o (f \o u)
        BY <3>2
      <4> QED
        BY <3>1, <4>1
    <3> QED
      BY <3>3, <3>4, <3>5, <3>6
  <2> QED
    <3>1. \A z \in Seq(Chars) : Spelled(d) \o z = p \o FromFlag(d, z)
      BY <2>1, <2>3, <2>5
    <3> QED
      BY <2>1, <2>4, <3>1 DEF p
<1> QED
  BY <1>1, <1>2

-----------------------------------------------------------------------------
(* The text of a directive *)

Gap(d, n) == [i \in 1 .. (d.width - n) |-> IF d.flag = "0" THEN "0" ELSE " "]

Padded(d, body) == IF d.flag = "-" THEN body \o Gap(d, Len(body)) ELSE Gap(d, Len(body)) \o body

Cut(d) == SubSeq(d.arg, 1, IF d.prec \in 0 .. Len(d.arg) THEN d.prec ELSE Len(d.arg))

\* The text of each conversion.
LEMMA TextCases ==
  ASSUME NEW d \in Directives
  PROVE  /\ d.conv \in {"literal", "c"} => Text(d, ULong) = Padded(d, << d.arg >>)
         /\ d.conv = "s" => Text(d, ULong) = Padded(d, Cut(d))
         /\ d.conv = "d" => Text(d, ULong) =
              Padded(d, IF d.arg < 0 THEN << "-" >> \o Numeral(-d.arg, 10) ELSE Numeral(d.arg, 10))
         /\ d.conv = "u" => Text(d, ULong) = Padded(d, Numeral(d.arg % ULong, 10))
         /\ d.conv = "o" => Text(d, ULong) = Padded(d, Numeral(d.arg % ULong, 8))
         /\ d.conv = "x" => Text(d, ULong) = Padded(d, Numeral(d.arg % ULong, 16))
         /\ d.conv = "%" => Text(d, ULong) = Padded(d, << "%" >>)
         /\ d.conv = "q" => Text(d, ULong) = Padded(d, Spelled(d))
BY DEF Text, Padded, Gap, Cut

\* The gap is a sequence, and empty when the body is as wide as asked.
LEMMA GapType ==
  ASSUME NEW d \in Directives, NEW n \in Nat
  PROVE  /\ Gap(d, n) \in Seq(Chars)
         /\ d.width <= n => Gap(d, n) = <<>>
<1>1. d.width - n \in Int
  BY DirectiveNumbers
<1>2. "0" \in Chars /\ " " \in Chars
  BY DEF Chars, UsedChars
<1> DEFINE c == IF d.flag = "0" THEN "0" ELSE " "
           w == d.width - n
<1>3. Gap(d, n) = [i \in 1 .. w |-> c]
  BY DEF Gap
<1>4. c \in Chars
  BY <1>2
<1> HIDE DEF c, w
<1>5. w > 0 => [i \in 1 .. w |-> c] \in Seq(Chars)
  BY <1>1, <1>4, IsASeq DEF w
<1>6. w <= 0 => [i \in 1 .. w |-> c] = <<>>
  BY <1>1 DEF w
<1> QED
  <2>1. d.width <= n <=> w <= 0
    BY <1>1, DirectiveNumbers DEF w
  <2>2. <<>> \in Seq(Chars) /\ (w > 0 \/ w <= 0)
    BY <1>1, EmptySeq DEF w
  <2> QED
    BY <1>3, <1>5, <1>6, <2>1, <2>2

\* A padded text is a sequence; what has no width is not padded.
LEMMA PaddedType ==
  ASSUME NEW d \in Directives, NEW b \in Seq(Chars)
  PROVE  /\ Padded(d, b) \in Seq(Chars)
         /\ d.width <= Len(b) => Padded(d, b) = b
<1>1. Len(b) \in Nat
  BY LenProperties
<1>2. Gap(d, Len(b)) \in Seq(Chars) /\ (d.width <= Len(b) => Gap(d, Len(b)) = <<>>)
  BY <1>1, GapType
<1> DEFINE g == Gap(d, Len(b))
<1> HIDE DEF g
<1>3. g \in Seq(Chars) /\ b \o g \in Seq(Chars) /\ g \o b \in Seq(Chars)
  BY <1>2, CharMoves DEF g
<1>4. b \o <<>> = b /\ <<>> \o b = b
  BY CharMoves
<1> QED
  BY <1>2, <1>3, <1>4 DEF Padded, g

\* A directive with no width is not padded.
LEMMA NoWidth ==
  ASSUME NEW d \in Directives, NEW b \in Seq(Chars), d.width < 0
  PROVE  Padded(d, b) = b
<1>1. Len(b) \in Nat /\ d.width \in Int
  BY LenProperties, DirectiveNumbers
<1>2. d.width <= Len(b)
  BY <1>1
<1> QED
  BY <1>2, PaddedType

\* The part of a string that is printed.
LEMMA CutType ==
  ASSUME NEW d \in Directives, d.conv = "s"
  PROVE  /\ Cut(d) \in Seq(Chars)
         /\ Len(d.arg) \in Nat
         /\ Len(Cut(d)) = IF d.prec \in 0 .. Len(d.arg) THEN d.prec ELSE Len(d.arg)
<1> DEFINE n == IF d.prec \in 0 .. Len(d.arg) THEN d.prec ELSE Len(d.arg)
<1>1. d.arg \in Seq(Chars)
  BY DirectiveParts
<1>2. Len(d.arg) \in Nat /\ \A i \in 1 .. Len(d.arg) : d.arg[i] \in Chars
  BY <1>1, LenProperties, ElementOfSeq
<1>3. n \in 0 .. Len(d.arg)
  BY <1>2
<1> HIDE DEF n
<1>4. SubSeq(d.arg, 1, n) \in Seq(Chars) /\ Len(SubSeq(d.arg, 1, n)) = n
  <2>1. \A i \in 1 .. n : d.arg[i] \in Chars
    BY <1>2, <1>3
  <2>2. n \in Int /\ 1 \in Int
    BY <1>2, <1>3
  <2>3. SubSeq(d.arg, 1, n) \in Seq(Chars) /\ Len(SubSeq(d.arg, 1, n)) = IF 1 <= n THEN n - 1 + 1 ELSE 0
    BY <2>1, <2>2, SubSeqProperties
  <2> QED
    BY <1>2, <1>3, <2>3
<1>5. Cut(d) = SubSeq(d.arg, 1, n)
  BY DEF Cut, n
<1> QED
  BY <1>2, <1>4, <1>5 DEF n

\* Numbers modulo 2^32 are natural, and have numerals.
LEMMA ULongMod == ASSUME NEW a \in Int PROVE a % ULong \in Nat
<1>1. ULong \in Nat \ {0}
  BY PrintfAssumption
<1> QED
  BY <1>1

\* The text of a directive is a sequence of characters.
LEMMA TextType ==
  ASSUME NEW d \in Directives
  PROVE  Text(d, ULong) \in Seq(Chars)
<1>1. \A n \in Nat : /\ Numeral(n, 10) \in Seq(Chars) /\ Numeral(n, 8) \in Seq(Chars)
                     /\ Numeral(n, 16) \in Seq(Chars)
  BY NumeralType DEF Bases
<1>2. CASE d.conv \in {"literal", "c", "%"}
  <2>1. << d.arg >> \in Seq(Chars) \/ d.conv = "%"
    BY <1>2, DirectiveParts, OneChar
  <2>2. << "%" >> \in Seq(Chars)
    BY OneChar
  <2> QED
    BY <1>2, <2>1, <2>2, TextCases, PaddedType
<1>3. CASE d.conv = "s"
  BY <1>3, CutType, TextCases, PaddedType
<1>4. CASE d.conv = "q"
  <2>1. Spelled(d) \in Seq(Chars)
    BY <1>4, SpelledAs
  <2> QED
    BY <1>4, <2>1, TextCases, PaddedType
<1>5. CASE d.conv \in {"u", "o", "x"}
  <2>1. d.arg % ULong \in Nat
    BY <1>5, DirectiveParts, ULongMod
  <2>2. /\ Numeral(d.arg % ULong, 10) \in Seq(Chars) /\ Numeral(d.arg % ULong, 8) \in Seq(Chars)
        /\ Numeral(d.arg % ULong, 16) \in Seq(Chars)
    BY <1>1, <2>1
  <2>3. /\ Padded(d, Numeral(d.arg % ULong, 10)) \in Seq(Chars)
        /\ Padded(d, Numeral(d.arg % ULong, 8)) \in Seq(Chars)
        /\ Padded(d, Numeral(d.arg % ULong, 16)) \in Seq(Chars)
    BY <2>2, PaddedType
  <2> QED
    BY <1>5, <2>3, TextCases
<1>6. CASE d.conv = "d"
  <2>1. d.arg \in Int
    BY <1>6, DirectiveParts
  <2> DEFINE b == IF d.arg < 0 THEN << "-" >> \o Numeral(-d.arg, 10) ELSE Numeral(d.arg, 10)
  <2>2. b \in Seq(Chars)
    <3>1. d.arg < 0 => -d.arg \in Nat
      BY <2>1
    <3>2. ~(d.arg < 0) => d.arg \in Nat
      BY <2>1
    <3>3. << "-" >> \in Seq(Chars)
      BY OneChar
    <3>4. d.arg < 0 => << "-" >> \o Numeral(-d.arg, 10) \in Seq(Chars)
      BY <1>1, <3>1, <3>3, CharMoves
    <3> QED
      BY <1>1, <3>2, <3>4
  <2> HIDE DEF b
  <2>3. Text(d, ULong) = Padded(d, b)
    BY <1>6, TextCases DEF b
  <2> QED
    BY <2>2, <2>3, PaddedType
<1> QED
  BY <1>2, <1>3, <1>4, <1>5, <1>6, DirectiveParts DEF Convs

-----------------------------------------------------------------------------
(* What the conversions put *)

\* The pad character and the width when a conversion is printed: a precision
\* behind a width that is not given makes it 0.
PadOf(d) == IF d.flag = "" THEN " " ELSE d.flag
Shown(d) == IF d.width < 0 /\ ~(d.prec < 0) THEN 0 ELSE d.width

\* printnum pads a number as wide as it should be.
LEMMA NumberText ==
  ASSUME NEW d \in Directives, d.flag # "-", padc = PadOf(d), width = d.width,
         NEW n \in Nat, NEW base \in Bases
  PROVE  /\ PrintNum(n, base) = Padded(d, Numeral(n, base))
         /\ d.width < 0 => PrintNum(n, base) = Numeral(n, base)
<1> DEFINE digs == Numeral(n, base)
<1>1. DigitsIn(n, base) = digs /\ digs \in Seq(Chars)
  BY DigitsAreNumeral, NumeralType
<1>2. Repeat(padc, width - Len(digs)) = Gap(d, Len(digs))
  <2>1. padc = IF d.flag = "0" THEN "0" ELSE " "
    BY DirectiveParts DEF PadOf
  <2> HIDE DEF digs
  <2> QED
    BY <2>1 DEF Repeat, Gap
<1> HIDE DEF digs
<1>3. PrintNum(n, base) = Gap(d, Len(digs)) \o digs
  BY <1>1, <1>2 DEF PrintNum
<1>4. PrintNum(n, base) = Padded(d, digs)
  BY <1>3 DEF Padded
<1>5. d.width < 0 => Padded(d, digs) = digs
  BY <1>1, NoWidth
<1> QED
  BY <1>4, <1>5 DEF digs

\* printstr shows as much of a string as it should, and pads it on its side.
LEMMA StringText ==
  ASSUME NEW d \in Directives, d.conv = "s",
         padc = PadOf(d), width = Shown(d), precision = d.prec
  PROVE  PrintStr(Nullable(d.arg)) = Padded(d, Cut(d))
<1> DEFINE shown == IF precision < 0 \/ precision > Len(d.arg) THEN Len(d.arg) ELSE precision
           g == Gap(d, shown)
           r == Repeat(" ", width - shown)
           b == SubSeq(d.arg, 1, shown)
<1>1. Nullable(d.arg) = d.arg /\ d.flag \in {"", "-"}
  BY DirectiveParts DEF Nullable, Standard
<1>2. Len(d.arg) \in Nat /\ d.prec \in Int /\ d.width \in Int /\ d.width >= -1
  BY CutType, DirectiveNumbers
<1>3. shown = IF d.prec \in 0 .. Len(d.arg) THEN d.prec ELSE Len(d.arg)
  BY <1>2
<1>4. Cut(d) = b /\ Len(b) = shown /\ b \in Seq(Chars) /\ shown \in Nat
  <2>1. Cut(d) = b
    BY <1>3 DEF Cut
  <2>2. shown \in Nat
    BY <1>2
  <2> HIDE DEF b, shown
  <2> QED
    BY <1>3, <2>1, <2>2, CutType
<1>5. r = g
  <2> HIDE DEF shown, r
  <2>1. CASE width = d.width
    BY <1>1, <2>1 DEF Repeat, Gap, r
  <2>2. CASE width # d.width
    <3>1. width = 0 /\ d.width = -1
      BY <1>2, <2>2 DEF Shown
    <3>2. g = <<>>
      BY <1>4, <3>1, GapType
    <3>3. width - shown <= 0 /\ width - shown \in Int
      BY <1>4, <3>1
    <3>4. ASSUME NEW n, NEW c, n \in Int, n <= 0 PROVE Repeat(c, n) = <<>>
      BY <3>4 DEF Repeat
    <3> QED
      BY <3>2, <3>3, <3>4 DEF r
  <2> QED
    BY <2>1, <2>2
<1>6. PrintStr(d.arg) = (IF padc # "-" THEN Repeat(padc, width - shown) ELSE <<>>) \o b
                          \o (IF padc = "-" THEN Repeat(" ", width - shown) ELSE <<>>)
  BY DEF PrintStr
<1> HIDE DEF shown, b, g, r
<1>7. g \in Seq(Chars)
  BY <1>4, GapType DEF g
<1>8. CASE d.flag = "-"
  <2>1. padc = "-"
    BY <1>8 DEF PadOf
  <2>2. PrintStr(d.arg) = <<>> \o b \o g
    BY <1>5, <1>6, <2>1 DEF r
  <2>3. <<>> \o b = b
    BY <1>4, CharMoves
  <2>4. Padded(d, Cut(d)) = b \o g
    BY <1>4, <1>8 DEF Padded, g
  <2> QED
    BY <1>1, <2>2, <2>3, <2>4
<1>9. CASE d.flag = ""
  <2>1. padc = " "
    BY <1>9 DEF PadOf
  <2>2. PrintStr(d.arg) = g \o b \o <<>>
    BY <1>5, <1>6, <2>1 DEF r
  <2>3. g \o b \in Seq(Chars)
    BY <1>4, <1>7, CharMoves
  <2>4. g \o b \o <<>> = g \o b
    BY <2>3, CharMoves
  <2>5. Padded(d, Cut(d)) = g \o b
    BY <1>4, <1>9 DEF Padded, g
  <2> QED
    BY <1>1, <2>2, <2>4, <2>5
<1> QED
  BY <1>1, <1>8, <1>9

-----------------------------------------------------------------------------
(* The state of a call *)

\* What is left of the format at a position, and of the arguments.
Behind(n) == From(print.fmt, n)
ArgsFrom(n) == From(print.args, n)

CallTypes ==
  /\ print.fn \in {"printf", "sprintf"}
  /\ print.fmt \in Seq(Chars) /\ print.args \in Seq(Args) /\ print.text \in Seq(Chars)
  /\ fmt \in Nat \ {0} /\ last_fmt \in Nat \ {0} /\ ap \in Nat \ {0}
  /\ out \in Seq(Chars)

\* The next character and what is behind it.
LEMMA TakeCh ==
  ASSUME CallTypes, NEW c \in Chars, NEW z \in Seq(Chars), Behind(fmt) = Cons(c, z)
  PROVE  Ch = c /\ Behind(fmt + 1) = z
<1>1. print.fmt \in Seq(Chars) /\ fmt \in Nat \ {0}
  BY DEF CallTypes
<1>2. From(print.fmt, fmt) = Cons(c, z)
  BY DEF Behind
<1>3. print.fmt[fmt] = c
  BY <1>1, <1>2, TakeOne
<1>4. z = From(print.fmt, fmt + 1)
  BY <1>1, <1>2, TakeOne
<1> QED
  BY <1>3, <1>4 DEF Behind, Ch

\* The next argument and what is behind it.
LEMMA TakeArg ==
  ASSUME CallTypes, NEW a \in Args, NEW z \in Seq(Args), ArgsFrom(ap) = Cons(a, z)
  PROVE  Arg = a /\ ArgsFrom(ap + 1) = z
<1>1. print.args \in Seq(Args) /\ ap \in Nat \ {0}
  BY DEF CallTypes
<1>2. From(print.args, ap) = Cons(a, z)
  BY DEF ArgsFrom
<1>3. print.args[ap] = a
  BY <1>1, <1>2, TakeOne
<1>4. z = From(print.args, ap + 1)
  BY <1>1, <1>2, TakeOne
<1> QED
  BY <1>3, <1>4 DEF ArgsFrom, Arg

\* Ten digits.
LEMMA DecimalSet == DecimalChars = {"0", "1", "2", "3", "4", "5", "6", "7", "8", "9"}
<1>1. \A c \in DecimalChars : c \in {"0", "1", "2", "3", "4", "5", "6", "7", "8", "9"}
  BY DEF DecimalChars, DigitChars
<1>2. \A c \in {"0", "1", "2", "3", "4", "5", "6", "7", "8", "9"} : \E i \in 1 .. 10 : c = DigitChars[i]
  BY DEF DigitChars
<1> QED
  BY <1>1, <1>2 DEF DecimalChars

\* The character decides what vprintfmt does.
LEMMA SwitchStep ==
  ASSUME PrintfStep, at = "switch"
  PROVE  /\ Ch \in {"-", "0"} => Flag
         /\ Ch \in DecimalChars \ {"0"} => FirstDigit
         /\ Ch = "*" => Star
         /\ Ch = "." => Dot
         /\ Ch = "c" => Char
         /\ Ch = "s" => Str
         /\ Ch = "d" => Signed
         /\ Ch \in {"u", "o", "x"} => Unsigned
         /\ Ch = "%" => NoArgument
         /\ Ch = "q" => Unknown
BY DecimalSet DEF PrintfStep, Literal, ReturnPrintf, WriteHex, Percent, Flag, FirstDigit, NextDigit,
   LastDigit, Star, Dot, Ignored, Char, Str, Signed, Unsigned, NoArgument, Unknown, Switch, Converts,
   Known

\* Between two conversions, and in a number.
LEMMA OtherStep ==
  ASSUME PrintfStep, CallTypes
  PROVE  /\ at \in {"text", "switch", "digits"}
         /\ at = "text" => Literal \/ ReturnPrintf \/ Percent
         /\ at = "digits" => NextDigit \/ LastDigit
BY DEF PrintfStep, Literal, ReturnPrintf, WriteHex, Percent, Flag, FirstDigit, NextDigit,
   LastDigit, Star, Dot, Ignored, Char, Str, Signed, Unsigned, NoArgument, Unknown, Switch, Converts,
   CallTypes

\* Cons and concatenation over characters.
LEMMA ConsMoves ==
  /\ \A c \in Chars : \A s, t \in Seq(Chars) : Cons(c, s) \o t = Cons(c, s \o t)
  /\ \A c \in Chars : \A s \in Seq(Chars) : Cons(c, s) \in Seq(Chars)
<1>1. ASSUME NEW c \in Chars, NEW s \in Seq(Chars), NEW t \in Seq(Chars)
      PROVE  Cons(c, s) \o t = Cons(c, s \o t) /\ Cons(c, s) \in Seq(Chars)
  <2> DEFINE h == <<c>>
  <2>1. h \in Seq(Chars)
    BY OneChar
  <2>2. Cons(c, s) = h \o s /\ Cons(c, s \o t) = h \o (s \o t)
    BY DEF Cons
  <2> HIDE DEF h
  <2>3. (h \o s) \o t = h \o (s \o t) /\ h \o s \in Seq(Chars)
    BY <2>1, CharMoves
  <2> QED
    BY <2>2, <2>3
<1> QED
  BY <1>1, OneChar

-----------------------------------------------------------------------------
(* Numbers in a format *)

\* A number m is being read: `precision' is what its first digits say, the
\* other ones are next, and z is behind them.
Reading(m, z) ==
  /\ at = "digits" /\ precision \in Nat \ {0}
  /\ \E w \in Seq(DecimalChars) : /\ Numeral(m, 10) = Numeral(precision, 10) \o w
                                  /\ Behind(fmt) = w \o z

\* Digits are characters.
LEMMA DigitsType == Seq(DecimalChars) \subseteq Seq(Chars)
<1>1. DecimalChars \subseteq Chars
  BY DecimalDigits
<1> QED
  BY <1>1, SeqMonotonic

\* The first digit of a number that is not 0 is no flag.
LEMMA BeginReading ==
  ASSUME CallTypes, at = "switch", PrintfStep, NEW m \in Nat \ {0}, NEW z \in Seq(Chars),
         Behind(fmt) = Numeral(m, 10) \o z
  PROVE  FirstDigit /\ Reading(m, z)'
<1>1. PICK v \in 1 .. 9 : \E t \in Seq(DecimalChars) : Numeral(m, 10) = << DigitChars[v + 1] >> \o t
  BY NumeralBegins
<1>2. PICK t \in Seq(DecimalChars) : Numeral(m, 10) = << DigitChars[v + 1] >> \o t
  BY <1>1
<1> DEFINE c == DigitChars[v + 1]
<1>3. c \in DecimalChars \ {"0"} /\ c \in Chars /\ ValueOf(c) = v
  BY DecimalDigits
<1>4. t \in Seq(Chars)
  BY DigitsType
<1>5. Numeral(m, 10) = Cons(c, t)
  BY <1>2 DEF Cons
<1>6. Numeral(v, 10) = <<c>>
  <2>0. v \in Nat /\ v < 10
    BY <1>1
  <2>1. Numeral(v, 10) = (IF v < 10 THEN <<>> ELSE Numeral(v \div 10, 10)) \o LastOf(v, 10)
    BY <2>0, NumeralStep DEF Bases
  <2>2. v % 10 = v
    <3>1. v \div 10 \in Nat /\ v % 10 \in 0 .. 9 /\ v = 10 * (v \div 10) + (v % 10)
      BY <2>0, Quotient DEF Bases
    <3>2. \A q \in Nat : \A r \in 0 .. 9 : v = 10 * q + r => r = v
      BY <2>0
    <3> QED
      BY <3>1, <3>2
  <2>3. <<>> \o <<c>> = <<c>>
    BY <1>3, OneChar, CharMoves
  <2> QED
    BY <2>0, <2>1, <2>2, <2>3 DEF LastOf
<1>7. Numeral(m, 10) = Numeral(v, 10) \o t
  BY <1>5, <1>6 DEF Cons
<1> HIDE DEF c
<1>8. Behind(fmt) = Cons(c, t \o z) /\ t \o z \in Seq(Chars)
  <2>1. Cons(c, t) \o z = Cons(c, t \o z)
    BY <1>3, <1>4, ConsMoves
  <2>2. t \o z \in Seq(Chars)
    BY <1>4, CharMoves
  <2> QED
    BY <1>5, <2>1, <2>2
<1>9. Ch = c /\ Behind(fmt + 1) = t \o z
  BY <1>3, <1>8, TakeCh
<1>10. FirstDigit
  BY <1>3, <1>9, SwitchStep
<1>11. at' = "digits" /\ precision' = v /\ fmt' = fmt + 1 /\ print' = print
  BY <1>3, <1>9, <1>10 DEF FirstDigit, Switch
<1>12. Behind(fmt)' = t \o z
  BY <1>9, <1>11 DEF Behind
<1>13. Reading(m, z)'
  <2>1. v \in Nat \ {0}
    BY <1>1
  <2>2. t \in Seq(DecimalChars)
    BY <1>2
  <2> QED
    BY <1>7, <1>11, <1>12, <2>1, <2>2 DEF Reading
<1> QED
  BY <1>10, <1>13

\* A number is read to its end, and then it is known.
LEMMA GoOnReading ==
  ASSUME CallTypes, PrintfStep, NEW m \in Nat, NEW z \in Seq(Chars),
         NEW e \in Chars \ DecimalChars, NEW y \in Seq(Chars), z = Cons(e, y),
         Reading(m, z)
  PROVE  \/ NextDigit /\ Reading(m, z)'
         \/ LastDigit /\ precision = m /\ Behind(fmt) = z
<1>1. PICK w \in Seq(DecimalChars) : /\ Numeral(m, 10) = Numeral(precision, 10) \o w
                                     /\ Behind(fmt) = w \o z
  BY DEF Reading
<1>2. at = "digits" /\ precision \in Nat \ {0} /\ w \in Seq(Chars) /\ Numeral(precision, 10) \in Seq(Chars)
  BY DigitsType, NumeralType DEF Reading, Bases
<1>3. NextDigit \/ LastDigit
  BY <1>2, OtherStep
<1>4. CASE w = <<>>
  <2>1. Behind(fmt) = z /\ Numeral(m, 10) = Numeral(precision, 10)
    BY <1>1, <1>2, <1>4, CharMoves
  <2>2. precision = m
    BY <1>2, <2>1, NumeralOfOne
  <2>3. Ch = e
    BY <2>1, TakeCh
  <2> QED
    BY <1>3, <2>1, <2>2, <2>3 DEF NextDigit
<1>5. CASE w # <<>>
  <2> DEFINE c == Head(w)
             t == Tail(w)
  <2>1. w = Cons(c, t) /\ c \in DecimalChars /\ t \in Seq(DecimalChars)
    BY <1>5, HeadThenTail
  <2> HIDE DEF c, t
  <2>2. c \in Chars /\ t \in Seq(Chars) /\ t \o z \in Seq(Chars)
    BY <2>1, DecimalDigits, DigitsType, CharMoves
  <2>3. Behind(fmt) = Cons(c, t \o z)
    BY <1>1, <2>1, <2>2, ConsMoves
  <2>4. Ch = c /\ Behind(fmt + 1) = t \o z
    BY <2>2, <2>3, TakeCh
  <2>5. NextDigit
    BY <1>3, <2>1, <2>4 DEF LastDigit
  <2>6. PICK v \in 0 .. 9 : c = DigitChars[v + 1]
    BY <2>1, DecimalDigits
  <2>7. ValueOf(c) = v
    BY <2>6, DecimalDigits
  <2>8. /\ at' = "digits" /\ precision' = 10 * precision + v /\ fmt' = fmt + 1 /\ print' = print
        /\ precision' \in Nat \ {0}
    BY <1>2, <2>4, <2>5, <2>7 DEF NextDigit
  <2>9. Numeral(10 * precision + v, 10) = Numeral(precision, 10) \o <<c>>
    BY <1>2, <2>6, NumeralGrows
  <2> DEFINE p == Numeral(precision, 10)
             h == <<c>>
  <2>10. (p \o h) \o t = p \o (h \o t)
    <3>1. h \in Seq(Chars) /\ p \in Seq(Chars)
      BY <1>2, <2>2, OneChar
    <3> HIDE DEF p, h
    <3> QED
      BY <2>2, <3>1, CharMoves
  <2>11. Numeral(m, 10) = Numeral(10 * precision + v, 10) \o t
    BY <1>1, <2>1, <2>9, <2>10 DEF Cons
  <2>12. Behind(fmt)' = t \o z
    BY <2>4, <2>8 DEF Behind
  <2>13. Reading(m, z)'
    BY <2>1, <2>8, <2>11, <2>12 DEF Reading
  <2> QED
    BY <2>5, <2>13
<1> QED
  BY <1>4, <1>5

-----------------------------------------------------------------------------
(* Inside a conversion: d is the directive, z the format behind it, b the  *)
(* arguments behind its own.                                               *)

StarArg(d) == IF d.star THEN << d.width >> ELSE <<>>
OwnArg(d)  == IF d.conv \in {"literal", "%", "q"} THEN <<>> ELSE << d.arg >>

FromOwn(d, b)  == OwnArg(d) \o b
FromStar(d, b) == StarArg(d) \o FromOwn(d, b)

\* In front of the flag, if there is one.
AtFlag(d, z, b) ==
  /\ at = "switch" /\ Behind(fmt) = FromFlag(d, z) /\ ArgsFrom(ap) = FromStar(d, b)
  /\ padc = " " /\ width = -1 /\ precision = -1

AtWidth(d, z, b) ==
  /\ at = "switch" /\ Behind(fmt) = FromWidth(d, z) /\ ArgsFrom(ap) = FromStar(d, b)
  /\ padc = PadOf(d) /\ width = -1 /\ precision = -1

InWidth(d, z, b) ==
  /\ ~d.star /\ d.width > 0 /\ Reading(d.width, FromPrec(d, z)) /\ ArgsFrom(ap) = FromOwn(d, b)
  /\ padc = PadOf(d) /\ width = -1

AtPrec(d, z, b) ==
  /\ at = "switch" /\ Behind(fmt) = FromPrec(d, z) /\ ArgsFrom(ap) = FromOwn(d, b)
  /\ padc = PadOf(d) /\ width = d.width /\ precision = -1

\* Behind the '.'.
AtNumber(d, z, b) ==
  /\ at = "switch" /\ d.prec > 0 /\ Behind(fmt) = Numeral(d.prec, 10) \o FromConv(d, z)
  /\ ArgsFrom(ap) = FromOwn(d, b)
  /\ padc = PadOf(d) /\ width = Shown(d) /\ precision = -1

InPrec(d, z, b) ==
  /\ d.prec > 0 /\ Reading(d.prec, FromConv(d, z)) /\ ArgsFrom(ap) = FromOwn(d, b)
  /\ padc = PadOf(d) /\ width = Shown(d)

AtConv(d, z, b) ==
  /\ at = "switch" /\ Behind(fmt) = FromConv(d, z) /\ ArgsFrom(ap) = FromOwn(d, b)
  /\ padc = PadOf(d) /\ width = Shown(d) /\ precision = d.prec

Phase(d, z, b) ==
  \/ AtFlag(d, z, b) \/ AtWidth(d, z, b) \/ InWidth(d, z, b) \/ AtPrec(d, z, b)
  \/ AtNumber(d, z, b) \/ InPrec(d, z, b) \/ AtConv(d, z, b)

Directing(d, z, b) ==
  d \in Directives /\ d.conv # "literal" /\ z \in Seq(Chars) /\ b \in Seq(Args)

\* The arguments of a directive are arguments.
LEMMA OwnTypes ==
  ASSUME NEW d, NEW z, NEW b, Directing(d, z, b)
  PROVE  /\ OwnArg(d) \in Seq(Args) /\ StarArg(d) \in Seq(Args)
         /\ FromOwn(d, b) \in Seq(Args) /\ FromStar(d, b) \in Seq(Args)
         /\ ~d.star => FromStar(d, b) = FromOwn(d, b)
         /\ d.star => FromStar(d, b) = Cons(d.width, FromOwn(d, b)) /\ d.width \in Args
         /\ d.conv \in {"%", "q"} => FromOwn(d, b) = b
         /\ d.conv \notin {"%", "q"} => FromOwn(d, b) = Cons(d.arg, b) /\ d.arg \in Args
<1>1. d.arg \in Args /\ d.width \in Args
  BY DirectiveParts, DirectiveNumbers DEF Args, Directing
<1>2. \A a \in Args : <<a>> \in Seq(Args)
  OBVIOUS
<1>3. <<>> \in Seq(Args) /\ \A s \in Seq(Args) : <<>> \o s = s
  BY EmptySeq, ConcatEmptySeq
<1>4. \A s, t \in Seq(Args) : s \o t \in Seq(Args)
  BY ConcatProperties
<1>5. OwnArg(d) \in Seq(Args) /\ StarArg(d) \in Seq(Args) /\ b \in Seq(Args)
  BY <1>1, <1>2, <1>3 DEF OwnArg, StarArg, Directing
<1>6. FromOwn(d, b) \in Seq(Args)
  BY <1>4, <1>5 DEF FromOwn
<1>7. FromStar(d, b) \in Seq(Args)
  BY <1>4, <1>5, <1>6 DEF FromStar
<1>8. /\ ~d.star => FromStar(d, b) = FromOwn(d, b)
      /\ d.star => FromStar(d, b) = Cons(d.width, FromOwn(d, b))
  BY <1>3, <1>6 DEF FromStar, StarArg, Cons
<1>9. /\ d.conv \in {"%", "q"} => FromOwn(d, b) = b
      /\ d.conv \notin {"%", "q"} => FromOwn(d, b) = Cons(d.arg, b)
  BY <1>3, <1>5 DEF FromOwn, OwnArg, Cons, Directing
<1> QED
  BY <1>1, <1>5, <1>6, <1>7, <1>8, <1>9

\* The first character of a part that is there, and the part that is not.
LEMMA FirstOfParts ==
  ASSUME NEW d, NEW z, NEW b, Directing(d, z, b)
  PROVE  /\ d.flag # "" => FromFlag(d, z) = Cons(d.flag, FromWidth(d, z)) /\ d.flag \in {"-", "0"}
         /\ d.flag = "" => FromFlag(d, z) = FromWidth(d, z)
         /\ d.star => FromWidth(d, z) = Cons("*", FromPrec(d, z))
         /\ ~d.star /\ d.width > 0 => FromWidth(d, z) = Numeral(d.width, 10) \o FromPrec(d, z)
         /\ ~d.star /\ ~(d.width > 0) => FromWidth(d, z) = FromPrec(d, z) /\ d.width = -1
         /\ d.prec > 0 => FromPrec(d, z) = Cons(".", Numeral(d.prec, 10) \o FromConv(d, z))
         /\ ~(d.prec > 0) => FromPrec(d, z) = FromConv(d, z) /\ d.prec = -1
         /\ FromConv(d, z) = Cons(d.conv, z)
<1> USE DEF Directing
<1>1. FromConv(d, z) \in Seq(Chars) /\ FromPrec(d, z) \in Seq(Chars) /\ FromWidth(d, z) \in Seq(Chars)
  BY FromTypes
<1>2. /\ d.flag # "" => FromFlag(d, z) = Cons(d.flag, FromWidth(d, z)) /\ d.flag \in {"-", "0"}
      /\ d.flag = "" => FromFlag(d, z) = FromWidth(d, z)
  <2>1. d.flag \in {"", "-", "0"}
    BY DirectiveParts
  <2>2. <<>> \o FromWidth(d, z) = FromWidth(d, z)
    BY <1>1, CharMoves
  <2> QED
    BY <2>1, <2>2 DEF FromFlag, FlagOf, Cons
<1>3. d.star => FromWidth(d, z) = Cons("*", FromPrec(d, z))
  BY DEF FromWidth, WidthOf, Cons
<1>4. d.width \in Int /\ d.width >= -1 /\ (~d.star => d.width # 0)
  BY DirectiveNumbers, DirectiveParts
<1>5. ~d.star /\ d.width > 0 => FromWidth(d, z) = Numeral(d.width, 10) \o FromPrec(d, z)
  <2>1. d.width > 0 => ~(d.width < 0)
    BY <1>4
  <2> QED
    BY <2>1 DEF FromWidth, WidthOf
<1>6. ~d.star /\ ~(d.width > 0) => FromWidth(d, z) = FromPrec(d, z) /\ d.width = -1
  <2>1. <<>> \o FromPrec(d, z) = FromPrec(d, z)
    BY <1>1, CharMoves
  <2>2. ~d.star /\ ~(d.width > 0) => d.width < 0 /\ d.width = -1
    BY <1>4
  <2> QED
    BY <2>1, <2>2 DEF FromWidth, WidthOf
<1>7. d.prec \in Int /\ d.prec >= -1 /\ d.prec # 0
  BY DirectiveNumbers, DirectiveParts
<1>8. d.prec > 0 => FromPrec(d, z) = Cons(".", Numeral(d.prec, 10) \o FromConv(d, z))
  <2> SUFFICES ASSUME d.prec > 0
               PROVE  FromPrec(d, z) = Cons(".", Numeral(d.prec, 10) \o FromConv(d, z))
    OBVIOUS
  <2>1. d.prec \in Nat /\ ~(d.prec < 0)
    BY <1>7
  <2>2. Numeral(d.prec, 10) \in Seq(Chars)
    BY <2>1, NumeralType DEF Bases
  <2>3. PrecOf(d) = Cons(".", Numeral(d.prec, 10))
    BY <2>1 DEF PrecOf, Cons
  <2>4. "." \in Chars
    BY OneChar
  <2>5. Cons(".", Numeral(d.prec, 10)) \o FromConv(d, z) = Cons(".", Numeral(d.prec, 10) \o FromConv(d, z))
    BY <1>1, <2>2, <2>4, ConsMoves
  <2> QED
    BY <2>3, <2>5 DEF FromPrec
<1>9. ~(d.prec > 0) => FromPrec(d, z) = FromConv(d, z) /\ d.prec = -1
  <2>1. <<>> \o FromConv(d, z) = FromConv(d, z)
    BY <1>1, CharMoves
  <2>2. ~(d.prec > 0) => d.prec < 0 /\ d.prec = -1
    BY <1>7
  <2> QED
    BY <2>1, <2>2 DEF FromPrec, PrecOf
<1>10. FromConv(d, z) = Cons(d.conv, z)
  BY DEF FromConv, Cons
<1> QED
  BY <1>2, <1>3, <1>5, <1>6, <1>8, <1>9, <1>10

\* A part that is not there is behind us.
LEMMA SkipParts ==
  ASSUME NEW d, NEW z, NEW b, Directing(d, z, b)
  PROVE  /\ AtFlag(d, z, b) /\ d.flag = "" => AtWidth(d, z, b)
         /\ AtWidth(d, z, b) /\ ~d.star /\ ~(d.width > 0) => AtPrec(d, z, b)
         /\ AtPrec(d, z, b) /\ ~(d.prec > 0) => AtConv(d, z, b)
<1>1. AtFlag(d, z, b) /\ d.flag = "" => AtWidth(d, z, b)
  BY FirstOfParts DEF AtFlag, AtWidth, PadOf
<1>2. AtWidth(d, z, b) /\ ~d.star /\ ~(d.width > 0) => AtPrec(d, z, b)
  BY FirstOfParts, OwnTypes DEF AtWidth, AtPrec
<1>3. AtPrec(d, z, b) /\ ~(d.prec > 0) => AtConv(d, z, b)
  <2>1. ~(d.prec > 0) => FromPrec(d, z) = FromConv(d, z) /\ d.prec = -1
    BY FirstOfParts
  <2>2. d.prec = -1 => Shown(d) = d.width
    BY DEF Shown
  <2> QED
    BY <2>1, <2>2 DEF AtPrec, AtConv
<1> QED
  BY <1>1, <1>2, <1>3

\* A step inside a conversion puts nothing.
Quiet == UNCHANGED <<print, last_fmt, out>>

\* The flag is read.
LEMMA FlagStep ==
  ASSUME CallTypes, PrintfStep, NEW d, NEW z, NEW b, Directing(d, z, b),
         AtFlag(d, z, b), d.flag # ""
  PROVE  AtWidth(d, z, b)' /\ Quiet
<1>1. FromFlag(d, z) = Cons(d.flag, FromWidth(d, z)) /\ d.flag \in {"-", "0"}
  BY FirstOfParts
<1>2. d.flag \in Chars /\ FromWidth(d, z) \in Seq(Chars)
  BY <1>1, OneChar, FromTypes DEF Directing
<1>3. Ch = d.flag /\ Behind(fmt + 1) = FromWidth(d, z)
  BY <1>1, <1>2, TakeCh DEF AtFlag
<1>4. Flag
  BY <1>1, <1>3, SwitchStep DEF AtFlag
<1>5. Behind(fmt)' = Behind(fmt + 1) /\ ArgsFrom(ap)' = ArgsFrom(ap)
  BY <1>4 DEF Flag, Switch, Behind, ArgsFrom
<1> QED
  BY <1>3, <1>4, <1>5 DEF AtFlag, AtWidth, Flag, Switch, PadOf, Quiet

\* The width is given, or begins to be read.
LEMMA WidthStep ==
  ASSUME CallTypes, PrintfStep, NEW d, NEW z, NEW b, Directing(d, z, b),
         AtWidth(d, z, b), d.star \/ d.width > 0
  PROVE  (AtPrec(d, z, b)' \/ InWidth(d, z, b)') /\ Quiet
<1>1. FromPrec(d, z) \in Seq(Chars)
  BY FromTypes DEF Directing
<1>2. CASE d.star
  <2>1. FromWidth(d, z) = Cons("*", FromPrec(d, z)) /\ "*" \in Chars
    BY <1>2, FirstOfParts, OneChar
  <2>2. Ch = "*" /\ Behind(fmt + 1) = FromPrec(d, z)
    BY <1>1, <2>1, TakeCh DEF AtWidth
  <2>3. Star
    BY <2>2, SwitchStep DEF AtWidth
  <2>4. FromStar(d, b) = Cons(d.width, FromOwn(d, b)) /\ d.width \in Args /\ FromOwn(d, b) \in Seq(Args)
    BY <1>2, OwnTypes
  <2>5. Arg = d.width /\ ArgsFrom(ap + 1) = FromOwn(d, b)
    BY <2>4, TakeArg DEF AtWidth
  <2>6. Behind(fmt)' = Behind(fmt + 1) /\ ArgsFrom(ap)' = ArgsFrom(ap + 1)
    BY <2>3 DEF Star, Switch, Behind, ArgsFrom
  <2>7. width' = d.width /\ precision' = -1
    BY <2>3, <2>5 DEF Star, Process, AtWidth
  <2> QED
    BY <2>2, <2>3, <2>5, <2>6, <2>7 DEF AtWidth, AtPrec, Star, Switch, Quiet
<1>3. CASE ~d.star
  <2>1. d.width > 0 /\ d.width \in Nat \ {0}
    BY <1>3, DirectiveNumbers DEF Directing
  <2>2. Behind(fmt) = Numeral(d.width, 10) \o FromPrec(d, z) /\ at = "switch"
    BY <1>3, <2>1, FirstOfParts DEF AtWidth
  <2>3. FirstDigit /\ Reading(d.width, FromPrec(d, z))'
    BY <1>1, <2>1, <2>2, BeginReading
  <2>4. ArgsFrom(ap)' = FromOwn(d, b)
    BY <1>3, <2>3, OwnTypes DEF FirstDigit, Switch, ArgsFrom, AtWidth
  <2> QED
    BY <1>3, <2>1, <2>3, <2>4 DEF AtWidth, InWidth, FirstDigit, Switch, Quiet
<1> QED
  BY <1>2, <1>3

\* A sequence that does not begin with a digit.
NoDigit(s) == \E e \in Chars \ DecimalChars : \E y \in Seq(Chars) : s = Cons(e, y)

\* What follows a number is no digit.
LEMMA BehindNumbers ==
  ASSUME NEW d, NEW z, NEW b, Directing(d, z, b)
  PROVE  NoDigit(FromPrec(d, z)) /\ NoDigit(FromConv(d, z))
<1>1. d.conv \in Chars \ DecimalChars /\ "." \in Chars \ DecimalChars
  <2>1. d.conv \in Chars /\ "." \in Chars /\ d.conv \in Convs
    BY OneChar, DirectiveParts DEF Directing
  <2>2. d.conv \notin DecimalChars /\ "." \notin DecimalChars
    BY <2>1, DecimalSet DEF Convs
  <2> QED
    BY <2>1, <2>2
<1>2. FromConv(d, z) = Cons(d.conv, z) /\ z \in Seq(Chars)
  BY FirstOfParts DEF Directing
<1>3. NoDigit(FromConv(d, z))
  BY <1>1, <1>2 DEF NoDigit
<1>4. CASE ~(d.prec > 0)
  BY <1>3, <1>4, FirstOfParts
<1>5. CASE d.prec > 0
  <2>1. FromPrec(d, z) = Cons(".", Numeral(d.prec, 10) \o FromConv(d, z))
    BY <1>5, FirstOfParts
  <2>2. d.prec \in Nat
    BY <1>5, DirectiveNumbers DEF Directing
  <2>3. Numeral(d.prec, 10) \in Seq(Chars) /\ FromConv(d, z) \in Seq(Chars)
    BY <2>2, NumeralType, FromTypes DEF Bases, Directing
  <2>4. Numeral(d.prec, 10) \o FromConv(d, z) \in Seq(Chars)
    BY <2>3, CharMoves
  <2> QED
    BY <1>1, <1>3, <2>1, <2>4 DEF NoDigit
<1> QED
  BY <1>4, <1>5

\* The width is read to its end.
LEMMA WidthDigitStep ==
  ASSUME CallTypes, PrintfStep, NEW d, NEW z, NEW b, Directing(d, z, b), InWidth(d, z, b)
  PROVE  (AtPrec(d, z, b)' \/ InWidth(d, z, b)') /\ Quiet
<1>1. PICK e \in Chars \ DecimalChars : \E y \in Seq(Chars) : FromPrec(d, z) = Cons(e, y)
  BY BehindNumbers DEF NoDigit
<1>2. PICK y \in Seq(Chars) : FromPrec(d, z) = Cons(e, y)
  BY <1>1
<1>3. d.width \in Nat /\ FromPrec(d, z) \in Seq(Chars) /\ Reading(d.width, FromPrec(d, z))
  BY DirectiveNumbers, FromTypes DEF InWidth, Directing
<1>4. \/ NextDigit /\ Reading(d.width, FromPrec(d, z))'
      \/ LastDigit /\ precision = d.width /\ Behind(fmt) = FromPrec(d, z)
  BY <1>1, <1>2, <1>3, GoOnReading
<1>5. CASE NextDigit /\ Reading(d.width, FromPrec(d, z))'
  <2>1. ArgsFrom(ap)' = ArgsFrom(ap)
    BY <1>5 DEF NextDigit, ArgsFrom
  <2> QED
    BY <1>5, <2>1 DEF InWidth, NextDigit, Quiet
<1>6. CASE LastDigit /\ precision = d.width /\ Behind(fmt) = FromPrec(d, z)
  <2>1. ArgsFrom(ap)' = ArgsFrom(ap) /\ Behind(fmt)' = Behind(fmt)
    BY <1>6 DEF LastDigit, ArgsFrom, Behind
  <2>2. width' = d.width /\ precision' = -1
    BY <1>6 DEF LastDigit, Process, InWidth
  <2> QED
    BY <1>6, <2>1, <2>2 DEF InWidth, AtPrec, LastDigit, Quiet
<1> QED
  BY <1>4, <1>5, <1>6

\* The '.' is read.
LEMMA DotStep ==
  ASSUME CallTypes, PrintfStep, NEW d, NEW z, NEW b, Directing(d, z, b),
         AtPrec(d, z, b), d.prec > 0
  PROVE  AtNumber(d, z, b)' /\ Quiet
<1> DEFINE y == Numeral(d.prec, 10) \o FromConv(d, z)
<1>1. FromPrec(d, z) = Cons(".", y) /\ "." \in Chars
  BY FirstOfParts, OneChar
<1>2. y \in Seq(Chars)
  <2>1. d.prec \in Nat
    BY DirectiveNumbers DEF Directing
  <2>2. Numeral(d.prec, 10) \in Seq(Chars) /\ FromConv(d, z) \in Seq(Chars)
    BY <2>1, NumeralType, FromTypes DEF Bases, Directing
  <2> QED
    BY <2>2, CharMoves
<1> HIDE DEF y
<1>3. Ch = "." /\ Behind(fmt + 1) = y
  BY <1>1, <1>2, TakeCh DEF AtPrec
<1>4. Dot
  BY <1>3, SwitchStep DEF AtPrec
<1>5. Behind(fmt)' = Behind(fmt + 1) /\ ArgsFrom(ap)' = ArgsFrom(ap)
  BY <1>4 DEF Dot, Switch, Behind, ArgsFrom
<1>6. width' = Shown(d)
  <2>1. ~(d.prec < 0)
    BY DirectiveNumbers DEF Directing
  <2> QED
    BY <1>4, <2>1 DEF Dot, AtPrec, Shown
<1> QED
  BY <1>3, <1>4, <1>5, <1>6 DEF AtPrec, AtNumber, Dot, Switch, Quiet, y

\* The precision begins to be read.
LEMMA NumberStep ==
  ASSUME CallTypes, PrintfStep, NEW d, NEW z, NEW b, Directing(d, z, b), AtNumber(d, z, b)
  PROVE  InPrec(d, z, b)' /\ Quiet
<1>1. d.prec \in Nat \ {0} /\ FromConv(d, z) \in Seq(Chars)
  BY DirectiveNumbers, FromTypes DEF Directing, AtNumber
<1>2. FirstDigit /\ Reading(d.prec, FromConv(d, z))'
  BY <1>1, BeginReading DEF AtNumber
<1>3. ArgsFrom(ap)' = ArgsFrom(ap)
  BY <1>2 DEF FirstDigit, Switch, ArgsFrom
<1> QED
  BY <1>2, <1>3 DEF AtNumber, InPrec, FirstDigit, Switch, Quiet

\* The precision is read to its end.
LEMMA PrecDigitStep ==
  ASSUME CallTypes, PrintfStep, NEW d, NEW z, NEW b, Directing(d, z, b), InPrec(d, z, b)
  PROVE  (AtConv(d, z, b)' \/ InPrec(d, z, b)') /\ Quiet
<1>1. PICK e \in Chars \ DecimalChars : \E y \in Seq(Chars) : FromConv(d, z) = Cons(e, y)
  BY BehindNumbers DEF NoDigit
<1>2. PICK y \in Seq(Chars) : FromConv(d, z) = Cons(e, y)
  BY <1>1
<1>3. d.prec \in Nat /\ FromConv(d, z) \in Seq(Chars) /\ Reading(d.prec, FromConv(d, z))
  BY DirectiveNumbers, FromTypes DEF InPrec, Directing
<1>4. \/ NextDigit /\ Reading(d.prec, FromConv(d, z))'
      \/ LastDigit /\ precision = d.prec /\ Behind(fmt) = FromConv(d, z)
  BY <1>1, <1>2, <1>3, GoOnReading
<1>5. CASE NextDigit /\ Reading(d.prec, FromConv(d, z))'
  <2>1. ArgsFrom(ap)' = ArgsFrom(ap)
    BY <1>5 DEF NextDigit, ArgsFrom
  <2> QED
    BY <1>5, <2>1 DEF InPrec, NextDigit, Quiet
<1>6. CASE LastDigit /\ precision = d.prec /\ Behind(fmt) = FromConv(d, z)
  <2>1. ArgsFrom(ap)' = ArgsFrom(ap) /\ Behind(fmt)' = Behind(fmt)
    BY <1>6 DEF LastDigit, ArgsFrom, Behind
  <2>2. width' = Shown(d) /\ precision' = d.prec
    <3>1. ~(Shown(d) < 0)
      BY DirectiveNumbers DEF Shown, Directing, InPrec
    <3> QED
      BY <1>6, <3>1 DEF LastDigit, Process, InPrec
  <2> QED
    BY <1>6, <2>1, <2>2 DEF InPrec, AtConv, LastDigit, Quiet
<1> QED
  BY <1>4, <1>5, <1>6

\* Inside a conversion every step leads on to the conversion character.
LEMMA PhaseStep ==
  ASSUME CallTypes, PrintfStep, NEW d, NEW z, NEW b, Directing(d, z, b), Phase(d, z, b)
  PROVE  AtConv(d, z, b) \/ (Phase(d, z, b)' /\ Quiet)
<1>1. CASE AtFlag(d, z, b) /\ d.flag # ""
  BY <1>1, FlagStep DEF Phase
<1>2. CASE AtWidth(d, z, b) /\ (d.star \/ d.width > 0)
  BY <1>2, WidthStep DEF Phase
<1>3. CASE InWidth(d, z, b)
  BY <1>3, WidthDigitStep DEF Phase
<1>4. CASE AtPrec(d, z, b) /\ d.prec > 0
  BY <1>4, DotStep DEF Phase
<1>5. CASE AtNumber(d, z, b)
  BY <1>5, NumberStep DEF Phase
<1>6. CASE InPrec(d, z, b)
  BY <1>6, PrecDigitStep DEF Phase
<1> QED
  BY <1>1, <1>2, <1>3, <1>4, <1>5, <1>6, SkipParts DEF Phase

-----------------------------------------------------------------------------
(* What is left of a call *)

SpelledF == [d \in Directives |-> Spelled(d)]
ArgsF    == [d \in Directives |-> ArgsOf(d)]
TextF    == [d \in Directives |-> Text(d, ULong)]

FormatOf(rest)    == Spread(SpelledF, rest) \o <<"NUL">>
ArgumentsOf(rest) == Spread(ArgsF, rest)
TextsOf(rest)     == Spread(TextF, rest)

\* The three are functions to sequences.
LEMMA SpreadFunctions ==
  /\ SpelledF \in [Directives -> Seq(Chars)]
  /\ ArgsF \in [Directives -> Seq(Args)]
  /\ TextF \in [Directives -> Seq(Chars)]
  /\ \A d \in Directives : ArgsOf(d) = StarArg(d) \o OwnArg(d)
<1>1. ASSUME NEW d \in Directives PROVE Spelled(d) \in Seq(Chars)
  <2>1. d.conv = "literal" => << d.arg >> \in Seq(Chars)
    BY DirectiveParts, OneChar
  <2> QED
    BY <2>1, SpelledAs
<1>2. ASSUME NEW d \in Directives
      PROVE  ArgsOf(d) = StarArg(d) \o OwnArg(d) /\ ArgsOf(d) \in Seq(Args)
  <2>1. ArgsOf(d) = StarArg(d) \o OwnArg(d)
    BY DEF ArgsOf, StarArg, OwnArg
  <2>2. StarArg(d) \in Seq(Args) /\ OwnArg(d) \in Seq(Args)
    <3>1. d.arg \in Args /\ d.width \in Args
      BY DirectiveParts, DirectiveNumbers DEF Args
    <3>2. \A a \in Args : <<a>> \in Seq(Args)
      OBVIOUS
    <3>3. <<>> \in Seq(Args)
      BY EmptySeq
    <3> QED
      BY <3>1, <3>2, <3>3 DEF StarArg, OwnArg
  <2> QED
    BY <2>1, <2>2, ConcatProperties
<1>3. \A d \in Directives : Text(d, ULong) \in Seq(Chars)
  BY TextType
<1> QED
  BY <1>1, <1>2, <1>3 DEF SpelledF, ArgsF, TextF

\* They are sequences of characters and of arguments.
LEMMA RestTypes ==
  ASSUME NEW rest \in Seq(Directives)
  PROVE  /\ Spread(SpelledF, rest) \in Seq(Chars) /\ FormatOf(rest) \in Seq(Chars)
         /\ ArgumentsOf(rest) \in Seq(Args) /\ TextsOf(rest) \in Seq(Chars)
<1>1. /\ Spread(SpelledF, rest) \in Seq(Chars) /\ Spread(ArgsF, rest) \in Seq(Args)
      /\ Spread(TextF, rest) \in Seq(Chars)
  BY SpreadFunctions, SpreadStep
<1>2. <<"NUL">> \in Seq(Chars)
  BY OneChar
<1>3. FormatOf(rest) \in Seq(Chars)
  BY <1>1, <1>2, CharMoves DEF FormatOf
<1> QED
  BY <1>1, <1>3 DEF ArgumentsOf, TextsOf

\* The first directive comes first.
LEMMA RestCons ==
  ASSUME NEW d \in Directives, NEW rest \in Seq(Directives)
  PROVE  /\ Cons(d, rest) \in Seq(Directives)
         /\ FormatOf(Cons(d, rest)) = Spelled(d) \o FormatOf(rest)
         /\ ArgumentsOf(Cons(d, rest)) = ArgsOf(d) \o ArgumentsOf(rest)
         /\ TextsOf(Cons(d, rest)) = Text(d, ULong) \o TextsOf(rest)
<1>1. /\ Spread(SpelledF, Cons(d, rest)) = SpelledF[d] \o Spread(SpelledF, rest)
      /\ Spread(ArgsF, Cons(d, rest)) = ArgsF[d] \o Spread(ArgsF, rest)
      /\ Spread(TextF, Cons(d, rest)) = TextF[d] \o Spread(TextF, rest)
  <2>1. Spread(SpelledF, Cons(d, rest)) = SpelledF[d] \o Spread(SpelledF, rest)
    <3>1. \A g \in [Directives -> Seq(Chars)] : Spread(g, Cons(d, rest)) = g[d] \o Spread(g, rest)
      BY SpreadCons
    <3> QED
      BY <3>1, SpreadFunctions
  <2>2. Spread(ArgsF, Cons(d, rest)) = ArgsF[d] \o Spread(ArgsF, rest)
    <3>1. \A g \in [Directives -> Seq(Args)] : Spread(g, Cons(d, rest)) = g[d] \o Spread(g, rest)
      BY SpreadCons
    <3> QED
      BY <3>1, SpreadFunctions
  <2>3. Spread(TextF, Cons(d, rest)) = TextF[d] \o Spread(TextF, rest)
    <3>1. \A g \in [Directives -> Seq(Chars)] : Spread(g, Cons(d, rest)) = g[d] \o Spread(g, rest)
      BY SpreadCons
    <3> QED
      BY <3>1, SpreadFunctions
  <2> QED
    BY <2>1, <2>2, <2>3
<1>2. SpelledF[d] = Spelled(d) /\ ArgsF[d] = ArgsOf(d) /\ TextF[d] = Text(d, ULong)
  BY DEF SpelledF, ArgsF, TextF
<1>3. Spelled(d) \in Seq(Chars)
  BY <1>2, SpreadFunctions
<1>4. FormatOf(Cons(d, rest)) = Spelled(d) \o FormatOf(rest)
  <2> DEFINE v == Spelled(d)
             w == Spread(SpelledF, rest)
             x == <<"NUL">>
  <2>1. v \in Seq(Chars) /\ w \in Seq(Chars) /\ x \in Seq(Chars)
    BY <1>3, RestTypes, OneChar
  <2>2. FormatOf(Cons(d, rest)) = (v \o w) \o x /\ FormatOf(rest) = w \o x
    BY <1>1, <1>2 DEF FormatOf
  <2> HIDE DEF v, w, x
  <2>3. (v \o w) \o x = v \o (w \o x)
    BY <2>1, CharMoves
  <2> QED
    BY <2>2, <2>3 DEF v
<1> QED
  BY <1>1, <1>2, <1>4, ConsParts DEF ArgumentsOf, TextsOf

\* A literal character is a directive of its own.
LEMMA LiteralRest ==
  ASSUME NEW d \in Directives, d.conv = "literal", NEW rest \in Seq(Directives)
  PROVE  /\ d.arg \in Chars \ {"%", "NUL"}
         /\ FormatOf(Cons(d, rest)) = Cons(d.arg, FormatOf(rest))
         /\ ArgumentsOf(Cons(d, rest)) = ArgumentsOf(rest)
         /\ TextsOf(Cons(d, rest)) = Cons(d.arg, TextsOf(rest))
<1>1. d.arg \in Chars \ {"%", "NUL"} /\ ~d.star /\ d.width < 0
  <2>1. d.arg \in Chars \ {"%", "NUL"} /\ d.width < 0
    BY DirectiveParts DEF Standard
  <2>2. d.star => d.width >= 0
    BY DirectiveParts
  <2>3. d.width \in Int
    BY DirectiveNumbers
  <2> QED
    BY <2>1, <2>2, <2>3
<1>2. Spelled(d) = << d.arg >>
  BY SpelledAs
<1>3. Text(d, ULong) = << d.arg >>
  <2>1. << d.arg >> \in Seq(Chars)
    BY <1>1, OneChar
  <2>2. Padded(d, << d.arg >>) = << d.arg >>
    BY <1>1, <2>1, NoWidth
  <2> QED
    BY <2>2, TextCases
<1>4. ArgsOf(d) \o ArgumentsOf(rest) = ArgumentsOf(rest)
  <2>1. StarArg(d) = <<>> /\ OwnArg(d) = <<>>
    BY <1>1 DEF StarArg, OwnArg
  <2>2. ArgsOf(d) = <<>> \o <<>> /\ ArgumentsOf(rest) \in Seq(Args)
    BY <2>1, SpreadFunctions, RestTypes
  <2>3. \A s \in Seq(Args) : <<>> \o s = s
    BY ConcatEmptySeq
  <2>4. <<>> \in Seq(Args)
    BY EmptySeq
  <2>5. ArgsOf(d) = <<>>
    BY <2>2, <2>3, <2>4
  <2> QED
    BY <2>2, <2>3, <2>5
<1> QED
  BY <1>1, <1>2, <1>3, <1>4, RestCons DEF Cons

\* Between two directives, and in one.
Between(rest) ==
  /\ at = "text" /\ Behind(fmt) = FormatOf(rest) /\ ArgsFrom(ap) = ArgumentsOf(rest)
  /\ out \o TextsOf(rest) = print.text

Within(d, rest) ==
  /\ Directing(d, FormatOf(rest), ArgumentsOf(rest))
  /\ Phase(d, FormatOf(rest), ArgumentsOf(rest))
  /\ Behind(last_fmt) = FromFlag(d, FormatOf(rest))
  /\ out \o (Text(d, ULong) \o TextsOf(rest)) = print.text

\* A directive's text is put in front of what is left.
LEMMA PutText ==
  /\ \A s, t, u \in Seq(Chars) : (s \o t) \o u = s \o (t \o u)
  /\ \A c \in Chars : \A s, t \in Seq(Chars) : Append(s, c) \o t = s \o Cons(c, t) /\ Append(s, c) \in Seq(Chars)
<1>1. ASSUME NEW c \in Chars, NEW s \in Seq(Chars), NEW t \in Seq(Chars)
      PROVE  Append(s, c) \o t = s \o Cons(c, t) /\ Append(s, c) \in Seq(Chars)
  <2> DEFINE h == <<c>>
  <2>1. Append(s, c) = s \o h /\ h \in Seq(Chars)
    BY AppendIsConcat, OneChar
  <2>2. Cons(c, t) = h \o t
    BY DEF Cons
  <2> HIDE DEF h
  <2>3. (s \o h) \o t = s \o (h \o t) /\ s \o h \in Seq(Chars)
    BY <2>1, CharMoves
  <2> QED
    BY <2>1, <2>2, <2>3
<1> QED
  BY <1>1, CharMoves

\* The end of the format.
LEMMA EndStep ==
  ASSUME CallTypes, PrintfStep, Between(<<>>)
  PROVE  at' = "done" /\ PrintsText' /\ UNCHANGED <<print, fmt, last_fmt, ap>> /\ out' \in Seq(Chars)
<1>1. FormatOf(<<>>) = Cons("NUL", <<>>) /\ TextsOf(<<>>) = <<>>
  <2>1. <<"NUL">> \in Seq(Chars)
    BY OneChar
  <2>2. <<>> \o <<"NUL">> = <<"NUL">> /\ <<"NUL">> \o <<>> = <<"NUL">>
    BY <2>1, CharMoves
  <2>3. Spread(SpelledF, <<>>) = <<>> /\ Spread(TextF, <<>>) = <<>>
    BY SpreadEmpty
  <2> QED
    BY <2>2, <2>3 DEF FormatOf, TextsOf, Cons
<1>2. Ch = "NUL"
  BY <1>1, TakeCh, OneChar DEF Between
<1>3. ReturnPrintf
  BY <1>2, OtherStep DEF Between, Literal, Percent
<1>4. out = print.text /\ out \in Seq(Chars)
  <2>1. out \o <<>> = out
    BY CharMoves DEF CallTypes
  <2> QED
    BY <1>1, <2>1 DEF Between, CallTypes
<1>5. Append(out, "NUL") = out \o <<"NUL">> /\ Append(out, "NUL") \in Seq(Chars) /\ out \o <<>> = out
  BY <1>4, AppendIsConcat, PutText, OneChar, CharMoves
<1> QED
  BY <1>3, <1>4, <1>5 DEF ReturnPrintf, PrintsText, conversion

\* The first directive of what is left.
LEMMA BeginStep ==
  ASSUME CallTypes, PrintfStep, NEW d \in Directives, NEW rest \in Seq(Directives),
         Between(Cons(d, rest))
  PROVE  /\ Between(rest)' \/ Within(d, rest)'
         /\ print' = print /\ ap' = ap /\ fmt' = fmt + 1 /\ last_fmt' \in {last_fmt, fmt + 1}
         /\ out' \in Seq(Chars)
<1>1. FormatOf(rest) \in Seq(Chars) /\ ArgumentsOf(rest) \in Seq(Args) /\ TextsOf(rest) \in Seq(Chars)
  BY RestTypes
<1>2. out \in Seq(Chars)
  BY DEF CallTypes
<1>3. CASE d.conv = "literal"
  <2>1. /\ d.arg \in Chars \ {"%", "NUL"}
        /\ FormatOf(Cons(d, rest)) = Cons(d.arg, FormatOf(rest))
        /\ ArgumentsOf(Cons(d, rest)) = ArgumentsOf(rest)
        /\ TextsOf(Cons(d, rest)) = Cons(d.arg, TextsOf(rest))
    BY <1>3, LiteralRest
  <2>2. Ch = d.arg /\ Behind(fmt + 1) = FormatOf(rest)
    BY <1>1, <2>1, TakeCh DEF Between
  <2>3. Literal
    BY <2>1, <2>2, OtherStep DEF Between, ReturnPrintf, Percent
  <2>4. out' = Append(out, d.arg) /\ out' \in Seq(Chars) /\ out' \o TextsOf(rest) = print.text
    <3>1. out' = Append(out, d.arg)
      BY <2>2, <2>3 DEF Literal
    <3>2. /\ Append(out, d.arg) \o TextsOf(rest) = out \o Cons(d.arg, TextsOf(rest))
          /\ Append(out, d.arg) \in Seq(Chars)
      BY <1>1, <1>2, <2>1, PutText
    <3> QED
      BY <2>1, <3>1, <3>2 DEF Between
  <2>5. Behind(fmt)' = Behind(fmt + 1) /\ ArgsFrom(ap)' = ArgsFrom(ap)
    BY <2>3 DEF Literal, Behind, ArgsFrom
  <2>6. print' = print /\ ap' = ap /\ fmt' = fmt + 1 /\ last_fmt' = last_fmt /\ at' = "text"
    BY <2>3 DEF Literal, conversion, Between
  <2>7. Between(rest)'
    BY <2>1, <2>2, <2>4, <2>5, <2>6 DEF Between
  <2> QED
    BY <2>4, <2>6, <2>7
<1>4. CASE d.conv # "literal"
  <2> DEFINE z == FormatOf(rest)
             b == ArgumentsOf(rest)
  <2>1. Directing(d, z, b)
    BY <1>1, <1>4 DEF Directing
  <2>2. Spelled(d) \o z = Cons("%", FromFlag(d, z)) /\ FromFlag(d, z) \in Seq(Chars)
    BY <1>1, <1>4, SpelledAs, FromTypes DEF Cons
  <2>3. Ch = "%" /\ Behind(fmt + 1) = FromFlag(d, z)
    <3>1. FormatOf(Cons(d, rest)) = Cons("%", FromFlag(d, z)) /\ "%" \in Chars
      BY <2>2, RestCons, OneChar
    <3> HIDE DEF z
    <3> QED
      BY <2>2, <3>1, TakeCh DEF Between
  <2>4. Percent
    BY <2>3, OtherStep DEF Between, Literal, ReturnPrintf
  <2>5. ArgsOf(d) \o b = FromStar(d, b)
    <3> DEFINE v == StarArg(d)
               w == OwnArg(d)
    <3>1. v \in Seq(Args) /\ w \in Seq(Args) /\ b \in Seq(Args)
      BY <2>1, OwnTypes DEF Directing
    <3>2. ArgsOf(d) = v \o w /\ FromStar(d, b) = v \o (w \o b)
      BY SpreadFunctions DEF FromStar, FromOwn
    <3> HIDE DEF v, w, b
    <3>3. (v \o w) \o b = v \o (w \o b)
      BY <3>1, ConcatAssociative
    <3> QED
      BY <3>2, <3>3
  <2>6. /\ Behind(fmt)' = Behind(fmt + 1) /\ ArgsFrom(ap)' = ArgsFrom(ap)
        /\ Behind(last_fmt)' = Behind(fmt + 1)
    BY <2>4 DEF Percent, Behind, ArgsFrom
  <2>7. AtFlag(d, z, b)'
    <3>1. ArgsFrom(ap) = FromStar(d, b)
      BY <2>5, RestCons DEF Between
    <3> HIDE DEF z, b
    <3> QED
      BY <2>3, <2>4, <2>6, <3>1 DEF AtFlag, Percent
  <2>8. /\ print' = print /\ ap' = ap /\ fmt' = fmt + 1 /\ last_fmt' = fmt + 1
        /\ out' = out
    BY <2>4 DEF Percent
  <2>9. out \o (Text(d, ULong) \o TextsOf(rest)) = print.text
    BY RestCons DEF Between
  <2>10. Within(d, rest)'
    <3>1. Phase(d, z, b)'
      BY <2>7 DEF Phase
    <3> QED
      BY <2>1, <2>3, <2>6, <2>8, <2>9, <3>1 DEF Within
  <2> QED
    BY <1>2, <2>8, <2>10
<1> QED
  BY <1>3, <1>4

\* A conversion printf.c has puts the text of the directive.
LEMMA KnownPuts ==
  ASSUME CallTypes, PrintfStep, NEW d, NEW z, NEW b, Directing(d, z, b), AtConv(d, z, b), d.conv # "q"
  PROVE  /\ out' = out \o Text(d, ULong) /\ at' = "text"
         /\ print' = print /\ last_fmt' = last_fmt /\ fmt' = fmt + 1 /\ ap' \in {ap, ap + 1}
         /\ Behind(fmt)' = z /\ ArgsFrom(ap)' = b
<1> USE DEF Directing
<1>1. FromConv(d, z) = Cons(d.conv, z) /\ d.conv \in Chars /\ d.conv \in Convs
  BY FirstOfParts, OneChar, DirectiveParts
<1>2. Ch = d.conv /\ Behind(fmt + 1) = z
  BY <1>1, TakeCh DEF AtConv
<1>3. d.conv # "%" => Arg = d.arg /\ ArgsFrom(ap + 1) = b
  <2> SUFFICES ASSUME d.conv # "%" PROVE Arg = d.arg /\ ArgsFrom(ap + 1) = b
    OBVIOUS
  <2>1. FromOwn(d, b) = Cons(d.arg, b) /\ d.arg \in Args
    BY OwnTypes
  <2> QED
    BY <2>1, TakeArg DEF AtConv
<1>4. d.conv = "%" => ArgsFrom(ap) = b
  BY OwnTypes DEF AtConv
<1>5. padc = PadOf(d) /\ width = Shown(d) /\ precision = d.prec /\ at = "switch"
  BY DEF AtConv
<1>6. d.conv # "s" => Shown(d) = d.width
  <2>1. d.conv # "s" => d.prec < 0
    BY <1>1, DirectiveParts DEF Standard, Convs
  <2> QED
    BY <2>1 DEF Shown
<1>7. \A s, n : Converts({d.conv}, s, n) =>
        /\ out' = out \o s /\ at' = "text" /\ ap' = ap + n
        /\ print' = print /\ last_fmt' = last_fmt /\ fmt' = fmt + 1
  BY DEF Converts, Switch
<1>8. \E s, n : /\ Converts({d.conv}, s, n) /\ s = Text(d, ULong)
                /\ n = IF d.conv = "%" THEN 0 ELSE 1
  <2>1. CASE d.conv = "c"
    <3>1. Text(d, ULong) = << Arg >>
      <4>1. d.width < 0 /\ << d.arg >> \in Seq(Chars)
        BY <2>1, DirectiveParts, OneChar DEF Standard
      <4> QED
        BY <1>3, <2>1, <4>1, NoWidth, TextCases
    <3> QED
      BY <1>2, <1>5, <2>1, <3>1, SwitchStep DEF Char
  <2>2. CASE d.conv = "s"
    <3>1. Text(d, ULong) = PrintStr(Nullable(Arg))
      BY <1>3, <1>5, <2>2, StringText, TextCases
    <3> QED
      BY <1>2, <1>5, <2>2, <3>1, SwitchStep DEF Str
  <2>3. CASE d.conv = "%"
    <3>1. Text(d, ULong) = << "%" >>
      <4>1. d.width < 0 /\ << "%" >> \in Seq(Chars)
        BY <2>3, DirectiveParts, OneChar DEF Standard
      <4> QED
        BY <2>3, <4>1, NoWidth, TextCases
    <3>2. NoArgument
      BY <1>2, <1>5, <2>3, SwitchStep
    <3>3. Converts({"%"}, << "%" >>, 0)
      BY <1>2, <2>3, <3>2 DEF NoArgument, Converts, Switch
    <3> QED
      BY <2>3, <3>1, <3>3
  <2>4. CASE d.conv = "d"
    <3>1. d.arg \in Int /\ d.flag # "-" /\ (d.arg < 0 => d.width < 0) /\ width = d.width
      BY <1>5, <1>6, <2>4, DirectiveParts DEF Standard
    <3>2. ~(d.arg < 0) => PrintNum(d.arg, 10) = Text(d, ULong)
      <4> SUFFICES ASSUME ~(d.arg < 0) PROVE PrintNum(d.arg, 10) = Text(d, ULong)
        OBVIOUS
      <4>1. d.arg \in Nat
        BY <3>1
      <4>2. PrintNum(d.arg, 10) = Padded(d, Numeral(d.arg, 10))
        BY <1>5, <3>1, <4>1, NumberText DEF Bases
      <4> QED
        BY <2>4, <4>2, TextCases
    <3>3. d.arg < 0 => << "-" >> \o PrintNum(-d.arg, 10) = Text(d, ULong)
      <4> SUFFICES ASSUME d.arg < 0 PROVE << "-" >> \o PrintNum(-d.arg, 10) = Text(d, ULong)
        OBVIOUS
      <4>1. -d.arg \in Nat /\ d.width < 0
        BY <3>1
      <4>2. PrintNum(-d.arg, 10) = Numeral(-d.arg, 10) /\ Numeral(-d.arg, 10) \in Seq(Chars)
        BY <1>5, <3>1, <4>1, NumberText, NumeralType DEF Bases
      <4> DEFINE body == << "-" >> \o Numeral(-d.arg, 10)
      <4>3. body \in Seq(Chars)
        BY <4>2, OneChar, CharMoves
      <4>4. Text(d, ULong) = Padded(d, body)
        BY <2>4, TextCases
      <4> HIDE DEF body
      <4>5. Padded(d, body) = body
        BY <4>1, <4>3, NoWidth
      <4> QED
        BY <4>2, <4>4, <4>5 DEF body
    <3>4. Signed
      BY <1>2, <1>5, <2>4, SwitchStep
    <3>5. Converts({"d"}, Text(d, ULong), 1)
      BY <1>3, <2>4, <3>2, <3>3, <3>4 DEF Signed
    <3> QED
      BY <2>4, <3>5
  <2>5. CASE d.conv \in {"u", "o", "x"}
    <3>1. d.arg \in Int /\ d.flag # "-" /\ width = d.width
      BY <1>5, <1>6, <2>5, DirectiveParts DEF Standard
    <3>2. d.arg % ULong \in Nat
      BY <3>1, ULongMod
    <3>3. /\ PrintNum(d.arg % ULong, 10) = Padded(d, Numeral(d.arg % ULong, 10))
          /\ PrintNum(d.arg % ULong, 8) = Padded(d, Numeral(d.arg % ULong, 8))
          /\ PrintNum(d.arg % ULong, 16) = Padded(d, Numeral(d.arg % ULong, 16))
      BY <1>5, <3>1, <3>2, NumberText DEF Bases
    <3>4. Unsigned
      BY <1>2, <1>5, <2>5, SwitchStep
    <3>5. Arg = d.arg /\ Ch = d.conv
      BY <1>2, <1>3, <2>5
    <3>6. \/ d.conv = "u" /\ Converts({"u"}, PrintNum(Arg % ULong, 10), 1)
          \/ d.conv = "o" /\ Converts({"o"}, PrintNum(Arg % ULong, 8), 1)
          \/ d.conv = "x" /\ Converts({"x"}, PrintNum(Arg % ULong, 16), 1)
      BY <2>5, <3>4, <3>5 DEF Unsigned, Converts, Switch
    <3>7. Converts({d.conv}, Text(d, ULong), 1)
      BY <3>3, <3>5, <3>6, TextCases
    <3> QED
      BY <2>5, <3>7
  <2> QED
    BY <1>1, <2>1, <2>2, <2>3, <2>4, <2>5 DEF Convs
<1>9. /\ out' = out \o Text(d, ULong) /\ at' = "text" /\ print' = print /\ last_fmt' = last_fmt
      /\ fmt' = fmt + 1 /\ ap' = ap + (IF d.conv = "%" THEN 0 ELSE 1)
  BY <1>7, <1>8
<1>10. ap \in Nat
  BY DEF CallTypes
<1>11. d.conv = "%" => ap' = ap
  BY <1>9, <1>10
<1>12. Behind(fmt)' = z /\ ArgsFrom(ap)' = b
  BY <1>2, <1>3, <1>4, <1>9, <1>11 DEF Behind, ArgsFrom
<1> QED
  BY <1>9, <1>11, <1>12

\* A literal character as a directive.
Lit(c) == Piece("literal", c)

\* It is one.
LEMMA LitType ==
  ASSUME NEW c \in Chars \ {"%", "NUL"}
  PROVE  Lit(c) \in Directives /\ Lit(c).conv = "literal" /\ Lit(c).arg = c
<1> DEFINE d == Lit(c)
           R == [ flag : {"", "-", "0"}, width : {-1} \cup Nat, star : BOOLEAN,
                  prec : {-1} \cup Nat, conv : Convs, arg : Args ]
<1>1. c \in Args /\ "literal" \in Convs
  BY DEF Args, Convs
<1>2. d = [flag |-> "", width |-> -1, star |-> FALSE, prec |-> -1, conv |-> "literal", arg |-> c]
  BY DEF Lit, Piece
<1>3. d \in R
  <2>1. [flag |-> "", width |-> -1, star |-> FALSE, prec |-> -1, conv |-> "literal", arg |-> c] \in R
    BY <1>1
  <2> QED
    BY <1>2, <2>1, Zenon
<1>4. /\ d.flag = "" /\ d.width = -1 /\ ~d.star /\ d.prec = -1 /\ d.conv = "literal"
      /\ d.arg = c
  <2>1. d.flag = "" /\ d.conv = "literal" /\ d.arg = c
    BY DEF Lit, Piece
  <2>2. d.width = -1 /\ d.prec = -1
    BY DEF Lit, Piece
  <2>3. d.star = FALSE
    BY DEF Lit, Piece
  <2> QED
    BY <2>1, <2>2, <2>3
<1>5. -1 < 0 /\ -1 # 0
  OBVIOUS
<1> HIDE DEF d, R
<1>6. Standard(d)
  BY <1>4, <1>5 DEF Standard
<1>7. Directive(d)
  BY <1>4, <1>5, <1>6 DEF Directive
<1>8. d \in Directives
  BY <1>3, <1>4, <1>7 DEF Directives, R
<1> QED
  BY <1>4, <1>8 DEF d

\* A conversion printf.c does not have puts its '%', and goes back behind it:
\* what is left of it are literal characters.
LEMMA UnknownPuts ==
  ASSUME CallTypes, PrintfStep, NEW d, NEW rest \in Seq(Directives), Within(d, rest),
         AtConv(d, FormatOf(rest), ArgumentsOf(rest)), d.conv = "q"
  PROVE  /\ \E more \in Seq(Directives) : Between(more)'
         /\ print' = print /\ ap' = ap /\ fmt' = last_fmt /\ last_fmt' = last_fmt
         /\ out' \in Seq(Chars)
<1> DEFINE z == FormatOf(rest)
           b == ArgumentsOf(rest)
           t == TextsOf(rest)
<1>1. z \in Seq(Chars) /\ b \in Seq(Args) /\ t \in Seq(Chars) /\ out \in Seq(Chars)
  BY RestTypes DEF CallTypes
<1>2. Directing(d, z, b) /\ Directing(d, t, b) /\ d \in Directives
  BY <1>1 DEF Within, Directing
<1>3. d.width < 0 /\ d.prec < 0 /\ ~d.star /\ d.flag \in {"", "-", "0"}
  <2>1. d.width < 0 /\ d.prec < 0 /\ (d.star => d.width >= 0) /\ d.flag \in {"", "-", "0"}
    BY <1>2, DirectiveParts DEF Standard
  <2>2. d.width \in Int
    BY <1>2, DirectiveNumbers
  <2>3. d.width < 0
    BY <2>1
  <2>4. ~(d.width >= 0)
    BY <2>2, <2>3
  <2> QED
    BY <2>1, <2>4
<1>4. Ch = "q"
  <2>0. FromConv(d, z) = Cons(d.conv, z)
    BY <1>2, FirstOfParts
  <2>1. FromConv(d, z) = Cons("q", z) /\ "q" \in Chars
    BY <2>0, OneChar
  <2> HIDE DEF z
  <2> QED
    BY <1>1, <2>1, TakeCh DEF AtConv, z
<1>5. Unknown
  BY <1>4, SwitchStep DEF AtConv
<1>6. /\ out' = Append(out, "%") /\ fmt' = last_fmt /\ at' = "text"
      /\ print' = print /\ ap' = ap /\ last_fmt' = last_fmt
  BY <1>5 DEF Unknown, conversion
<1> DEFINE rest1 == Cons(Lit("q"), rest)
           rest2 == Cons(Lit(d.flag), rest1)
           more  == IF d.flag = "" THEN rest1 ELSE rest2
           spell(u) == IF d.flag = "" THEN Cons("q", u) ELSE Cons(d.flag, Cons("q", u))
<1>7. "q" \in Chars \ {"%", "NUL"} /\ (d.flag # "" => d.flag \in Chars \ {"%", "NUL"})
  BY <1>3, OneChar
<1>8. /\ rest1 \in Seq(Directives) /\ FormatOf(rest1) = Cons("q", z)
      /\ ArgumentsOf(rest1) = b /\ TextsOf(rest1) = Cons("q", t)
  <2>1. Lit("q") \in Directives /\ Lit("q").conv = "literal" /\ Lit("q").arg = "q"
    BY <1>7, LitType
  <2> HIDE DEF z, b, t
  <2> QED
    BY <2>1, LiteralRest, RestCons DEF z, b, t
<1>9. d.flag # "" => /\ rest2 \in Seq(Directives) /\ FormatOf(rest2) = Cons(d.flag, Cons("q", z))
                     /\ ArgumentsOf(rest2) = b /\ TextsOf(rest2) = Cons(d.flag, Cons("q", t))
  <2> SUFFICES ASSUME d.flag # ""
               PROVE  /\ rest2 \in Seq(Directives) /\ FormatOf(rest2) = Cons(d.flag, Cons("q", z))
                      /\ ArgumentsOf(rest2) = b /\ TextsOf(rest2) = Cons(d.flag, Cons("q", t))
    OBVIOUS
  <2>1. Lit(d.flag) \in Directives /\ Lit(d.flag).conv = "literal" /\ Lit(d.flag).arg = d.flag
    BY <1>7, LitType
  <2> HIDE DEF rest1, z, b, t
  <2> QED
    BY <1>8, <2>1, LiteralRest, RestCons
<1>10. /\ more \in Seq(Directives) /\ FormatOf(more) = spell(z)
       /\ ArgumentsOf(more) = b /\ TextsOf(more) = spell(t)
  <2> HIDE DEF rest1, rest2, z, b, t
  <2> QED
    BY <1>8, <1>9
<1>11. ASSUME NEW u \in Seq(Chars), Directing(d, u, b) PROVE FromFlag(d, u) = spell(u)
  <2>1. ~(d.width > 0) /\ ~(d.prec > 0)
    <3>1. d.width \in Int /\ d.prec \in Int
      BY <1>2, DirectiveNumbers
    <3>2. d.width < 0 /\ d.prec < 0
      BY <1>3
    <3> QED
      BY <3>1, <3>2
  <2>2. FromWidth(d, u) = FromPrec(d, u) /\ FromPrec(d, u) = FromConv(d, u) /\ FromConv(d, u) = Cons("q", u)
    BY <1>3, <1>11, <2>1, FirstOfParts
  <2>3. /\ d.flag # "" => FromFlag(d, u) = Cons(d.flag, FromWidth(d, u))
        /\ d.flag = "" => FromFlag(d, u) = FromWidth(d, u)
    BY <1>11, FirstOfParts
  <2> QED
    BY <2>2, <2>3
<1>12. FromFlag(d, z) = spell(z) /\ FromFlag(d, t) = spell(t)
  <2> HIDE DEF spell, z, t, b
  <2> QED
    BY <1>1, <1>2, <1>11
<1>13. Text(d, ULong) = Spelled(d) /\ Spelled(d) \o t = Cons("%", spell(t)) /\ spell(t) \in Seq(Chars)
  <2>1. Spelled(d) \in Seq(Chars)
    BY <1>2, SpelledAs
  <2>2. Padded(d, Spelled(d)) = Spelled(d)
    BY <1>2, <1>3, <2>1, NoWidth
  <2>3. Text(d, ULong) = Padded(d, Spelled(d))
    BY <1>2, TextCases
  <2>4. Spelled(d) \o t = <<"%">> \o FromFlag(d, t) /\ FromFlag(d, t) \in Seq(Chars)
    BY <1>1, <1>2, SpelledAs, FromTypes
  <2> HIDE DEF spell, t
  <2> QED
    BY <1>12, <2>2, <2>3, <2>4 DEF Cons
<1>14. out' \o TextsOf(more) = print.text /\ out' \in Seq(Chars)
  <2>1. out \o Cons("%", spell(t)) = print.text
    <3>1. out \o (Text(d, ULong) \o t) = print.text
      BY DEF Within
    <3> QED
      BY <1>13, <3>1
  <2>2. "%" \in Chars
    BY OneChar
  <2> HIDE DEF spell, t, more
  <2>3. Append(out, "%") \o spell(t) = out \o Cons("%", spell(t)) /\ Append(out, "%") \in Seq(Chars)
    BY <1>1, <1>13, <2>2, PutText
  <2> QED
    BY <1>6, <1>10, <2>1, <2>3
<1>15. Behind(fmt)' = FormatOf(more)
  <2>1. Behind(last_fmt) = FromFlag(d, z)
    BY DEF Within
  <2>2. Behind(fmt)' = Behind(last_fmt)
    BY <1>6 DEF Behind
  <2> HIDE DEF spell, z, more
  <2> QED
    BY <1>10, <1>12, <2>1, <2>2
<1>16. ArgsFrom(ap)' = ArgumentsOf(more)
  <2>1. FromOwn(d, b) = b /\ ArgsFrom(ap) = FromOwn(d, b)
    BY <1>2, OwnTypes DEF AtConv
  <2>2. ArgsFrom(ap)' = ArgsFrom(ap)
    BY <1>6 DEF ArgsFrom
  <2> HIDE DEF b, more
  <2> QED
    BY <1>10, <2>1, <2>2
<1>17. Between(more)'
  <2> HIDE DEF more
  <2> QED
    BY <1>6, <1>14, <1>15, <1>16 DEF Between
<1> HIDE DEF more
<1> QED
  BY <1>6, <1>10, <1>14, <1>17

-----------------------------------------------------------------------------
(* The invariant *)

\* A call whose format is made of directives.
Composed(c) ==
  \E fn \in {"printf", "sprintf"} : \E ds \in Seq(Directives) : c = CallOfPieces(fn, ds, <<>>, ULong)

\* What it has put and what is left of it make up what it should print.
TextLeft ==
  /\ CallTypes
  /\ \/ at = "idle"
     \/ at = "done" /\ PrintsText
     \/ \E rest \in Seq(Directives) : Between(rest)
     \/ \E rest \in Seq(Directives) : \E d : Within(d, rest)

\* It is typed.
LEMMA ComposedCall ==
  ASSUME NEW c, Composed(c)
  PROVE  \E ds \in Seq(Directives) :
           /\ c.fn \in {"printf", "sprintf"} /\ c.fmt = FormatOf(ds) /\ c.args = ArgumentsOf(ds)
           /\ c.text = TextsOf(ds)
           /\ FormatOf(ds) \in Seq(Chars) /\ ArgumentsOf(ds) \in Seq(Args) /\ TextsOf(ds) \in Seq(Chars)
<1>1. PICK fn \in {"printf", "sprintf"} : \E ds \in Seq(Directives) : c = CallOfPieces(fn, ds, <<>>, ULong)
  BY DEF Composed
<1>2. PICK ds \in Seq(Directives) : c = CallOfPieces(fn, ds, <<>>, ULong)
  BY <1>1
<1>3. DOMAIN ds = 1 .. Len(ds) /\ \A i \in 1 .. Len(ds) : ds[i] \in Directives
  BY LenProperties, ElementOfSeq
<1>4. /\ [i \in DOMAIN ds |-> Spelled(ds[i])] = [i \in 1 .. Len(ds) |-> SpelledF[ds[i]]]
      /\ [i \in DOMAIN ds |-> ArgsOf(ds[i])] = [i \in 1 .. Len(ds) |-> ArgsF[ds[i]]]
      /\ [i \in DOMAIN ds |-> Text(ds[i], ULong)] = [i \in 1 .. Len(ds) |-> TextF[ds[i]]]
  BY <1>3 DEF SpelledF, ArgsF, TextF
<1>5. /\ FormatOf(ds) \in Seq(Chars) /\ ArgumentsOf(ds) \in Seq(Args) /\ TextsOf(ds) \in Seq(Chars)
      /\ Spread(SpelledF, ds) \in Seq(Chars)
  BY RestTypes
<1>6. Spread(SpelledF, ds) \o <<>> = Spread(SpelledF, ds) /\ TextsOf(ds) \o <<>> = TextsOf(ds)
  BY <1>5, CharMoves
<1>7. c = [fn |-> fn, fmt |-> FormatOf(ds), args |-> ArgumentsOf(ds), text |-> TextsOf(ds)]
  <2>1. c = [fn |-> fn, fmt |-> Spread(SpelledF, ds) \o <<>> \o <<"NUL">>,
             args |-> Spread(ArgsF, ds), text |-> Spread(TextF, ds) \o <<>>]
    BY <1>2, <1>4 DEF CallOfPieces, Spread
  <2> QED
    BY <1>6, <2>1 DEF FormatOf, ArgumentsOf, TextsOf
<1> QED
  BY <1>1, <1>5, <1>7

\* A call begins with all of its directives left.
LEMMA CallLeft ==
  ASSUME Composed(print)', at' \in {"idle", "text"}, fmt' = 1, last_fmt' = 1,
         ap' = 1, out' = <<>>
  PROVE  TextLeft'
<1>1. PICK ds \in Seq(Directives) :
         /\ print'.fn \in {"printf", "sprintf"} /\ print'.fmt = FormatOf(ds)
         /\ print'.args = ArgumentsOf(ds) /\ print'.text = TextsOf(ds)
         /\ FormatOf(ds) \in Seq(Chars) /\ ArgumentsOf(ds) \in Seq(Args) /\ TextsOf(ds) \in Seq(Chars)
  BY ComposedCall
<1>2. <<>> \in Seq(Chars) /\ <<>> \o TextsOf(ds) = TextsOf(ds)
  BY <1>1, OneChar, CharMoves
<1>3. CallTypes'
  BY <1>1, <1>2 DEF CallTypes
<1>4. Behind(fmt)' = FormatOf(ds) /\ ArgsFrom(ap)' = ArgumentsOf(ds)
  <2>1. \A S : \A s \in Seq(S) : From(s, 1) = s
    BY SubSeqFull DEF From
  <2> QED
    BY <1>1, <2>1 DEF Behind, ArgsFrom
<1>5. at' = "text" => Between(ds)'
  BY <1>1, <1>2, <1>4 DEF Between
<1> QED
  BY <1>3, <1>5 DEF TextLeft

\* The pointers stay positions.
LEMMA PointersMove ==
  ASSUME CallTypes, PrintfStep
  PROVE  /\ print' = print /\ fmt' \in Nat \ {0} /\ last_fmt' \in Nat \ {0} /\ ap' \in Nat \ {0}
<1>1. \A n \in Nat \ {0} : n + 1 \in Nat \ {0}
  OBVIOUS
<1>2. \A s, n, chs : Converts(chs, s, n) /\ n \in {0, 1} =>
        print' = print /\ fmt' \in Nat \ {0} /\ last_fmt' \in Nat \ {0} /\ ap' \in Nat \ {0}
  BY DEF Converts, Switch, CallTypes
<1>3. Char \/ Str \/ Signed \/ Unsigned \/ NoArgument =>
        \E s, n, chs : Converts(chs, s, n) /\ n \in {0, 1}
  BY DEF Char, Str, Signed, Unsigned, NoArgument
<1>4. CASE Char \/ Str \/ Signed \/ Unsigned \/ NoArgument
  BY <1>2, <1>3, <1>4
<1>5. CASE Flag \/ FirstDigit \/ Star \/ Dot \/ Ignored
  BY <1>1, <1>5 DEF Flag, FirstDigit, Star, Dot, Ignored, Switch, CallTypes
<1>6. CASE Literal \/ ReturnPrintf \/ WriteHex \/ Percent \/ NextDigit \/ LastDigit \/ Unknown
  BY <1>1, <1>6 DEF Literal, ReturnPrintf, WriteHex, Percent, NextDigit, LastDigit, Unknown,
     conversion, CallTypes
<1> QED
  BY <1>4, <1>5, <1>6 DEF PrintfStep

\* A directive leads to its text and then to the next one.
LEMMA WithinStep ==
  ASSUME CallTypes, PrintfStep, NEW d, NEW rest \in Seq(Directives), Within(d, rest)
  PROVE  /\ out' \in Seq(Chars)
         /\ Within(d, rest)' \/ \E more \in Seq(Directives) : Between(more)'
<1> DEFINE z == FormatOf(rest)
           b == ArgumentsOf(rest)
<1>1. Directing(d, z, b) /\ Phase(d, z, b) /\ out \in Seq(Chars)
  BY DEF Within, CallTypes
<1>2. AtConv(d, z, b) \/ (Phase(d, z, b)' /\ Quiet)
  <2> HIDE DEF z, b
  <2> QED
    BY <1>1, PhaseStep
<1>3. CASE Phase(d, z, b)' /\ Quiet
  <2>1. out' = out /\ print' = print /\ Behind(last_fmt)' = Behind(last_fmt)
    BY <1>3 DEF Quiet, Behind
  <2>2. Within(d, rest)'
    BY <1>3, <2>1 DEF Within
  <2> QED
    BY <1>1, <2>1, <2>2
<1>4. CASE AtConv(d, z, b) /\ d.conv = "q"
  BY <1>4, UnknownPuts
<1>5. CASE AtConv(d, z, b) /\ d.conv # "q"
  <2>1. /\ out' = out \o Text(d, ULong) /\ at' = "text" /\ print' = print
        /\ Behind(fmt)' = z /\ ArgsFrom(ap)' = b
    <3> HIDE DEF z, b
    <3> QED
      BY <1>1, <1>5, KnownPuts
  <2>2. Text(d, ULong) \in Seq(Chars) /\ TextsOf(rest) \in Seq(Chars)
    BY <1>1, TextType, RestTypes DEF Directing
  <2>3. out \o (Text(d, ULong) \o TextsOf(rest)) = print.text
    BY DEF Within
  <2> DEFINE s == Text(d, ULong)
             t == TextsOf(rest)
  <2>4. (out \o s) \o t = out \o (s \o t) /\ out \o s \in Seq(Chars)
    <3> HIDE DEF s, t
    <3> QED
      BY <1>1, <2>2, CharMoves DEF s, t
  <2>5. Between(rest)'
    BY <2>1, <2>3, <2>4 DEF Between
  <2> QED
    BY <2>1, <2>4, <2>5
<1> QED
  BY <1>2, <1>3, <1>4, <1>5

\* The directives that are left become fewer, and the text grows by theirs.
LEMMA TextLeftStep ==
  ASSUME Composed(print) => TextLeft, [PrintfNext]_printfVars
  PROVE  (Composed(print) => TextLeft)'
<1> SUFFICES ASSUME Composed(print)' PROVE TextLeft'
  OBVIOUS
<1>1. CASE \E c \in PrintCalls : CallPrintf(c)
  <2>1. at' = "text" /\ fmt' = 1 /\ last_fmt' = 1 /\ ap' = 1 /\ out' = <<>>
    BY <1>1 DEF CallPrintf
  <2> QED
    BY <2>1, CallLeft
<1>2. CASE UNCHANGED printfVars
  <2>1. Composed(print)
    BY <1>2 DEF Composed, printfVars
  <2>2. TextLeft
    BY <2>1
  <2>3. /\ print' = print /\ fmt' = fmt /\ last_fmt' = last_fmt /\ at' = at /\ padc' = padc
        /\ width' = width /\ precision' = precision /\ ap' = ap /\ out' = out
    BY <1>2 DEF printfVars
  <2>4. Behind(fmt)' = Behind(fmt) /\ Behind(last_fmt)' = Behind(last_fmt) /\ ArgsFrom(ap)' = ArgsFrom(ap)
    BY <2>3 DEF Behind, ArgsFrom
  <2>5. \A m, z : Reading(m, z) => Reading(m, z)'
    BY <2>3, <2>4 DEF Reading
  <2>6. ASSUME NEW d, NEW z, NEW b, Phase(d, z, b) PROVE Phase(d, z, b)'
    BY <2>3, <2>4, <2>5, <2>6
       DEF Phase, AtFlag, AtWidth, InWidth, AtPrec, AtNumber, InPrec, AtConv
  <2>7. \A rest : Between(rest) => Between(rest)'
    BY <2>3, <2>4 DEF Between
  <2>8. \A rest, d : Within(d, rest) => Within(d, rest)'
    BY <2>3, <2>4, <2>6 DEF Within
  <2>9. CallTypes' /\ (PrintsText => PrintsText')
    BY <2>2, <2>3 DEF TextLeft, CallTypes, PrintsText
  <2> QED
    BY <2>2, <2>3, <2>7, <2>8, <2>9 DEF TextLeft
<1>3. CASE PrintfStep
  <2>1. TextLeft /\ CallTypes
    <3>1. print' = print
      BY <1>3 DEF PrintfStep, Literal, ReturnPrintf, WriteHex, Percent, Flag, FirstDigit, NextDigit,
         LastDigit, Star, Dot, Ignored, Char, Str, Signed, Unsigned, NoArgument, Unknown, Switch, Converts
    <3>2. Composed(print)
      BY <3>1 DEF Composed
    <3> QED
      BY <3>2 DEF TextLeft
  <2>2. print' = print /\ fmt' \in Nat \ {0} /\ last_fmt' \in Nat \ {0} /\ ap' \in Nat \ {0}
    BY <1>3, <2>1, PointersMove
  <2>3. out' \in Seq(Chars) => CallTypes'
    BY <2>1, <2>2 DEF CallTypes
  <2>4. CASE \E rest \in Seq(Directives) : Between(rest)
    <3>1. PICK rest \in Seq(Directives) : Between(rest)
      BY <2>4
    <3>2. CASE rest = <<>>
      BY <1>3, <2>1, <2>3, <3>1, <3>2, EndStep DEF TextLeft
    <3>3. CASE rest # <<>>
      <4>1. /\ rest = Cons(Head(rest), Tail(rest))
            /\ Head(rest) \in Directives /\ Tail(rest) \in Seq(Directives)
        BY <3>3, HeadThenTail
      <4> DEFINE d == Head(rest)
                 more == Tail(rest)
      <4>2. Between(Cons(d, more))
        BY <3>1, <4>1
      <4> HIDE DEF d, more
      <4>3. out' \in Seq(Chars) /\ (Between(more)' \/ Within(d, more)')
        BY <1>3, <2>1, <4>1, <4>2, BeginStep DEF d, more
      <4> QED
        BY <2>3, <4>1, <4>3 DEF TextLeft, more
    <3> QED
      BY <3>2, <3>3
  <2>5. CASE \E rest \in Seq(Directives) : \E d : Within(d, rest)
    <3>1. PICK rest \in Seq(Directives) : \E d : Within(d, rest)
      BY <2>5
    <3>2. PICK d : Within(d, rest)
      BY <3>1
    <3>3. /\ out' \in Seq(Chars)
          /\ Within(d, rest)' \/ \E more \in Seq(Directives) : Between(more)'
      BY <1>3, <2>1, <3>2, WithinStep
    <3> QED
      BY <2>3, <3>3 DEF TextLeft
  <2>6. at \in {"text", "switch", "digits"}
    BY <1>3, <2>1, OtherStep
  <2> QED
    BY <2>1, <2>4, <2>5, <2>6 DEF TextLeft
<1> QED
  BY <1>1, <1>2, <1>3 DEF PrintfNext

\* A call whose format is made of directives prints what the standard says.
THEOREM ComposedPrints == PrintfSpec => [](Composed(print) => PrintsText)
<1>1. PrintfInit => (Composed(print) => TextLeft)
  <2> SUFFICES ASSUME PrintfInit, Composed(print) PROVE TextLeft
    OBVIOUS
  <2>1. PICK ds \in Seq(Directives) :
           /\ print.fn \in {"printf", "sprintf"} /\ print.fmt = FormatOf(ds)
           /\ print.args = ArgumentsOf(ds) /\ print.text = TextsOf(ds)
           /\ FormatOf(ds) \in Seq(Chars) /\ ArgumentsOf(ds) \in Seq(Args) /\ TextsOf(ds) \in Seq(Chars)
    BY ComposedCall
  <2>2. at = "idle" /\ fmt = 1 /\ last_fmt = 1 /\ ap = 1 /\ out = <<>>
    BY DEF PrintfInit
  <2>3. CallTypes
    BY <2>1, <2>2, OneChar DEF CallTypes
  <2> QED
    BY <2>2, <2>3 DEF TextLeft
<1>2. (Composed(print) => TextLeft) /\ [PrintfNext]_printfVars => (Composed(print) => TextLeft)'
  BY TextLeftStep
<1>3. (Composed(print) => TextLeft) => (Composed(print) => PrintsText)
  <2> SUFFICES ASSUME TextLeft, at = "done" PROVE PrintsText
    BY DEF PrintsText
  <2>1. \A rest : ~Between(rest) /\ \A d : ~Within(d, rest)
    BY DEF Between, Within, Phase, AtFlag, AtWidth, InWidth, AtPrec, AtNumber, InPrec, AtConv, Reading
  <2> QED
    BY <2>1 DEF TextLeft
<1> QED
  BY <1>1, <1>2, <1>3, PTL DEF PrintfSpec

-----------------------------------------------------------------------------
(* The four together *)

\* A step of one part is a step or a stutter of every part.
THEOREM PartsBehave == LibSpec => Spec /\ PrintfSpec /\ ClicSpec /\ TrimSpec
<1>1. LibInit => Init /\ PrintfInit /\ ClicInit /\ TrimInit
  BY DEF LibInit
<1>2. [LibNext]_libVars =>
        /\ [Next]_vars /\ [PrintfNext]_printfVars
        /\ [ClicNext]_clicVars /\ [TrimNext]_trimVars
  <2>1. CASE UNCHANGED libVars
    BY <2>1 DEF libVars
  <2>2. CASE LibNext
    BY <2>2 DEF LibNext
  <2> QED
    BY <2>1, <2>2
<1> QED
  BY <1>1, <1>2, PTL DEF LibSpec, Spec, PrintfSpec, ClicSpec, TrimSpec

\* What is proved of a part holds of the library, whichever part the program
\* uses.
THEOREM LibrarySafe ==
  LibSpec => /\ [](TypeOK /\ BlocksDisjoint /\ FormatInBounds /\ TrimAsAsked)
             /\ [](Composed(print) => PrintsText)
             /\ RefusesOnlyTooLarge /\ LevelPlaced
  BY PartsBehave, HeapTypeCorrect, BlocksNeverOverlap, RefusalsJustified, PrintfReadsInside,
     ComposedPrints, LevelsArePlaced, SearchEndsAsAsked, PTL
=============================================================================
