------------------------- MODULE FindFunctionsProofs -------------------------
(***************************************************************************)
(* That FindFunctions only reports prologues, for images of any number of  *)
(* mappings of any length.  The candidate has to be known to be a run of    *)
(* prologue instructions before the add x29 that reports it is reached, and *)
(* to lie in the mapping being scanned.                                     *)
(***************************************************************************)
EXTENDS FindFunctions, TLAPS

MappingRecord == [address : Nat, executable : BOOLEAN, data : Seq(Opcodes)]

\* The kinds of the variables but for the flags, which are only tested.
TypeInv ==
  /\ mappings \in Seq(MappingRecord)
  /\ mapping \in Nat \ {0} /\ offset \in Nat \ {0}
  /\ start_address \in Nat /\ results \subseteq Nat

\* A flag is only set inside an executable mapping.
InMapping ==
  pacsp \/ sub \/ stp =>
    /\ mapping \in 1 .. Len(mappings)
    /\ mappings[mapping].executable
    /\ offset \in 1 .. Len(Data)

IInv == TypeInv /\ InMapping /\ CandidateIsRun /\ ResultsArePrologues

LEMMA InitInv == Init => IInv
<1> SUFFICES ASSUME Init PROVE IInv
  OBVIOUS
<1>1. mappings \in Seq(MappingRecord)
  BY ImagesAssumption, Zenon DEF Init, MappingRecord
<1>2. TypeInv
  BY <1>1 DEF Init, TypeInv
<1>3. InMapping /\ CandidateIsRun
  BY DEF Init, InMapping, CandidateIsRun
<1>4. ResultsArePrologues
  BY DEF Init, ResultsArePrologues
<1> QED BY <1>2, <1>3, <1>4 DEF IInv

\* What a step on an instruction has in hand.
LEMMA AtFacts ==
  ASSUME TypeInv, NEW opcodes, At(opcodes)
  PROVE  /\ mapping \in 1 .. Len(mappings)
         /\ mappings[mapping] \in MappingRecord
         /\ mappings[mapping].executable
         /\ Data \in Seq(Opcodes)
         /\ offset \in 1 .. Len(Data) /\ offset' \in 1 .. Len(Data)
         /\ offset' = offset + 1
         /\ Data[offset] \in opcodes
         /\ mappings' = mappings /\ mapping' = mapping /\ Data' = Data
         /\ address = mappings[mapping].address + offset - 1
         /\ address \in Nat
<1>1. mapping \in 1 .. Len(mappings)
  BY DEF TypeInv, At, Scanning
<1>2. mappings[mapping] \in MappingRecord
  BY <1>1 DEF TypeInv
<1>3. mappings[mapping].address \in Nat /\ Data \in Seq(Opcodes)
  BY <1>2 DEF MappingRecord, Data
<1>4. mappings' = mappings /\ mapping' = mapping /\ offset' = offset + 1
  BY DEF At
<1>5. Data' = Data
  BY <1>4 DEF Data
<1>6. offset \in 1 .. Len(Data) /\ offset' \in 1 .. Len(Data)
  BY <1>3, <1>4 DEF TypeInv, At, Scanning
<1>7. mappings[mapping].executable /\ Data[offset] \in opcodes
  BY DEF At, Scanning
<1> QED BY <1>1, <1>2, <1>3, <1>4, <1>5, <1>6, <1>7 DEF address, TypeInv

\* An instruction of a prologue is read, and either starts a candidate or goes on
\* with the one at hand.
LEMMA CandidateGrows ==
  ASSUME IInv, NEW opcode \in Prologue, At({opcode}),
         \/ start_address' = address
         \/ start_address' = start_address /\ (pacsp \/ sub \/ stp),
         stp' <=> opcode \in Stp
  PROVE  start_address' \in Nat /\ InMapping' /\ CandidateIsRun'
<1> DEFINE base == mappings[mapping].address
           first == start_address' - base + 1
<1>1. /\ mapping \in 1 .. Len(mappings) /\ mappings[mapping] \in MappingRecord
      /\ mappings[mapping].executable
      /\ offset \in 1 .. Len(Data) /\ offset' \in 1 .. Len(Data) /\ offset' = offset + 1
      /\ Data[offset] = opcode
      /\ mappings' = mappings /\ mapping' = mapping /\ Data' = Data
      /\ address = base + offset - 1 /\ address \in Nat
  BY AtFacts DEF IInv
<1>2. base \in Nat /\ offset \in Nat /\ start_address \in Nat
  BY <1>1 DEF MappingRecord, IInv, TypeInv
<1>3. InMapping'
  BY <1>1 DEF InMapping
<1>4. first \in 1 .. offset /\ \A k \in first .. offset : Data[k] \in Prologue
  <2>1. CASE start_address' = address
    <3>1. first = offset
      BY <1>1, <1>2, <2>1
    <3> QED BY <1>1, <1>2, <3>1
  <2>2. CASE start_address' = start_address /\ (pacsp \/ sub \/ stp)
    <3>1. first \in 1 .. offset - 1 /\ \A k \in first .. offset - 1 : Data[k] \in Prologue
      BY <2>2 DEF IInv, CandidateIsRun
    <3> QED BY <1>1, <1>2, <3>1
  <2> QED BY <2>1, <2>2
<1>5. mappings'[mapping'].address = base /\ offset' - 1 = offset
  BY <1>1, <1>2
<1>6. first = start_address' - mappings'[mapping'].address + 1
  BY <1>5
<1>7. stp' <=> Data'[offset' - 1] \in Stp
  BY <1>1, <1>5
<1>8. CandidateIsRun'
  BY <1>1, <1>4, <1>5, <1>6, <1>7 DEF CandidateIsRun
<1>9. start_address' \in Nat
  BY <1>1, <1>2
<1> QED BY <1>3, <1>8, <1>9

\* Results stay prologues as long as the image and the results stay.
LEMMA ResultsKept ==
  ASSUME ResultsArePrologues, UNCHANGED <<mappings, results>>
  PROVE  ResultsArePrologues'
BY DEF ResultsArePrologues, StartsPrologue

\* A step on an instruction keeps the types if it does so for these two.
LEMMA TypeKept ==
  ASSUME TypeInv, NEW opcodes, At(opcodes), start_address' \in Nat, results' \subseteq Nat
  PROVE  TypeInv'
<1>1. mappings' = mappings /\ mapping' = mapping /\ offset' \in 1 .. Len(Data)
  BY AtFacts
<1>2. offset' \in Nat \ {0}
  BY AtFacts
<1> QED BY <1>1, <1>2 DEF TypeInv

\* With all flags cleared there is nothing to say of a candidate.
LEMMA NoCandidate ==
  ASSUME ~pacsp', ~sub', ~stp'
  PROVE  InMapping' /\ CandidateIsRun'
BY DEF InMapping, CandidateIsRun

LEMMA StepInv == IInv /\ [Next]_vars => IInv'
<1> SUFFICES ASSUME IInv, [Next]_vars PROVE IInv'
  OBVIOUS
<1> USE DEF Prologue, Stp
<1>1. CASE NextMapping
  <2>1. TypeInv'
    BY <1>1 DEF NextMapping, IInv, TypeInv
  <2> QED BY <1>1, <2>1, ResultsKept, NoCandidate DEF NextMapping, IInv
<1>2. CASE Pac
  <2>1. At({"pac"}) /\ start_address' = address /\ ~stp'
    BY <1>2 DEF Pac, StartIf
  <2>2. start_address' \in Nat /\ InMapping' /\ CandidateIsRun'
    BY <2>1, CandidateGrows
  <2>3. TypeInv'
    <3>1. results' \subseteq Nat
      BY <1>2 DEF Pac, IInv, TypeInv
    <3> QED BY <2>1, <2>2, <3>1, TypeKept DEF IInv
  <2> QED BY <1>2, <2>1, <2>2, <2>3, ResultsKept DEF Pac, At, IInv
<1>3. CASE Sub
  <2>1. At({"sub"}) /\ ~stp'
    BY <1>3 DEF Sub
  <2>2. start_address' = address \/ (start_address' = start_address /\ (pacsp \/ sub \/ stp))
    BY <1>3 DEF Sub, StartIf
  <2>3. start_address' \in Nat /\ InMapping' /\ CandidateIsRun'
    BY <2>1, <2>2, CandidateGrows
  <2>4. TypeInv'
    <3>1. results' \subseteq Nat
      BY <1>3 DEF Sub, IInv, TypeInv
    <3> QED BY <2>1, <2>3, <3>1, TypeKept DEF IInv
  <2> QED BY <1>3, <2>1, <2>3, <2>4, ResultsKept DEF Sub, At, IInv
<1>4. CASE StpX
  <2>1. At({"stp_x"}) /\ stp' = TRUE
    BY <1>4 DEF StpX
  <2>2. start_address' = address \/ (start_address' = start_address /\ (pacsp \/ sub \/ stp))
    BY <1>4 DEF StpX, StartIf
  <2>3. start_address' \in Nat /\ InMapping' /\ CandidateIsRun'
    BY <2>1, <2>2, CandidateGrows
  <2>4. TypeInv'
    <3>1. results' \subseteq Nat
      BY <1>4 DEF StpX, IInv, TypeInv
    <3> QED BY <2>1, <2>3, <3>1, TypeKept DEF IInv
  <2> QED BY <1>4, <2>1, <2>3, <2>4, ResultsKept DEF StpX, At, IInv
<1>5. CASE StpD
  <2>1. At({"stp_d"}) /\ stp' = TRUE
    BY <1>5 DEF StpD
  <2>2. start_address' = address \/ (start_address' = start_address /\ (pacsp \/ sub \/ stp))
    BY <1>5 DEF StpD, StartIf
  <2>3. start_address' \in Nat /\ InMapping' /\ CandidateIsRun'
    BY <2>1, <2>2, CandidateGrows
  <2>4. TypeInv'
    <3>1. results' \subseteq Nat
      BY <1>5 DEF StpD, IInv, TypeInv
    <3> QED BY <2>1, <2>3, <3>1, TypeKept DEF IInv
  <2> QED BY <1>5, <2>1, <2>3, <2>4, ResultsKept DEF StpD, At, IInv
<1>6. CASE AddX29
  <2>1. At({"add_x29"}) /\ stp
    BY <1>6 DEF AddX29
  <2>2. /\ mapping \in 1 .. Len(mappings) /\ mappings[mapping] \in MappingRecord
        /\ mappings[mapping].executable
        /\ offset \in 1 .. Len(Data)
        /\ Data[offset] = "add_x29" /\ mappings' = mappings
    BY <2>1, AtFacts DEF IInv
  <2>3. TypeInv'
    <3>1. start_address' \in Nat /\ results' \subseteq Nat
      BY <1>6 DEF AddX29, IInv, TypeInv
    <3> QED BY <2>1, <3>1, TypeKept DEF IInv
  <2> DEFINE first == start_address - mappings[mapping].address + 1
             last == offset - 1
  <2>4. /\ first \in 1 .. last
        /\ \A k \in first .. last : Data[k] \in Prologue
        /\ Data[last] \in Stp
    BY <2>1 DEF IInv, CandidateIsRun
  <2>5. /\ first \in 1 .. Len(Data) /\ last \in first .. Len(Data) - 1
        /\ Data[last + 1] = "add_x29"
    BY <2>2, <2>4 DEF IInv, TypeInv
  <2>6. StartsPrologue(start_address)
    BY <2>2, <2>4, <2>5 DEF Data, StartsPrologue
  <2>7. \A r \in results' : StartsPrologue(r)
    BY <1>6, <2>6 DEF AddX29, IInv, ResultsArePrologues
  <2>8. ResultsArePrologues'
    BY <2>2, <2>7 DEF ResultsArePrologues, StartsPrologue
  <2> QED BY <1>6, <2>3, <2>8, NoCandidate DEF AddX29, IInv
<1>7. CASE Clear
  <2>1. PICK opcodes : At(opcodes)
    BY <1>7 DEF Clear, NoMatch
  <2>2. TypeInv'
    <3>1. start_address' \in Nat /\ results' \subseteq Nat
      BY <1>7 DEF Clear, IInv, TypeInv
    <3> QED BY <2>1, <3>1, TypeKept DEF IInv
  <2> QED BY <1>7, <2>1, <2>2, ResultsKept, NoCandidate DEF Clear, At, IInv
<1>8. CASE Pass
  <2>1. PICK opcodes : At(opcodes)
    BY <1>8 DEF Pass, NoMatch
  <2>2. TypeInv'
    <3>1. start_address' \in Nat /\ results' \subseteq Nat
      BY <1>8 DEF Pass, IInv, TypeInv
    <3> QED BY <2>1, <3>1, TypeKept DEF IInv
  <2> QED BY <1>8, <2>1, <2>2, ResultsKept, NoCandidate DEF Pass, flags, At, IInv
<1>9. CASE UNCHANGED vars
  BY <1>9 DEF vars, flags, IInv, TypeInv, InMapping, CandidateIsRun,
              ResultsArePrologues, StartsPrologue, Data
<1> QED BY <1>1, <1>2, <1>3, <1>4, <1>5, <1>6, <1>7, <1>8, <1>9 DEF Next, Returned

\* At any time the candidate of find_functions.cpp is a run of prologue
\* instructions of the mapping at hand, and the flag stp tells of the last one.
THEOREM FindFunctionsCandidate == Spec => []CandidateIsRun
<1>1. Spec => []IInv
  BY InitInv, StepInv, PTL DEF Spec
<1> QED BY <1>1, PTL DEF IInv

\* FindFunctions reports nothing but starts of prologues.
THEOREM FindFunctionsResults == Spec => []ResultsArePrologues
<1>1. Spec => []IInv
  BY InitInv, StepInv, PTL DEF Spec
<1> QED BY <1>1, PTL DEF IInv

-----------------------------------------------------------------------------
(* That every prologue is reported.                                        *)

\* The positions behind the pac and the sub of a prologue, if it has them.
HasPac(p) == mappings[p.mapping].data[p.first] = "pac"
PacEnd(p) == IF HasPac(p) THEN p.first + 1 ELSE p.first
HasSub(p) == PacEnd(p) <= p.last /\ mappings[p.mapping].data[PacEnd(p)] = "sub"
SubEnd(p) == IF HasSub(p) THEN PacEnd(p) + 1 ELSE PacEnd(p)

\* What the flags and the candidate are once position k of a prologue has been read.
ReadUpTo(p, k, pacsp_, sub_, stp_, start) ==
  /\ pacsp_ <=> HasPac(p)
  /\ sub_ <=> HasSub(p) /\ PacEnd(p) <= k
  /\ stp_ <=> SubEnd(p) <= k
  /\ start = IF SubEnd(p) <= k THEN StartOf(p) ELSE mappings[p.mapping].address + p.first - 1

FoundInv ==
  \A p \in Prologues :
    IsPrologue(p) =>
      /\ mapping = p.mapping /\ offset \in p.first + 1 .. p.last + 1 =>
           ReadUpTo(p, offset - 1, pacsp, sub, stp, start_address)
      /\ mapping > p.mapping \/ (mapping = p.mapping /\ offset > p.last + 1) =>
           StartOf(p) \in results

LEMMA PrologueFacts ==
  ASSUME TypeInv, NEW p \in Prologues, IsPrologue(p)
  PROVE  LET data == mappings[p.mapping].data IN
         /\ p.mapping \in 1 .. Len(mappings) /\ mappings[p.mapping].executable
         /\ data \in Seq(Opcodes) /\ Len(data) \in Nat
         /\ mappings[p.mapping].address \in Nat
         /\ p.first \in Nat \ {0} /\ p.last \in Nat /\ p.first <= p.last
         /\ p.last + 1 < Len(data) /\ data[p.last + 1] = "add_x29"
         /\ p.first = 1 \/ data[p.first - 1] \notin Prologue
         /\ PacEnd(p) \in Nat /\ SubEnd(p) \in Nat
         /\ p.first <= PacEnd(p) /\ PacEnd(p) <= SubEnd(p) /\ SubEnd(p) <= p.last
         /\ \A k \in SubEnd(p) .. p.last : data[k] \in Stp
<1> DEFINE data == mappings[p.mapping].data
<1>1. /\ p.mapping \in 1 .. Len(mappings) /\ mappings[p.mapping].executable
      /\ p.first \in 1 .. Len(data) /\ p.last \in 1 .. Len(data)
  BY DEF Prologues
<1>2. mappings[p.mapping] \in MappingRecord BY <1>1 DEF TypeInv
<1>3. data \in Seq(Opcodes) /\ mappings[p.mapping].address \in Nat
  BY <1>2 DEF MappingRecord
<1>4. Len(data) \in Nat BY <1>3
<1>5. /\ p.first <= p.last /\ p.last + 1 < Len(data) /\ data[p.last + 1] = "add_x29"
      /\ p.first = 1 \/ data[p.first - 1] \notin Prologue
  BY DEF IsPrologue
<1>6. Shape(p.mapping, p.first, p.last) BY DEF IsPrologue
<1> HIDE DEF data
<1>7. p.first \in Nat \ {0} /\ p.last \in Nat BY <1>1, <1>4
<1>8. PacEnd(p) \in Nat /\ SubEnd(p) \in Nat /\ p.first <= PacEnd(p) /\ PacEnd(p) <= SubEnd(p)
  BY <1>7 DEF PacEnd, SubEnd
<1>9. SubEnd(p) <= p.last /\ \A k \in SubEnd(p) .. p.last : data[k] \in Stp
  <2> DEFINE pac_end == IF data[p.first] = "pac" THEN p.first + 1 ELSE p.first
             sub_end == IF pac_end <= p.last /\ data[pac_end] = "sub" THEN pac_end + 1
                                                                      ELSE pac_end
  <2>1. sub_end <= p.last /\ \A k \in sub_end .. p.last : data[k] \in Stp
    BY <1>6, Zenon DEF Shape, data
  <2>2. pac_end = PacEnd(p) BY DEF PacEnd, HasPac, data
  <2>3. sub_end = SubEnd(p)
    <3> HIDE DEF pac_end
    <3> QED BY <2>2 DEF SubEnd, HasSub, data
  <2> QED BY <2>1, <2>3
<1> QED BY <1>1, <1>3, <1>4, <1>5, <1>7, <1>8, <1>9 DEF data

\* The opcode decides what a step does while a prologue is read.
LEMMA OneWay ==
  ASSUME TypeInv, Next, Scanning
  PROVE  /\ Data[offset] = "pac" /\ ~pacsp => Pac
         /\ Data[offset] = "sub" /\ ~sub => Sub
         /\ Data[offset] = "stp_x" => StpX
         /\ Data[offset] = "stp_d" => StpD
         /\ Data[offset] = "add_x29" /\ stp => AddX29
         /\ offset' = offset + 1 /\ mapping' = mapping /\ mappings' = mappings
         /\ results \subseteq results'
<1>1. ~NextMapping BY DEF NextMapping
<1>2. ~Returned BY DEF Returned, Finished, Scanning, TypeInv
<1> QED
  BY <1>1, <1>2 DEF Next, Pac, Sub, StpX, StpD, AddX29, Clear, Pass, NoMatch, At

\* The first instruction of a prologue is read with no candidate at hand.
LEMMA ReadFirst ==
  ASSUME IInv, Next, Scanning, NEW p \in Prologues, IsPrologue(p),
         mapping = p.mapping, offset = p.first
  PROVE  ReadUpTo(p, p.first, pacsp', sub', stp', start_address')
<1> DEFINE data == mappings[p.mapping].data
           base == mappings[p.mapping].address
<1>1. /\ base \in Nat /\ p.first \in Nat \ {0} /\ p.last \in Nat /\ p.first <= p.last
      /\ p.first = 1 \/ data[p.first - 1] \notin Prologue
      /\ PacEnd(p) \in Nat /\ SubEnd(p) \in Nat
      /\ p.first <= PacEnd(p) /\ PacEnd(p) <= SubEnd(p)
      /\ \A k \in SubEnd(p) .. p.last : data[k] \in Stp
  BY PrologueFacts DEF IInv
<1>2. Data = data /\ address = base + p.first - 1 BY DEF Data, address
<1>3. ~pacsp /\ ~sub /\ ~stp
  <2> SUFFICES ASSUME pacsp \/ sub \/ stp PROVE FALSE OBVIOUS
  <2>1. PICK first \in 1 .. offset - 1 : \A k \in first .. offset - 1 : Data[k] \in Prologue
    BY DEF IInv, CandidateIsRun
  <2> HIDE DEF data, base
  <2>2. p.first # 1 /\ data[p.first - 1] \in Prologue BY <1>1, <1>2, <2>1
  <2> QED BY <1>1, <2>2
<1>4. /\ Data[offset] = "pac" /\ ~pacsp => Pac
      /\ Data[offset] = "sub" /\ ~sub => Sub
      /\ Data[offset] = "stp_x" => StpX
      /\ Data[offset] = "stp_d" => StpD
  BY OneWay DEF IInv
<1>5. CASE data[p.first] = "pac"
  <2>1. Pac BY <1>2, <1>3, <1>4, <1>5
  <2>2. pacsp' /\ ~sub' /\ ~stp' /\ start_address' = base + p.first - 1
    BY <1>2, <2>1 DEF Pac, StartIf
  <2>3. HasPac(p) /\ PacEnd(p) = p.first + 1 BY <1>5 DEF HasPac, PacEnd
  <2>4. ~(PacEnd(p) <= p.first) /\ ~(SubEnd(p) <= p.first) BY <1>1, <2>3
  <2> QED BY <2>2, <2>3, <2>4 DEF ReadUpTo
<1>6. CASE data[p.first] = "sub"
  <2>1. Sub BY <1>2, <1>3, <1>4, <1>6
  <2>2. ~pacsp' /\ sub' /\ ~stp' /\ start_address' = base + p.first - 1
    BY <1>2, <1>3, <2>1 DEF Sub, StartIf
  <2>3. ~HasPac(p) /\ PacEnd(p) = p.first BY <1>6 DEF HasPac, PacEnd
  <2>4. HasSub(p) /\ SubEnd(p) = p.first + 1 BY <1>1, <1>6, <2>3 DEF HasSub, SubEnd
  <2>5. PacEnd(p) <= p.first /\ ~(SubEnd(p) <= p.first) BY <1>1, <2>3, <2>4
  <2> QED BY <2>2, <2>3, <2>4, <2>5 DEF ReadUpTo
<1>7. CASE data[p.first] # "pac" /\ data[p.first] # "sub"
  <2>1. ~HasPac(p) /\ PacEnd(p) = p.first BY <1>7 DEF HasPac, PacEnd
  <2>2. ~HasSub(p) /\ SubEnd(p) = p.first BY <1>7, <2>1 DEF HasSub, SubEnd
  <2>3. data[p.first] \in Stp
    <3> HIDE DEF data
    <3> QED BY <1>1, <2>2
  <2>4. StpX \/ StpD BY <1>2, <1>4, <2>3 DEF Stp
  <2>5. ~pacsp' /\ ~sub' /\ stp' /\ start_address' = base + p.first - 1
    BY <1>2, <1>3, <2>4 DEF StpX, StpD, StartIf
  <2>6. StartOf(p) = base + p.first - 1 BY <1>1, <2>1 DEF StartOf, HasPac
  <2>7. PacEnd(p) <= p.first /\ SubEnd(p) <= p.first BY <1>1, <2>1, <2>2
  <2> QED BY <2>1, <2>2, <2>5, <2>6, <2>7 DEF ReadUpTo
<1> QED BY <1>5, <1>6, <1>7

\* Every other one goes on with the candidate at hand.
LEMMA ReadNext ==
  ASSUME IInv, Next, Scanning, NEW p \in Prologues, IsPrologue(p),
         mapping = p.mapping, offset \in p.first + 1 .. p.last,
         ReadUpTo(p, offset - 1, pacsp, sub, stp, start_address)
  PROVE  ReadUpTo(p, offset, pacsp', sub', stp', start_address')
<1> DEFINE data == mappings[p.mapping].data
           base == mappings[p.mapping].address
<1>1. /\ base \in Nat /\ p.first \in Nat \ {0} /\ p.last \in Nat /\ p.first <= p.last
      /\ PacEnd(p) \in Nat /\ SubEnd(p) \in Nat
      /\ p.first <= PacEnd(p) /\ PacEnd(p) <= SubEnd(p)
      /\ \A k \in SubEnd(p) .. p.last : data[k] \in Stp
  BY PrologueFacts DEF IInv
<1>2. Data = data /\ address = base + offset - 1 BY DEF Data, address
<1>3. offset \in Nat /\ p.first < offset /\ offset <= p.last BY <1>1
<1>4. /\ Data[offset] = "sub" /\ ~sub => Sub
      /\ Data[offset] = "stp_x" => StpX
      /\ Data[offset] = "stp_d" => StpD
  BY OneWay DEF IInv
<1>5. /\ pacsp <=> HasPac(p)
      /\ sub <=> HasSub(p) /\ PacEnd(p) <= offset - 1
      /\ stp <=> SubEnd(p) <= offset - 1
      /\ start_address = IF SubEnd(p) <= offset - 1 THEN StartOf(p) ELSE base + p.first - 1
  BY DEF ReadUpTo
<1>6. PacEnd(p) <= p.first + 1 BY <1>1 DEF PacEnd
<1>7. SubEnd(p) <= PacEnd(p) + 1 BY <1>1 DEF SubEnd
<1> HIDE DEF data, base
<1>8. CASE offset < SubEnd(p)
  <2>1. PacEnd(p) = offset /\ SubEnd(p) = offset + 1 BY <1>1, <1>3, <1>6, <1>7, <1>8
  <2>2. HasSub(p) /\ data[offset] = "sub"
    <3>1. HasSub(p) BY <1>1, <2>1 DEF SubEnd
    <3> QED BY <2>1, <3>1 DEF HasSub, data
  <2>3. HasPac(p) BY <1>3, <2>1 DEF PacEnd
  <2>4. ~(PacEnd(p) <= offset - 1) /\ ~(SubEnd(p) <= offset - 1) BY <1>3, <2>1
  <2>5. ~sub /\ ~stp /\ pacsp /\ start_address = base + p.first - 1 BY <1>5, <2>3, <2>4
  <2>6. Sub BY <1>2, <1>4, <2>2, <2>5
  <2>7. pacsp' /\ sub' /\ ~stp' /\ start_address' = base + p.first - 1
    BY <2>5, <2>6 DEF Sub, StartIf
  <2>8. PacEnd(p) <= offset /\ ~(SubEnd(p) <= offset) BY <1>3, <2>1
  <2> QED BY <2>2, <2>3, <2>7, <2>8 DEF ReadUpTo, base
<1>9. CASE offset = SubEnd(p)
  <2>1. ~stp /\ start_address = base + p.first - 1
    <3>1. ~(SubEnd(p) <= offset - 1) BY <1>3, <1>9
    <3> QED BY <1>5, <3>1
  <2>2. data[offset] \in Stp BY <1>1, <1>3, <1>9
  <2>3. (data[offset] = "stp_x" /\ StpX) \/ (data[offset] = "stp_d" /\ StpD)
    BY <1>2, <1>4, <2>2 DEF Stp
  <2>4. stp' /\ (pacsp' <=> pacsp) /\ (sub' <=> sub) BY <2>3 DEF StpX, StpD
  <2>5. sub <=> HasSub(p)
    <3>1. HasSub(p) => PacEnd(p) <= offset - 1 BY <1>1, <1>9 DEF SubEnd
    <3> QED BY <1>5, <3>1
  <2>6. HasPac(p) \/ HasSub(p) BY <1>3, <1>9 DEF SubEnd, PacEnd
  <2>7. start_address' = IF data[offset] = "stp_d" /\ ~sub THEN base + offset - 1
                         ELSE base + p.first - 1
    BY <1>2, <1>5, <2>1, <2>3, <2>5, <2>6 DEF StpX, StpD, StartIf
  <2>8. StartOf(p) = start_address'
    <3>1. StartOf(p) = base + p.first - 1
                         + (IF HasPac(p) /\ data[p.first + 1] = "stp_d" THEN 1 ELSE 0)
      BY DEF StartOf, HasPac, base, data
    <3>2. CASE HasSub(p)
      <4>1. HasPac(p) => data[p.first + 1] = "sub" BY <3>2 DEF HasSub, PacEnd, data
      <4>2. StartOf(p) = base + p.first - 1 BY <1>1, <3>1, <4>1
      <4> QED BY <2>5, <2>7, <3>2, <4>2
    <3>3. CASE ~HasSub(p)
      <4>1. HasPac(p) /\ offset = p.first + 1 BY <1>9, <2>6, <3>3 DEF SubEnd, PacEnd
      <4>2. start_address' = IF data[p.first + 1] = "stp_d" THEN base + p.first ELSE base + p.first - 1
        BY <1>1, <2>5, <2>7, <3>3, <4>1
      <4> QED BY <1>1, <3>1, <4>1, <4>2
    <3> QED BY <3>2, <3>3
  <2>9. PacEnd(p) <= offset /\ SubEnd(p) <= offset BY <1>1, <1>3, <1>9
  <2> QED BY <1>5, <2>4, <2>5, <2>8, <2>9 DEF ReadUpTo
<1>10. CASE SubEnd(p) < offset
  <2>1. SubEnd(p) <= offset - 1 /\ PacEnd(p) <= offset - 1 BY <1>1, <1>3, <1>10
  <2>2. stp /\ start_address = StartOf(p) BY <1>5, <2>1
  <2>3. data[offset] \in Stp BY <1>1, <1>3, <1>10
  <2>4. StpX \/ StpD BY <1>2, <1>4, <2>3 DEF Stp
  <2>5. stp' /\ (pacsp' <=> pacsp) /\ (sub' <=> sub) /\ start_address' = start_address
    BY <2>2, <2>4 DEF StpX, StpD, StartIf
  <2>6. PacEnd(p) <= offset /\ SubEnd(p) <= offset BY <1>1, <1>3, <1>10
  <2> QED BY <1>5, <2>1, <2>2, <2>5, <2>6 DEF ReadUpTo
<1> QED BY <1>1, <1>3, <1>8, <1>9, <1>10

LEMMA InitFound == Init => FoundInv
<1> SUFFICES ASSUME Init, NEW p \in Prologues, IsPrologue(p)
             PROVE  /\ ~(mapping = p.mapping /\ offset \in p.first + 1 .. p.last + 1)
                    /\ ~(mapping > p.mapping)
                    /\ ~(mapping = p.mapping /\ offset > p.last + 1)
  BY DEF FoundInv
<1>1. mapping = 1 /\ offset = 1 BY DEF Init
<1>2. TypeInv BY InitInv DEF IInv
<1>3. p.mapping \in 1 .. Len(mappings) /\ Len(mappings) \in Nat
  BY <1>2, PrologueFacts DEF TypeInv
<1>4. p.first \in Nat \ {0} /\ p.last \in Nat /\ p.first <= p.last BY <1>2, PrologueFacts
<1> QED BY <1>1, <1>3, <1>4

\* What is said of prologues depends on the image only.
LEMMA SameImage ==
  ASSUME mappings' = mappings
  PROVE  /\ Prologues' = Prologues
         /\ \A p : IsPrologue(p)' <=> IsPrologue(p)
         /\ \A p : StartOf(p)' = StartOf(p)
         /\ \A p, k, a, b, c, s : ReadUpTo(p, k, a, b, c, s)' <=> ReadUpTo(p, k, a, b, c, s)
<1>1. Prologues' = Prologues BY DEF Prologues
<1>2. \A m, f, l : Shape(m, f, l)' <=> Shape(m, f, l) BY DEF Shape
<1>3. \A p : IsPrologue(p)' <=> IsPrologue(p) BY <1>2 DEF IsPrologue
<1>4. \A p : StartOf(p)' = StartOf(p) BY DEF StartOf
<1>5. /\ \A p : HasPac(p)' <=> HasPac(p)
      /\ \A p : PacEnd(p)' = PacEnd(p)
  BY DEF HasPac, PacEnd
<1>6. /\ \A p : HasSub(p)' <=> HasSub(p)
      /\ \A p : SubEnd(p)' = SubEnd(p)
  BY <1>5 DEF HasSub, SubEnd
<1> QED BY <1>1, <1>3, <1>4, <1>5, <1>6 DEF ReadUpTo

LEMMA StepFound == ASSUME IInv, FoundInv, [Next]_vars PROVE FoundInv'
<1>1. mappings' = mappings /\ results \subseteq results'
  BY DEF Next, vars, flags, NextMapping, Pac, Sub, StpX, StpD, AddX29, Clear, Pass, NoMatch,
         At, Returned
<1>2. SUFFICES ASSUME NEW p \in Prologues, IsPrologue(p)
      PROVE  /\ mapping' = p.mapping /\ offset' \in p.first + 1 .. p.last + 1 =>
                  ReadUpTo(p, offset' - 1, pacsp', sub', stp', start_address')
             /\ mapping' > p.mapping \/ (mapping' = p.mapping /\ offset' > p.last + 1) =>
                  StartOf(p) \in results'
  BY <1>1, SameImage DEF FoundInv
<1>3. /\ mapping = p.mapping /\ offset \in p.first + 1 .. p.last + 1 =>
           ReadUpTo(p, offset - 1, pacsp, sub, stp, start_address)
      /\ mapping > p.mapping \/ (mapping = p.mapping /\ offset > p.last + 1) =>
           StartOf(p) \in results
  BY <1>2 DEF FoundInv
<1>4. /\ p.mapping \in Nat /\ p.mapping <= Len(mappings) /\ mappings[p.mapping].executable
      /\ Len(mappings[p.mapping].data) \in Nat
      /\ p.first \in Nat \ {0} /\ p.last \in Nat /\ p.first <= p.last
      /\ p.last + 1 < Len(mappings[p.mapping].data)
      /\ mappings[p.mapping].data[p.last + 1] = "add_x29"
      /\ SubEnd(p) \in Nat /\ SubEnd(p) <= p.last
  BY <1>2, PrologueFacts DEF IInv
<1>5. mapping \in Nat /\ offset \in Nat BY DEF IInv, TypeInv
<1>6. CASE NextMapping
  <2>1. mapping' = mapping + 1 /\ offset' = 1 /\ ~Scanning /\ mapping <= Len(mappings)
    BY <1>6 DEF NextMapping
  <2>2. mapping = p.mapping => offset > p.last + 1
    BY <1>4, <1>5, <2>1 DEF Scanning, Data
  <2> QED BY <1>1, <1>3, <1>4, <1>5, <2>1, <2>2
<1>7. CASE UNCHANGED vars
  BY <1>3, <1>7 DEF vars, flags
<1>8. CASE Returned
  BY <1>3, <1>8 DEF Returned, vars, flags
<1>9. CASE Scanning /\ Next
  <2>1. /\ offset' = offset + 1 /\ mapping' = mapping
        /\ Data[offset] = "add_x29" /\ stp => AddX29
    BY <1>9, OneWay DEF IInv
  <2>2. ASSUME mapping = p.mapping, offset = p.first
        PROVE  ReadUpTo(p, offset' - 1, pacsp', sub', stp', start_address')
    <3>1. offset' - 1 = p.first BY <1>5, <2>1, <2>2
    <3> QED BY <1>2, <1>9, <2>2, <3>1, ReadFirst
  <2>3. ASSUME mapping = p.mapping, offset \in p.first + 1 .. p.last
        PROVE  ReadUpTo(p, offset' - 1, pacsp', sub', stp', start_address')
    <3>1. offset' - 1 = offset BY <1>5, <2>1
    <3>2. ReadUpTo(p, offset - 1, pacsp, sub, stp, start_address) BY <1>3, <1>4, <2>3
    <3> QED BY <1>2, <1>9, <2>3, <3>1, <3>2, ReadNext
  <2>4. ASSUME mapping = p.mapping, offset = p.last + 1 PROVE StartOf(p) \in results'
    <3>1. ReadUpTo(p, p.last, pacsp, sub, stp, start_address) BY <1>3, <1>4, <2>4
    <3>2. stp /\ start_address = StartOf(p) BY <1>4, <3>1 DEF ReadUpTo
    <3>3. Data[offset] = "add_x29" BY <1>4, <2>4 DEF Data
    <3>4. AddX29 BY <2>1, <3>2, <3>3
    <3> QED BY <3>2, <3>4 DEF AddX29
  <2>5. ASSUME mapping' = p.mapping, offset' \in p.first + 1 .. p.last + 1
        PROVE  ReadUpTo(p, offset' - 1, pacsp', sub', stp', start_address')
    <3>1. offset = p.first \/ offset \in p.first + 1 .. p.last BY <1>4, <1>5, <2>1, <2>5
    <3> QED BY <2>1, <2>2, <2>3, <2>5, <3>1
  <2>6. ASSUME mapping' > p.mapping \/ (mapping' = p.mapping /\ offset' > p.last + 1)
        PROVE  StartOf(p) \in results'
    <3>1. \/ mapping > p.mapping \/ (mapping = p.mapping /\ offset > p.last + 1)
          \/ mapping = p.mapping /\ offset = p.last + 1
      BY <1>4, <1>5, <2>1, <2>6
    <3> QED BY <1>1, <1>3, <2>4, <3>1
  <2> QED BY <2>5, <2>6
<1>10. Next => NextMapping \/ Returned \/ Scanning
  BY DEF Next, Pac, Sub, StpX, StpD, AddX29, Clear, Pass, NoMatch, At
<1> QED BY <1>6, <1>7, <1>8, <1>9, <1>10

\* FindFunctions reports every prologue: however many half prologues, second stps and
\* ends of mappings it passes before, it comes to each with nothing left over from them.
THEOREM FindFunctionsComplete == Spec => []ProloguesFound
<1>1. Spec => [](IInv /\ FoundInv)
  <2>1. IInv /\ FoundInv /\ [Next]_vars => (IInv /\ FoundInv)' BY StepInv, StepFound
  <2> QED BY <2>1, InitInv, InitFound, PTL DEF Spec
<1>2. ASSUME IInv, FoundInv PROVE ProloguesFound
  <2> SUFFICES ASSUME Finished, NEW p \in Prologues, IsPrologue(p)
               PROVE  StartOf(p) \in results
    BY DEF ProloguesFound
  <2>1. p.mapping \in 1 .. Len(mappings) BY <1>2, PrologueFacts DEF IInv
  <2>2. mapping > p.mapping BY <1>2, <2>1 DEF Finished, IInv, TypeInv
  <2> QED BY <1>2, <2>2 DEF FoundInv
<1> QED BY <1>1, <1>2, PTL
=============================================================================
