-------------------------- MODULE Network_proofs ---------------------------
(***************************************************************************)
(* Proofs about the network plugin for any fields, value lists, sizes and  *)
(* numbers of packets.                                                     *)
(*                                                                         *)
(* The sender: the state in which a receiver is after the parts in the     *)
(* buffer is the one that send_buffer_vl remembers (Remembered).  It is    *)
(* what makes leaving out unchanged fields correct, and it is restored by  *)
(* every flush.                                                            *)
(* The receiver: the length that is counted is the length of the list as   *)
(* long as the dispatch thread runs, because the list is never longer than *)
(* what was received and the counter therefore never wraps around; and     *)
(* that thread ends only in a shutdown (Counted).                          *)
(***************************************************************************)
EXTENDS Network, SequenceFacts

\* Parts as add_to_buffer writes them.
Part ==
  [field : Field, name : Name, size : {1}]
    \cup [field : {"values"}, name : ValueList, size : Nat \ {0}]

Packet == Seq(Part)

Decodable == [id : [Field -> Name], size : Nat \ {0}]

SenderType ==
  /\ send_buffer \in Packet /\ send_buffer_vl \in [Field -> Name]
  /\ written \in Seq(ValueList) /\ failed \in Nat
  /\ sent \in Seq(Packet)

ReceiverType ==
  /\ received \in Seq(Packet)
  /\ private_list \in Seq(Packet) /\ receive_list \in Seq(Packet)
  /\ receive_list_length \in 0..Width - 1
  /\ parsing \in Seq(Packet) /\ dispatched \in Seq(Packet)
  /\ receive_thread \in {"test", "poll", "try", "end", "exit"}
  /\ dispatch_thread \in {"lock", "locked", "wait", "parse", "exit"}
  /\ main \in {"run", "kill", "join", "wait", "done", "aborted"}
  /\ listen_loop \in {0, 1}

\* The variables have their types; the counter stays within its width.
TypeOK == SenderType /\ ReceiverType

\* After a failed call of network_write this is no longer true: the fields
\* before the part that did not fit count as sent.
Remembered == failed = 0 => Parsed(send_buffer).id = send_buffer_vl

Counted ==
  /\ Len(received) <= MaxPackets
  /\ dispatch_thread # "parse" => parsing = <<>>
  /\ dispatch_thread # "exit" => receive_list_length = Len(receive_list)
  /\ listen_loop = 0 => dispatch_thread # "exit"

SenderInv == SenderType /\ Remembered /\ PacketsDecode
ReceiverInv == ReceiverType /\ Counted /\ HandedOverInOrder /\ AbortOnlyInShutdown

-----------------------------------------------------------------------------
(* Decoding *)

Known == [id : [Field -> Name], vls : Seq(Decodable)]
Nothing == [id |-> NoFields, vls |-> <<>>]

\* Parts and value lists are what they look like.
LEMMA PartFacts ==
  /\ \A p \in Part :
       \/ p.field \in Field /\ p.field # "values" /\ p.name \in Name
       \/ p.field = "values" /\ p.size \in Nat \ {0}
  /\ ValueList \subseteq Decodable
  /\ NoFields \in [Field -> Name] /\ Nothing \in Known
<1>1. NoFields \in [Field -> Name]
  BY DEF NoFields, Name
<1>2. ValueList \subseteq Decodable
  BY NetworkAssumption DEF Decodable
<1>3. Nothing \in Known
  BY <1>1 DEF Nothing, Known
<1>. QED BY <1>1, <1>2, <1>3, NetworkAssumption DEF Part

\* Each part leads from a state of parse_packet to another.
LEMMA ParsePartType ==
  ASSUME NEW state \in Known, NEW part \in Part
  PROVE  ParsePart(state, part) \in Known
<1>1. CASE part.field # "values"
  <2>1. part.field \in Field /\ part.name \in Name
    BY <1>1, PartFacts
  <2>2. ParsePart(state, part) = [state EXCEPT !.id[part.field] = part.name]
    BY <1>1 DEF ParsePart
  <2>. QED BY <2>1, <2>2 DEF Known
<1>2. CASE part.field = "values" /\ \E f \in Required : state.id[f] = Empty
  BY <1>2 DEF ParsePart
<1>3. CASE part.field = "values" /\ ~\E f \in Required : state.id[f] = Empty
  <2>. DEFINE v == [id |-> state.id, size |-> part.size]
  <2>1. ParsePart(state, part) = [state EXCEPT !.vls = Append(@, v)]
    BY <1>3 DEF ParsePart
  <2>2. v \in Decodable
    BY <1>3, PartFacts DEF Known, Decodable
  <2>. HIDE DEF v
  <2>3. Append(state.vls, v) \in Seq(Decodable)
    BY <2>2, AppendProperties DEF Known
  <2>. QED BY <2>1, <2>3 DEF Known
<1>. QED BY <1>1, <1>2, <1>3

\* g lists the states of parse_packet after 0, 1, ... parts of a packet.
ParseRun(g, packet) ==
  /\ g \in [0..Len(packet) -> Known]
  /\ g[0] = Nothing
  /\ \A i \in 1..Len(packet) : g[i] = ParsePart(g[i - 1], packet[i])

\* parse_packet goes through the parts one after the other.
LEMMA ParsedLoop ==
  ASSUME NEW packet \in Packet
  PROVE  \E g : ParseRun(g, packet) /\ Parsed(packet) = g[Len(packet)]
<1>. DEFINE n == Len(packet)
            step == [i \in 1..n |-> [x \in Known |-> ParsePart(x, packet[i])]]
            Rec(g) == g = [i \in 0..Len(packet) |->
                            IF i = 0 THEN [id |-> NoFields, vls |-> <<>>]
                            ELSE ParsePart(g[i - 1], packet[i])]
<1>1. n \in Nat /\ \A i \in 1..n : packet[i] \in Part
  BY ElementOfSeq DEF Packet
<1>2. step \in [1..n -> [Known -> Known]]
  <2>1. ASSUME NEW i \in 1..n, NEW x \in Known PROVE ParsePart(x, packet[i]) \in Known
    BY <1>1, ParsePartType
  <2>. QED BY <2>1
<1>3. PICK h : LoopRun(h, Known, n, Nothing, step)
  <2>. HIDE DEF step, n
  <2>. QED BY <1>1, <1>2, PartFacts, LoopExists
<1>4. ParseRun(h, packet)
  <2>1. ASSUME NEW i \in 1..n PROVE h[i] = ParsePart(h[i - 1], packet[i])
    <3>1. i - 1 \in 0..n
      BY <1>1
    <3>2. h[i - 1] \in Known
      BY <1>3, <3>1 DEF LoopRun
    <3>3. h[i] = step[i][h[i - 1]]
      BY <1>3 DEF LoopRun
    <3>. QED BY <3>2, <3>3
  <2>. QED BY <1>3, <2>1 DEF LoopRun, ParseRun
<1>5. Rec(h)
  <2>1. ASSUME NEW i \in 0..n
        PROVE h[i] = IF i = 0 THEN Nothing ELSE ParsePart(h[i - 1], packet[i])
    <3>1. CASE i = 0
      BY <1>4, <3>1 DEF ParseRun
    <3>2. CASE i # 0
      <4>1. i \in 1..n
        BY <1>1, <3>2
      <4>. QED BY <1>4, <3>2, <4>1 DEF ParseRun
    <3>. QED BY <3>1, <3>2
  <2>2. h \in [0..n -> Known]
    BY <1>4 DEF ParseRun
  <2>. QED BY <2>1, <2>2 DEF Nothing
<1>6. Parsed(packet) = (CHOOSE g : Rec(g))[n]
  BY DEF Parsed
<1>7. ASSUME NEW r, Rec(r) PROVE r[n] = h[n]
  <2>1. ASSUME NEW i \in 0..n
        PROVE r[i] = IF i = 0 THEN Nothing ELSE ParsePart(r[i - 1], packet[i])
    BY <1>7 DEF Nothing
  <2>. HIDE DEF Rec
  <2>2. r[0] = h[0]
    BY <1>1, <1>4, <2>1 DEF ParseRun
  <2>3. \A i \in 1..n : r[i - 1] = h[i - 1] => r[i] = h[i]
    <3>. SUFFICES ASSUME NEW i \in 1..n, r[i - 1] = h[i - 1] PROVE r[i] = h[i]
      OBVIOUS
    <3>1. i \in 0..n /\ i # 0
      BY <1>1
    <3>. QED BY <1>4, <2>1, <3>1 DEF ParseRun
  <2>4. n \in Nat /\ n \in 0..n
    BY <1>1
  <2>. HIDE DEF n
  <2>. QED BY <2>2, <2>3, <2>4, LoopUnique
<1>8. Parsed(packet) = h[n]
  <2>. DEFINE r == CHOOSE g : Rec(g)
  <2>. HIDE DEF Rec
  <2>1. Rec(r)
    BY <1>5
  <2>. HIDE DEF r
  <2>. QED BY <1>6, <1>7, <2>1 DEF r
<1>. QED BY <1>4, <1>8

\* A receiver starts without any field, and reads a packet part by part.
LEMMA ParsedAppend ==
  ASSUME NEW packet \in Packet, NEW part \in Part
  PROVE  /\ Parsed(packet) \in Known
         /\ Parsed(Append(packet, part)) = ParsePart(Parsed(packet), part)
<1>. DEFINE n == Len(packet)
            more == Append(packet, part)
<1>1. /\ n \in Nat /\ more \in Packet /\ Len(more) = n + 1
      /\ \A i \in 1..n : more[i] = packet[i]
      /\ more[n + 1] = part
  BY AppendProperties DEF Packet
<1>2. PICK g : ParseRun(g, packet) /\ Parsed(packet) = g[n]
  BY ParsedLoop
<1>. HIDE DEF more
<1>3. PICK h : ParseRun(h, more) /\ Parsed(more) = h[Len(more)]
  BY <1>1, ParsedLoop
<1>. HIDE DEF n
<1>4. \A i \in 1..n : g[i - 1] = h[i - 1] => g[i] = h[i]
  <2>. SUFFICES ASSUME NEW i \in 1..n, g[i - 1] = h[i - 1] PROVE g[i] = h[i]
    OBVIOUS
  <2>1. i \in 1..Len(more) /\ more[i] = packet[i]
    BY <1>1
  <2>2. g[i] = ParsePart(g[i - 1], packet[i])
    BY <1>2 DEF ParseRun, n
  <2>3. h[i] = ParsePart(h[i - 1], more[i])
    BY <1>3, <2>1 DEF ParseRun
  <2>. QED BY <2>1, <2>2, <2>3
<1>5. g[0] = h[0] /\ n \in Nat
  BY <1>1, <1>2, <1>3 DEF ParseRun
<1>6. \A i \in 0..n : g[i] = h[i]
  BY <1>4, <1>5, LoopUnique
<1>7. n \in 0..n /\ n + 1 \in 1..Len(more) /\ (n + 1) - 1 = n
  BY <1>1
<1>8. g[n] \in Known
  BY <1>2, <1>7 DEF ParseRun, n
<1>9. h[n + 1] = ParsePart(h[(n + 1) - 1], more[n + 1])
  BY <1>3, <1>7 DEF ParseRun
<1>. QED BY <1>1, <1>2, <1>3, <1>6, <1>7, <1>8, <1>9 DEF more

\* An empty packet says nothing.
LEMMA ParsedEmpty == <<>> \in Packet /\ Parsed(<<>>) = Nothing
<1>1. <<>> \in Packet /\ Len(<<>>) = 0
  BY EmptySeq DEF Packet
<1>2. PICK g : ParseRun(g, <<>>) /\ Parsed(<<>>) = g[Len(<<>>)]
  BY <1>1, ParsedLoop
<1>. QED BY <1>1, <1>2 DEF ParseRun

-----------------------------------------------------------------------------
(* Encoding *)

\* The fields that add_to_buffer writes are the ones that differ.
LEMMA ChangedFacts ==
  ASSUME NEW def \in [Field -> Name], NEW vl \in ValueList
  PROVE  /\ Changed(def, vl) \in Seq(Field)
         /\ \A f \in Field : Contains(Changed(def, vl), f) <=> def[f] # vl.id[f]
<1>. DEFINE n == Len(FieldOrder)
            Differs(f) == def[f] # vl.id[f]
            Step(x, f) == IF Differs(f) THEN Append(x, f) ELSE x
            step == [i \in 1..n |-> [x \in Seq(Field) |-> Step(x, FieldOrder[i])]]
            Rec(g) == g = [i \in 0..n |->
                            IF i = 0 THEN <<>>
                            ELSE IF Differs(FieldOrder[i]) THEN Append(g[i - 1], FieldOrder[i])
                            ELSE g[i - 1]]
<1>1. n \in Nat /\ \A i \in 1..n : FieldOrder[i] \in Field
  BY NetworkAssumption, ElementOfSeq
<1>2. step \in [1..n -> [Seq(Field) -> Seq(Field)]]
  <2>1. ASSUME NEW i \in 1..n, NEW x \in Seq(Field) PROVE Step(x, FieldOrder[i]) \in Seq(Field)
    BY <1>1, AppendProperties
  <2>. HIDE DEF Step
  <2>. QED BY <2>1
<1>3. PICK h : LoopRun(h, Seq(Field), n, <<>>, step)
  <2>1. <<>> \in Seq(Field)
    BY EmptySeq
  <2>. HIDE DEF step, n
  <2>. QED BY <1>1, <1>2, <2>1, LoopExists
<1>4. /\ h \in [0..n -> Seq(Field)] /\ h[0] = <<>>
      /\ \A i \in 1..n : h[i - 1] \in Seq(Field) /\ h[i] = Step(h[i - 1], FieldOrder[i])
  <2>1. ASSUME NEW i \in 1..n
        PROVE h[i - 1] \in Seq(Field) /\ h[i] = Step(h[i - 1], FieldOrder[i])
    <3>1. i - 1 \in 0..n
      BY <1>1
    <3>2. h[i - 1] \in Seq(Field)
      BY <1>3, <3>1 DEF LoopRun
    <3>3. h[i] = step[i][h[i - 1]]
      BY <1>3 DEF LoopRun
    <3>. HIDE DEF Step
    <3>. QED BY <3>2, <3>3
  <2>. QED BY <1>3, <2>1 DEF LoopRun
<1>5. Changed(def, vl) = h[n]
  <2>1. Rec(h)
    <3>1. ASSUME NEW i \in 0..n
          PROVE h[i] = IF i = 0 THEN <<>> ELSE Step(h[i - 1], FieldOrder[i])
      <4>1. CASE i = 0
        BY <1>4, <4>1
      <4>2. CASE i # 0
        <5>1. i \in 1..n
          BY <1>1, <4>2
        <5>. HIDE DEF Step
        <5>. QED BY <1>4, <4>2, <5>1
      <4>. QED BY <4>1, <4>2
    <3>. QED BY <1>4, <3>1
  <2>2. Changed(def, vl) = (CHOOSE g : Rec(g))[n]
    BY DEF Changed
  <2>3. ASSUME NEW r, Rec(r) PROVE r[n] = h[n]
    <3>1. ASSUME NEW i \in 0..n
          PROVE r[i] = IF i = 0 THEN <<>> ELSE Step(r[i - 1], FieldOrder[i])
      BY <2>3
    <3>. HIDE DEF Rec, Step
    <3>2. r[0] = h[0] /\ n \in Nat /\ n \in 0..n
      BY <1>1, <1>4, <3>1
    <3>3. \A i \in 1..n : r[i - 1] = h[i - 1] => r[i] = h[i]
      <4>. SUFFICES ASSUME NEW i \in 1..n, r[i - 1] = h[i - 1] PROVE r[i] = h[i]
        OBVIOUS
      <4>1. i \in 0..n /\ i # 0
        BY <1>1
      <4>. QED BY <1>4, <3>1, <4>1
    <3>. HIDE DEF n
    <3>4. \A i \in 0..n : r[i] = h[i]
      BY <3>2, <3>3, LoopUnique
    <3>. QED BY <3>2, <3>4
  <2>. DEFINE r == CHOOSE g : Rec(g)
  <2>. HIDE DEF Rec
  <2>4. Rec(r)
    BY <2>1
  <2>. HIDE DEF r
  <2>. QED BY <2>2, <2>3, <2>4 DEF r
<1>. DEFINE Good(i) ==
       /\ \A f : Contains(h[i], f) => Differs(f)
       /\ \A j \in 1..i : Differs(FieldOrder[j]) => Contains(h[i], FieldOrder[j])
<1>6. Good(0)
  BY <1>4 DEF Contains
<1>7. ASSUME NEW i \in 1..n, Good(i - 1) PROVE Good(i)
  <2>1. /\ h[i - 1] \in Seq(Field) /\ h[i] = Step(h[i - 1], FieldOrder[i])
        /\ FieldOrder[i] \in Field
    BY <1>1, <1>4
  <2>2. CASE Differs(FieldOrder[i])
    <3>1. \A f : Contains(h[i], f) <=> Contains(h[i - 1], f) \/ f = FieldOrder[i]
      <4>1. h[i] = Append(h[i - 1], FieldOrder[i])
        BY <2>1, <2>2
      <4>. HIDE DEF Differs, Step
      <4>. QED BY <2>1, <4>1, ContainsAppend
    <3>2. \A j \in 1..i : j = i \/ j \in 1..i - 1
      BY <1>1
    <3>. HIDE DEF Differs, Step
    <3>. QED BY <1>7, <2>2, <3>1, <3>2
  <2>3. CASE ~Differs(FieldOrder[i])
    <3>1. h[i] = h[i - 1]
      BY <2>1, <2>3
    <3>2. \A j \in 1..i : j = i \/ j \in 1..i - 1
      BY <1>1
    <3>. HIDE DEF Differs, Step
    <3>. QED BY <1>7, <2>3, <3>1, <3>2
  <2>. QED BY <2>2, <2>3
<1>8. Good(n)
  <2>. DEFINE G == {i \in 0..n : Good(i)}
  <2>. HIDE DEF Good
  <2>1. 0 \in G
    BY <1>1, <1>6
  <2>2. \A i \in 1..n : i - 1 \in G => i \in G
    <3>1. \A i \in 1..n : i \in 0..n
      BY <1>1
    <3>. QED BY <1>7, <3>1
  <2>3. n \in Nat /\ n \in 0..n
    BY <1>1
  <2>4. n \in G
    <3>. HIDE DEF n, G
    <3>. QED BY <2>1, <2>2, <2>3, LoopInduction
  <2>. QED BY <2>4
<1>9. \A f \in Field : \E j \in 1..n : FieldOrder[j] = f
  BY DEF Field
<1>10. h[n] \in Seq(Field)
  <2>1. n \in 0..n
    BY <1>1
  <2>. QED BY <1>4, <2>1
<1>11. ASSUME NEW f \in Field PROVE Contains(h[n], f) <=> Differs(f)
  <2>. HIDE DEF Differs
  <2>. QED BY <1>8, <1>9
<1>. HIDE DEF n
<1>. QED BY <1>5, <1>10, <1>11

\* add_to_buffer writes parts.
LEMMA EncodedType ==
  ASSUME NEW def \in [Field -> Name], NEW vl \in ValueList
  PROVE  Encoded(def, vl) \in Packet
<1>. DEFINE c == Changed(def, vl)
            P == [i \in 1..Len(c) |-> [field |-> c[i], name |-> vl.id[c[i]], size |-> 1]]
            V == [field |-> "values", name |-> vl, size |-> vl.size]
<1>1. Encoded(def, vl) = P \o <<V>>
  BY DEF Encoded
<1>2. c \in Seq(Field)
  BY ChangedFacts
<1>3. vl.id \in [Field -> Name] /\ vl.size \in Nat \ {0}
  BY PartFacts DEF Decodable
<1>. HIDE DEF c
<1>4. ASSUME NEW i \in 1..Len(c) PROVE P[i] \in Part
  <2>1. P[i] = [field |-> c[i], name |-> vl.id[c[i]], size |-> 1] /\ c[i] \in Field
    BY <1>2, ElementOfSeq
  <2>. QED BY <1>3, <2>1 DEF Part
<1>5. P \in Seq(Part)
  BY <1>2, <1>4
<1>6. V \in Part
  BY <1>3 DEF Part
<1>. HIDE DEF P, V
<1>7. <<V>> \in Seq(Part)
  BY <1>6
<1>. QED BY <1>1, <1>5, <1>7, ConcatProperties DEF Packet

\* The parts that add_to_buffer writes take a receiver that knows the fields of
\* the previous value list to the fields of the next one, and make it dispatch
\* exactly that value list.
LEMMA EncodedParses ==
  ASSUME NEW b \in Packet, NEW vl \in ValueList
  PROVE  LET def == Parsed(b).id
         IN  /\ b \o Encoded(def, vl) \in Packet
             /\ Parsed(b \o Encoded(def, vl)) =
                  [id |-> vl.id, vls |-> Append(Parsed(b).vls, vl)]
<1>. DEFINE def == Parsed(b).id
            out == Parsed(b).vls
            c == Changed(def, vl)
            n == Len(c)
            P == [i \in 1..n |-> [field |-> c[i], name |-> vl.id[c[i]], size |-> 1]]
            V == [field |-> "values", name |-> vl, size |-> vl.size]
<1>1. vl \in Decodable /\ vl.id \in [Field -> Name] /\ vl.size \in Nat \ {0}
      /\ vl = [id |-> vl.id, size |-> vl.size]
  BY PartFacts DEF Decodable
<1>2. Parsed(b) \in Known
  <2>1. V \in Part
    BY <1>1 DEF Part
  <2>. QED BY <2>1, ParsedAppend
<1>3. def \in [Field -> Name] /\ out \in Seq(Decodable) /\ Parsed(b) = [id |-> def, vls |-> out]
  BY <1>2 DEF Known
<1>4. c \in Seq(Field) /\ \A f \in Field : Contains(c, f) <=> def[f] # vl.id[f]
  <2>. HIDE DEF def
  <2>. QED BY <1>3, ChangedFacts
<1>5. n \in Nat /\ \A i \in 1..n : c[i] \in Field
  <2>. HIDE DEF c
  <2>. QED BY <1>4, ElementOfSeq
<1>6. Encoded(def, vl) = P \o <<V>>
  BY DEF Encoded
<1>. HIDE DEF def, out, c, n
<1>7. ASSUME NEW i \in 1..n PROVE P[i] \in Part
  <2>1. P[i] = [field |-> c[i], name |-> vl.id[c[i]], size |-> 1]
    OBVIOUS
  <2>. QED BY <1>1, <1>5, <2>1 DEF Part
<1>8. P \in Packet /\ Len(P) = n
  BY <1>5, <1>7 DEF Packet
<1>9. V \in Part
  BY <1>1 DEF Part
<1>. DEFINE Upto(j) == b \o SubSeq(P, 1, j)
            Now(j) == [f \in Field |-> IF \E i \in 1..j : c[i] = f THEN vl.id[f] ELSE def[f]]
            G == {j \in 0..n : Upto(j) \in Packet /\ Parsed(Upto(j)) = [id |-> Now(j), vls |-> out]}
<1>10. 0 \in G
  <2>1. SubSeq(P, 1, 0) = <<>>
    BY SubSeqEmpty
  <2>2. Upto(0) = b
    BY <2>1, ConcatEmptySeq DEF Packet
  <2>3. Now(0) = def
    BY <1>3
  <2>4. 0 \in 0..n
    BY <1>5
  <2>. HIDE DEF Upto, Now
  <2>. QED BY <1>3, <2>2, <2>3, <2>4
<1>11. \A j \in 1..n : j - 1 \in G => j \in G
  <2>. SUFFICES ASSUME NEW j \in 1..n, j - 1 \in G PROVE j \in G
    OBVIOUS
  <2>1. /\ j \in 0..n /\ j - 1 \in 0..n
        /\ Upto(j - 1) \in Packet
        /\ Parsed(Upto(j - 1)) = [id |-> Now(j - 1), vls |-> out]
    BY <1>5
  <2>2. P[j] \in Part /\ c[j] \in Field
    BY <1>5, <1>7
  <2>3. Upto(j) = Append(Upto(j - 1), P[j])
    <3>. HIDE DEF P
    <3>1. SubSeq(P, 1, j) = SubSeq(P, 1, j - 1) \o <<P[j]>>
      <4>1. 1 \in 1..Len(P) /\ j \in 1..Len(P)
        BY <1>5, <1>8
      <4>. QED BY <1>8, <4>1, SubSeqRecursiveSecond DEF Packet
    <3>2. SubSeq(P, 1, j - 1) \in Seq(Part) /\ <<P[j]>> \in Seq(Part)
      <4>1. \A i \in 1..j - 1 : P[i] \in Part
        BY <1>5, <1>7
      <4>. QED BY <1>5, <2>2, <4>1, SubSeqProperties
    <3>3. b \o (SubSeq(P, 1, j - 1) \o <<P[j]>>) = (b \o SubSeq(P, 1, j - 1)) \o <<P[j]>>
      BY <3>2, ConcatAssociative DEF Packet
    <3>4. Append(Upto(j - 1), P[j]) = Upto(j - 1) \o <<P[j]>>
      <4>. HIDE DEF Upto
      <4>. QED BY <2>1, <2>2, AppendIsConcat DEF Packet
    <3>. QED BY <3>1, <3>3, <3>4
  <2>4. Upto(j) \in Packet
    <3>. HIDE DEF Upto, P
    <3>. QED BY <2>1, <2>2, <2>3, AppendProperties DEF Packet
  <2>5. Parsed(Upto(j)) = ParsePart([id |-> Now(j - 1), vls |-> out], P[j])
    <3>. HIDE DEF Upto, P, Now
    <3>. QED BY <2>1, <2>2, <2>3, ParsedAppend
  <2>6. P[j].field = c[j] /\ P[j].name = vl.id[c[j]] /\ c[j] # "values"
    BY <2>2, NetworkAssumption
  <2>7. ParsePart([id |-> Now(j - 1), vls |-> out], P[j]) =
          [id |-> [Now(j - 1) EXCEPT ![c[j]] = vl.id[c[j]]], vls |-> out]
    <3>. HIDE DEF P, Now
    <3>. QED BY <2>6 DEF ParsePart
  <2>8. [Now(j - 1) EXCEPT ![c[j]] = vl.id[c[j]]] = Now(j)
    <3>1. \A f : (\E i \in 1..j : c[i] = f) <=> (\E i \in 1..j - 1 : c[i] = f) \/ c[j] = f
      <4>1. \A i \in 1..j : i = j \/ i \in 1..j - 1
        BY <1>5
      <4>2. \A i \in 1..j - 1 : i \in 1..j
        BY <1>5
      <4>3. j \in 1..j
        BY <1>5
      <4>. QED BY <4>1, <4>2, <4>3
    <3>. QED BY <2>2, <3>1
  <2>. HIDE DEF Upto, P, Now
  <2>. QED BY <2>1, <2>4, <2>5, <2>7, <2>8
<1>12. n \in G
  <2>1. n \in 0..n
    BY <1>5
  <2>. HIDE DEF G
  <2>. QED BY <1>5, <1>10, <1>11, <2>1, LoopInduction
<1>13. Now(n) = vl.id
  <2>1. ASSUME NEW f \in Field PROVE Now(n)[f] = vl.id[f]
    <3>1. (\E i \in 1..n : c[i] = f) <=> def[f] # vl.id[f]
      BY <1>4 DEF Contains, n
    <3>. QED BY <3>1
  <2>. QED BY <1>1, <2>1
<1>14. Upto(n) = b \o P
  <2>. HIDE DEF P
  <2>. QED BY <1>8, SubSeqFull DEF Packet
<1>15. b \o P \in Packet /\ Parsed(b \o P) = [id |-> vl.id, vls |-> out]
  <2>. HIDE DEF P, Upto, Now
  <2>. QED BY <1>12, <1>13, <1>14
<1>. HIDE DEF P, Upto, Now, G
<1>16. b \o (P \o <<V>>) = Append(b \o P, V)
  <2>. HIDE DEF V
  <2>1. <<V>> \in Seq(Part)
    BY <1>9
  <2>2. b \o (P \o <<V>>) = (b \o P) \o <<V>>
    BY <1>8, <2>1, ConcatAssociative DEF Packet
  <2>. QED BY <1>9, <1>15, <2>2, AppendIsConcat DEF Packet
<1>17. Append(b \o P, V) \in Packet /\ Parsed(Append(b \o P, V)) = ParsePart(Parsed(b \o P), V)
  <2>. HIDE DEF V
  <2>. QED BY <1>9, <1>15, ParsedAppend, AppendProperties DEF Packet
<1>18. ParsePart([id |-> vl.id, vls |-> out], V) = [id |-> vl.id, vls |-> Append(out, vl)]
  <2>1. \A f \in Required : vl.id[f] # Empty
    BY NetworkAssumption
  <2>. QED BY <1>1, <2>1 DEF ParsePart
<1>. HIDE DEF V
<1>. QED BY <1>6, <1>15, <1>16, <1>17, <1>18 DEF def, out

-----------------------------------------------------------------------------
(* The sender *)

\* A step of the receiving daemon or of network_shutdown.
ReceiverStep ==
  \/ receive_loop_test \/ receive_packet \/ receive_error \/ receive_try \/ receive_end
  \/ DispatchStep \/ spurious_wakeup
  \/ shutdown_listen \/ shutdown_kill \/ shutdown_broadcast \/ shutdown_done

\* The threads of the receiver do not touch the send buffer.
LEMMA ReceiverLeavesSender == ReceiverStep => UNCHANGED sender
  BY DEF ReceiverStep, receive_loop_test, receive_packet, receive_error, receive_try,
    receive_end, Abort, DispatchStep, dispatch_lock, dispatch_wait, dispatch_take, dispatch_parse,
    spurious_wakeup, shutdown_listen, shutdown_kill, shutdown_broadcast, shutdown_done,
    others_of_receive, others_of_dispatch, others_of_main

\* What has been sent, decoded packet by packet.
Delivered == FlattenSeq([i \in 1..Len(sent) |-> Decoded(sent[i])])

\* A packet is decoded to value lists.
LEMMA DecodedType ==
  ASSUME NEW p \in Packet
  PROVE  Decoded(p) \in Seq(Decodable)
<1>1. Parsed(p) \in Known
  <2>1. PICK g : ParseRun(g, p) /\ Parsed(p) = g[Len(p)]
    BY ParsedLoop
  <2>2. Len(p) \in 0..Len(p)
    BY DEF Packet
  <2>. QED BY <2>1, <2>2 DEF ParseRun
<1>. QED BY <1>1 DEF Decoded, Known

\* Packets are decoded to value lists.
LEMMA DeliveredType ==
  ASSUME SenderType
  PROVE  Delivered \in Seq(Decodable)
<1>. DEFINE D == [i \in 1..Len(sent) |-> Decoded(sent[i])]
<1>1. sent \in Seq(Packet) /\ \A i \in 1..Len(sent) : sent[i] \in Packet
  BY ElementOfSeq DEF SenderType
<1>2. D \in Seq(Seq(Decodable)) /\ <<>> \in Seq(Decodable)
  BY <1>1, DecodedType
<1>. HIDE DEF D
<1>3. FlattenSeq(D) \in Seq(Decodable)
  BY <1>2, FlattenAppend
<1>. QED BY <1>3 DEF Delivered, D

\* One more packet delivers its value lists after the others.
LEMMA SendingDelivers ==
  ASSUME SenderType, sent' = Append(sent, send_buffer)
  PROVE  /\ sent' \in Seq(Packet)
         /\ Delivered' = Delivered \o Decoded(send_buffer)
<1>. DEFINE D == [i \in 1..Len(sent) |-> Decoded(sent[i])]
            D1 == [i \in 1..Len(sent') |-> Decoded(sent'[i])]
<1>1. \A p \in Packet : Decoded(p) \in Seq(Decodable)
  BY DecodedType
<1>2. /\ sent \in Seq(Packet) /\ send_buffer \in Packet
      /\ sent' \in Seq(Packet) /\ Len(sent') = Len(sent) + 1 /\ Len(sent) \in Nat
      /\ \A i \in 1..Len(sent) : sent[i] \in Packet /\ sent'[i] = sent[i]
      /\ sent'[Len(sent) + 1] = send_buffer
  BY AppendProperties, ElementOfSeq DEF SenderType
<1>3. D \in Seq(Seq(Decodable)) /\ Len(D) = Len(sent)
  BY <1>1, <1>2
<1>4. D1 = Append(D, Decoded(send_buffer))
  <2>. DEFINE A == Append(D, Decoded(send_buffer))
  <2>1. /\ A \in Seq(Seq(Decodable)) /\ Len(A) = Len(sent) + 1
        /\ \A i \in 1..Len(sent) : A[i] = D[i]
        /\ A[Len(sent) + 1] = Decoded(send_buffer)
    <3>. HIDE DEF D
    <3>. QED BY <1>1, <1>2, <1>3, AppendProperties
  <2>2. D1 \in Seq(Seq(Decodable)) /\ Len(D1) = Len(sent) + 1
    <3>1. \A i \in 1..Len(sent') : sent'[i] \in Packet
      BY <1>2, ElementOfSeq
    <3>. QED BY <1>1, <1>2, <3>1
  <2>3. ASSUME NEW i \in 1..Len(sent) + 1 PROVE A[i] = D1[i]
    <3>1. CASE i \in 1..Len(sent)
      <4>1. A[i] = Decoded(sent[i])
        <5>. HIDE DEF A
        <5>. QED BY <2>1, <3>1
      <4>. HIDE DEF A
      <4>. QED BY <1>2, <2>3, <3>1, <4>1
    <3>2. CASE i = Len(sent) + 1
      <4>1. A[i] = Decoded(send_buffer)
        BY <2>1, <3>2
      <4>. HIDE DEF A
      <4>. QED BY <1>2, <2>3, <3>2, <4>1
    <3>. QED BY <1>2, <3>1, <3>2
  <2>. HIDE DEF A, D1
  <2>4. A = D1
    BY <1>2, <2>1, <2>2, <2>3
  <2>. QED BY <2>4 DEF A
<1>. HIDE DEF D, D1
<1>5. FlattenSeq(D) \in Seq(Decodable) /\ FlattenSeq(D1) = FlattenSeq(D) \o Decoded(send_buffer)
  BY <1>1, <1>2, <1>3, <1>4, FlattenAppend
<1>6. Delivered = FlattenSeq(D) /\ Delivered' = FlattenSeq(D1)
  BY DEF Delivered, D, D1
<1>. QED BY <1>1, <1>2, <1>5, <1>6

\* A value list that is added to what a receiver of buffer b knows: def.
LEMMA WritingDelivers ==
  ASSUME NEW b \in Packet, NEW def \in [Field -> Name], NEW vl \in ValueList
  PROVE  /\ b \o Encoded(def, vl) \in Packet
         /\ Parsed(b).id = def =>
              /\ Parsed(b \o Encoded(def, vl)).id = vl.id
              /\ Decoded(b \o Encoded(def, vl)) = Append(Decoded(b), vl)
<1>1. b \o Encoded(def, vl) \in Packet
  BY EncodedType, ConcatProperties DEF Packet
<1>2. ASSUME Parsed(b).id = def
      PROVE Parsed(b \o Encoded(def, vl)) = [id |-> vl.id, vls |-> Append(Parsed(b).vls, vl)]
  BY <1>2, EncodedParses
<1>. QED BY <1>1, <1>2 DEF Decoded

\* network_write and network_flush keep the buffer decodable and remember what
\* is in it.
LEMMA SenderStep == SenderInv /\ [Next]_vars => SenderInv'
<1>. SUFFICES ASSUME SenderInv, [Next]_vars PROVE SenderInv'
  OBVIOUS
<1>. USE DEF SenderInv
<1>0. /\ send_buffer \in Packet /\ send_buffer_vl \in [Field -> Name]
      /\ written \in Seq(ValueList) /\ written \in Seq(Decodable) /\ failed \in Nat
      /\ <<>> \in Packet /\ NoFields \in [Field -> Name]
      /\ Parsed(<<>>).id = NoFields /\ Decoded(<<>>) = <<>>
      /\ failed = 0 => Parsed(send_buffer).id = send_buffer_vl
      /\ failed = 0 => Delivered \o Decoded(send_buffer) = written
  <2>1. written \in Seq(Decodable)
    BY PartFacts DEF SenderType
  <2>. QED BY <2>1, ParsedEmpty, PartFacts
    DEF SenderType, Remembered, PacketsDecode, Delivered, Decoded, Nothing
<1>1. \A seq \in Seq(Decodable), vl \in ValueList :
        Append(seq, vl) = seq \o <<vl>> /\ <<vl>> \in Seq(Decodable)
  BY PartFacts, AppendIsConcat
<1>2. Delivered \in Seq(Decodable) /\ Decoded(send_buffer) \in Seq(Decodable)
  BY <1>0, DeliveredType, DecodedType
<1>3. ASSUME NEW vl \in ValueList, network_write(vl) PROVE SenderInv'
  <2>. DEFINE fits == Fits(send_buffer, send_buffer_vl, vl)
  <2>0. Append(written, vl) \in Seq(ValueList)
    BY <1>0, AppendProperties
  <2>1. CASE fits
    <3>1. /\ sent' = sent /\ send_buffer' = send_buffer \o Encoded(send_buffer_vl, vl)
          /\ send_buffer_vl' = vl.id /\ written' = Append(written, vl) /\ failed' = failed
      BY <1>3, <2>1 DEF network_write
    <3>2. SenderType'
      BY <1>0, <2>0, <3>1, WritingDelivers, PartFacts DEF SenderType, Decodable
    <3>3. ASSUME failed = 0
          PROVE /\ Parsed(send_buffer').id = send_buffer_vl'
                /\ Decoded(send_buffer') = Append(Decoded(send_buffer), vl)
      BY <1>0, <3>1, <3>3, WritingDelivers
    <3>4. Delivered' = Delivered
      BY <3>1 DEF Delivered
    <3>5. ASSUME failed = 0 PROVE Delivered' \o Decoded(send_buffer') = written'
      <4>1. Delivered \o (Decoded(send_buffer) \o <<vl>>) =
              (Delivered \o Decoded(send_buffer)) \o <<vl>>
        BY <1>1, <1>2, ConcatAssociative
      <4>. QED BY <1>0, <1>1, <1>2, <3>1, <3>3, <3>4, <3>5, <4>1
    <3>. QED BY <3>1, <3>2, <3>3, <3>5 DEF Remembered, PacketsDecode, Delivered
  <2>2. CASE ~fits /\ Fits(<<>>, NoFields, vl)
    <3>1. /\ sent' = Append(sent, send_buffer) /\ send_buffer' = <<>> \o Encoded(NoFields, vl)
          /\ send_buffer_vl' = vl.id /\ written' = Append(written, vl) /\ failed' = failed
      BY <1>3, <2>2 DEF network_write, AfterFlush
    <3>2. SenderType'
      BY <1>0, <2>0, <3>1, WritingDelivers, PartFacts, SendingDelivers DEF SenderType, Decodable
    <3>3. /\ Parsed(send_buffer').id = send_buffer_vl'
          /\ Decoded(send_buffer') = Append(<<>>, vl)
      BY <1>0, <3>1, WritingDelivers
    <3>4. Delivered' = Delivered \o Decoded(send_buffer)
      BY <3>1, SendingDelivers
    <3>5. ASSUME failed = 0 PROVE Delivered' \o Decoded(send_buffer') = written'
      <4>1. Append(<<>>, vl) = <<vl>>
        OBVIOUS
      <4>. QED BY <1>0, <1>1, <3>1, <3>3, <3>4, <3>5, <4>1
    <3>. QED BY <3>1, <3>2, <3>3, <3>5 DEF Remembered, PacketsDecode, Delivered
  <2>3. CASE ~fits /\ ~Fits(<<>>, NoFields, vl)
    <3>1. /\ sent' = Append(sent, send_buffer) /\ send_buffer' = <<>>
          /\ send_buffer_vl' = PartlyWritten(NoFields, vl, Room(<<>>))
          /\ written' = written /\ failed' = failed + 1
      BY <1>3, <2>3 DEF network_write, AfterFlush
    <3>2. send_buffer_vl' \in [Field -> Name]
      <4>1. vl.id \in [Field -> Name]
        BY PartFacts DEF Decodable
      <4>. QED BY <1>0, <3>1, <4>1 DEF PartlyWritten
    <3>3. SenderType'
      BY <1>0, <3>1, <3>2, SendingDelivers DEF SenderType
    <3>. QED BY <1>0, <3>1, <3>3 DEF Remembered, PacketsDecode
  <2>. QED BY <2>1, <2>2, <2>3
<1>4. CASE network_flush
  <2>1. /\ sent' = Append(sent, send_buffer) /\ send_buffer' = <<>>
        /\ send_buffer_vl' = NoFields /\ written' = written /\ failed' = failed
    BY <1>4 DEF network_flush, AfterFlush
  <2>2. SenderType'
    BY <1>0, <2>1, SendingDelivers DEF SenderType
  <2>3. Delivered' = Delivered \o Decoded(send_buffer)
    BY <2>1, SendingDelivers
  <2>4. ASSUME failed = 0 PROVE Delivered' \o Decoded(send_buffer') = written'
    BY <1>0, <2>1, <2>3, <2>4, ConcatEmptySeq
  <2>. QED BY <1>0, <2>1, <2>2, <2>4 DEF Remembered, PacketsDecode, Delivered
<1>5. CASE UNCHANGED sender
  BY <1>5 DEF sender, SenderType, Remembered, PacketsDecode
<1>. QED BY <1>3, <1>4, <1>5, ReceiverLeavesSender DEF Next, ReceiverStep, vars

-----------------------------------------------------------------------------
(* The receiver *)

\* Arithmetic of the counter.
LEMMA WidthFacts ==
  /\ Width \in Nat \ {0}
  /\ \A n \in 0..Width - 1 : n % Width = n
  /\ \A n \in 1..Width - 1 : (n + Width - 1) % Width = n - 1
  /\ \A n \in Int : n % Width \in 0..Width - 1
<1>1. Width \in Nat /\ Width > 0
  BY NetworkAssumption
<1>2. \A n \in Int : n % Width \in 0..Width - 1
  BY <1>1
<1>3. \A n \in 0..Width - 1 : n % Width = n
  BY <1>1
<1>4. \A n \in 1..Width - 1 : (n + Width - 1) % Width = n - 1
  BY <1>1
<1>. QED BY <1>1, <1>2, <1>3, <1>4

\* The lists together are as long as what was received.
LEMMA ListLengths ==
  ASSUME ReceiverInv
  PROVE  /\ Len(receive_list) \in Nat /\ Len(private_list) \in Nat
         /\ Len(receive_list) + Len(private_list) <= MaxPackets
         /\ MaxPackets < Width
<1>. USE DEF ReceiverInv
<1>1. /\ dispatched \in Seq(Packet) /\ parsing \in Seq(Packet)
      /\ receive_list \in Seq(Packet) /\ private_list \in Seq(Packet)
  BY DEF ReceiverType
<1>2. dispatched \o parsing \in Seq(Packet)
      /\ Len(dispatched \o parsing) = Len(dispatched) + Len(parsing)
  BY <1>1, ConcatProperties
<1>3. (dispatched \o parsing) \o receive_list \in Seq(Packet)
      /\ Len((dispatched \o parsing) \o receive_list)
           = Len(dispatched \o parsing) + Len(receive_list)
  BY <1>1, <1>2, ConcatProperties
<1>4. Len(received) = Len((dispatched \o parsing) \o receive_list) + Len(private_list)
  BY <1>1, <1>3, ConcatProperties DEF HandedOverInOrder
<1>. QED BY <1>1, <1>2, <1>3, <1>4, NetworkAssumption DEF Counted

\* Handing over moves packets from the end of one list to the end of the other,
\* and the counter along with them.
LEMMA PushedFacts ==
  ASSUME ReceiverInv, Pushed, UNCHANGED <<received, parsing, dispatched, listen_loop>>
  PROVE  /\ receive_list' \in Seq(Packet) /\ private_list' \in Seq(Packet)
         /\ receive_list_length' \in 0..Width - 1
         /\ HandedOverInOrder'
         /\ dispatch_thread # "exit" => receive_list_length' = Len(receive_list')
         /\ dispatch_thread' \in {dispatch_thread, Signalled}
<1>. USE DEF ReceiverInv
<1>1. /\ dispatched \in Seq(Packet) /\ parsing \in Seq(Packet)
      /\ receive_list \in Seq(Packet) /\ private_list \in Seq(Packet)
      /\ receive_list_length \in 0..Width - 1
  BY DEF ReceiverType
<1>2. /\ receive_list' = receive_list \o private_list /\ private_list' = <<>>
      /\ receive_list_length' = (receive_list_length + Len(private_list)) % Width
      /\ dispatch_thread' = Signalled
  BY DEF Pushed
<1>3. receive_list' \in Seq(Packet) /\ Len(receive_list') = Len(receive_list) + Len(private_list)
  BY <1>1, <1>2, ConcatProperties
<1>4. receive_list_length' \in 0..Width - 1
  <2>1. receive_list_length + Len(private_list) \in Int
    BY <1>1, ListLengths, WidthFacts
  <2>. QED BY <1>2, <2>1, WidthFacts
<1>5. dispatch_thread # "exit" => receive_list_length' = Len(receive_list')
  <2>. SUFFICES ASSUME dispatch_thread # "exit" PROVE receive_list_length' = Len(receive_list')
    OBVIOUS
  <2>1. receive_list_length = Len(receive_list)
    BY DEF Counted
  <2>2. Len(receive_list) + Len(private_list) \in 0..Width - 1
    <3>1. /\ Len(receive_list) \in Nat /\ Len(private_list) \in Nat
          /\ Len(receive_list) + Len(private_list) <= MaxPackets
      BY ListLengths
    <3>. QED BY <3>1, NetworkAssumption
  <2>. QED BY <1>2, <1>3, <2>1, <2>2, WidthFacts
<1>6. HandedOverInOrder'
  <2>. DEFINE d == dispatched \o parsing
  <2>1. d \in Seq(Packet)
    BY <1>1, ConcatProperties
  <2>2. received = d \o receive_list \o private_list
    BY DEF HandedOverInOrder
  <2>. HIDE DEF d
  <2>3. (d \o receive_list) \o private_list = d \o (receive_list \o private_list)
    BY <1>1, <2>1, ConcatAssociative, SMTT(30)
  <2>4. d \o receive_list' \in Seq(Packet)
    BY <1>3, <2>1, ConcatProperties
  <2>5. (d \o receive_list') \o <<>> = d \o receive_list'
    BY <2>4, ConcatEmptySeq
  <2>6. received' = d \o receive_list' \o private_list'
    BY <1>2, <2>2, <2>3, <2>5
  <2>. QED BY <2>6 DEF HandedOverInOrder, d
<1>. QED BY <1>2, <1>3, <1>4, <1>5, <1>6, EmptySeq

\* The threads of the receiver keep the order of the packets and the counter.
LEMMA ReceiverInvStep == SenderType /\ ReceiverInv /\ [Next]_vars => ReceiverInv'
<1>. SUFFICES ASSUME SenderType, ReceiverInv, [Next]_vars PROVE ReceiverInv'
  OBVIOUS
<1>. USE DEF ReceiverInv
<1>0. CASE UNCHANGED <<received, lists, parsing, dispatched,
                       receive_thread, dispatch_thread, main, listen_loop>>
  BY <1>0 DEF lists, ReceiverType, Counted, HandedOverInOrder, AbortOnlyInShutdown
<1>1. CASE (\E vl \in ValueList : network_write(vl)) \/ network_flush \/ UNCHANGED vars
  BY <1>0, <1>1 DEF network_write, network_flush, vars
<1>2. CASE receive_loop_test \/ receive_error
  BY <1>2 DEF receive_loop_test, receive_error, others_of_receive, lists,
    ReceiverType, Counted, HandedOverInOrder, AbortOnlyInShutdown
<1>3. CASE receive_packet
  <2>1. PICK i \in 1..Len(sent) : /\ received' = Append(received, sent[i])
                                  /\ private_list' = Append(private_list, sent[i])
    BY <1>3 DEF receive_packet
  <2>2. sent[i] \in Packet /\ <<sent[i]>> \in Seq(Packet)
    BY ElementOfSeq DEF SenderType
  <2>3. /\ Len(received) < MaxPackets /\ receive_thread' = "try"
        /\ UNCHANGED <<parsing, dispatched, main, listen_loop,
                       receive_list, receive_list_length, dispatch_thread>>
    BY <1>3 DEF receive_packet, others_of_receive
  <2>4. /\ received' \in Seq(Packet) /\ private_list' \in Seq(Packet)
        /\ Len(received') = Len(received) + 1
    BY <2>1, <2>2, AppendProperties DEF ReceiverType
  <2>5. ReceiverType'
    BY <2>3, <2>4 DEF ReceiverType
  <2>6. Counted'
    BY <2>3, <2>4, NetworkAssumption DEF Counted, ReceiverType
  <2>7. HandedOverInOrder'
    <3>. DEFINE d == dispatched \o parsing \o receive_list
    <3>1. d \in Seq(Packet)
      BY ConcatProperties DEF ReceiverType
    <3>2. received = d \o private_list
      BY DEF HandedOverInOrder
    <3>. HIDE DEF d
    <3>3. Append(received, sent[i]) = (d \o private_list) \o <<sent[i]>>
      BY <2>2, <3>2, AppendIsConcat DEF ReceiverType
    <3>4. Append(private_list, sent[i]) = private_list \o <<sent[i]>>
      BY <2>2, AppendIsConcat DEF ReceiverType
    <3>5. (d \o private_list) \o <<sent[i]>> = d \o (private_list \o <<sent[i]>>)
      <4>1. private_list \in Seq(Packet)
        BY DEF ReceiverType
      <4>. QED BY <2>2, <3>1, <4>1, ConcatAssociative
    <3>6. received' = d \o private_list'
      BY <2>1, <3>3, <3>4, <3>5
    <3>. QED BY <2>3, <3>6 DEF HandedOverInOrder, d
  <2>. QED BY <2>3, <2>5, <2>6, <2>7 DEF AbortOnlyInShutdown
<1>4. CASE receive_try /\ ~LengthMatches /\ ListUnlocked
  <2>1. /\ UNCHANGED <<parsing, dispatched, listen_loop, received, lists>>
        /\ receive_thread' = "exit" /\ dispatch_thread' = "exit" /\ main' = "aborted"
    BY <1>4 DEF receive_try, Abort
  <2>2. dispatch_thread = "exit"
    <3>. SUFFICES ASSUME dispatch_thread # "exit" PROVE LengthMatches
      BY <1>4
    <3>1. receive_list \in Seq(Packet) /\ receive_list_length = Len(receive_list)
      BY DEF ReceiverType, Counted
    <3>. QED BY <3>1, EmptySeq DEF LengthMatches
  <2>. QED BY <2>1, <2>2
       DEF lists, ReceiverType, Counted, HandedOverInOrder, AbortOnlyInShutdown
<1>5. CASE (receive_try /\ (LengthMatches \/ ~ListUnlocked)) \/ receive_end
  <2>1. /\ UNCHANGED <<parsing, dispatched, main, listen_loop, received>>
        /\ receive_thread' \in {"test", "exit"}
        /\ Pushed \/ UNCHANGED <<lists, dispatch_thread>>
    BY <1>5 DEF receive_try, receive_end, others_of_receive
  <2>2. CASE Pushed
    <3>1. /\ receive_list' \in Seq(Packet) /\ private_list' \in Seq(Packet)
          /\ receive_list_length' \in 0..Width - 1
          /\ HandedOverInOrder'
          /\ dispatch_thread # "exit" => receive_list_length' = Len(receive_list')
          /\ dispatch_thread' \in {dispatch_thread, Signalled}
      BY <2>1, <2>2, PushedFacts
    <3>2. ReceiverType'
      BY <2>1, <3>1 DEF ReceiverType, Signalled
    <3>3. Counted'
      BY <2>1, <3>1 DEF Counted, Signalled
    <3>. QED BY <2>1, <3>1, <3>2, <3>3 DEF AbortOnlyInShutdown
  <2>3. CASE UNCHANGED <<lists, dispatch_thread>>
    BY <2>1, <2>3 DEF lists, ReceiverType, Counted, HandedOverInOrder, AbortOnlyInShutdown
  <2>. QED BY <2>1, <2>2, <2>3
<1>6. CASE dispatch_lock \/ dispatch_wait \/ spurious_wakeup
  BY <1>6 DEF dispatch_lock, dispatch_wait, spurious_wakeup, others_of_dispatch,
    ReceiverType, Counted, HandedOverInOrder, AbortOnlyInShutdown
<1>7. CASE dispatch_take
  <2>1. /\ dispatch_thread = "locked" /\ parsing = <<>>
        /\ receive_list_length' = (receive_list_length + Width - 1) % Width
        /\ UNCHANGED <<received, private_list, receive_thread, main, listen_loop, dispatched>>
    BY <1>7 DEF dispatch_take, others_of_dispatch, Counted
  <2>2. receive_list_length' \in 0..Width - 1
    <3>1. receive_list_length + Width - 1 \in Int
      BY WidthFacts DEF ReceiverType
    <3>. QED BY <2>1, <3>1, WidthFacts
  <2>3. CASE receive_list = <<>>
    <3>1. /\ listen_loop # 0 /\ dispatch_thread' = "exit"
          /\ UNCHANGED <<parsing, receive_list>>
      BY <1>7, <2>3 DEF dispatch_take
    <3>. QED BY <2>1, <2>2, <3>1
         DEF ReceiverType, Counted, HandedOverInOrder, AbortOnlyInShutdown
  <2>4. CASE receive_list # <<>>
    <3>1. /\ parsing' = <<Head(receive_list)>> /\ receive_list' = Tail(receive_list)
          /\ dispatch_thread' = "parse"
      BY <1>7, <2>4 DEF dispatch_take
    <3>2. /\ receive_list \in Seq(Packet) /\ Head(receive_list) \in Packet
          /\ Tail(receive_list) \in Seq(Packet)
          /\ Len(Tail(receive_list)) = Len(receive_list) - 1
          /\ receive_list = <<Head(receive_list)>> \o Tail(receive_list)
      BY <2>4, HeadTailProperties DEF ReceiverType
    <3>3. parsing' \in Seq(Packet)
      BY <3>1, <3>2
    <3>4. ReceiverType'
      BY <2>1, <2>2, <3>1, <3>2, <3>3 DEF ReceiverType
    <3>5. receive_list_length' = Len(receive_list')
      <4>1. receive_list_length = Len(receive_list) /\ Len(receive_list) \in 1..Width - 1
        <5>1. receive_list_length = Len(receive_list)
          BY <2>1 DEF Counted
        <5>2. /\ Len(receive_list) \in Nat /\ Len(private_list) \in Nat
              /\ Len(receive_list) + Len(private_list) <= MaxPackets
          BY ListLengths
        <5>3. Len(receive_list) # 0
          BY <2>4, <3>2, EmptySeq
        <5>. QED BY <5>1, <5>2, <5>3, NetworkAssumption
      <4>. QED BY <2>1, <3>1, <3>2, <4>1, WidthFacts
    <3>6. Counted'
      BY <2>1, <3>1, <3>5 DEF Counted
    <3>7. HandedOverInOrder'
      <4>1. dispatched \o parsing = dispatched /\ dispatched \in Seq(Packet)
        BY <2>1, ConcatEmptySeq DEF ReceiverType
      <4>2. dispatched \o receive_list = (dispatched \o parsing') \o receive_list'
        BY <3>1, <3>2, <3>3, <4>1, ConcatAssociative
      <4>. QED BY <2>1, <4>1, <4>2 DEF HandedOverInOrder
    <3>. QED BY <2>1, <3>4, <3>6, <3>7 DEF AbortOnlyInShutdown
  <2>. QED BY <2>3, <2>4
<1>8. CASE dispatch_parse
  <2>1. /\ dispatched' = dispatched \o parsing /\ parsing' = <<>> /\ dispatch_thread' = "lock"
        /\ UNCHANGED <<received, private_list, receive_thread, main, listen_loop,
                       receive_list, receive_list_length>>
    BY <1>8 DEF dispatch_parse, others_of_dispatch
  <2>2. dispatched' \in Seq(Packet)
    BY <2>1, ConcatProperties DEF ReceiverType
  <2>3. dispatched' \o <<>> = dispatched'
    BY <2>2, ConcatEmptySeq
  <2>4. dispatch_thread # "exit"
    BY <1>8 DEF dispatch_parse
  <2>. QED BY <2>1, <2>2, <2>3, <2>4
       DEF ReceiverType, Counted, HandedOverInOrder, AbortOnlyInShutdown
<1>9. CASE shutdown_listen \/ shutdown_kill \/ shutdown_broadcast \/ shutdown_done
  BY <1>9 DEF shutdown_listen, shutdown_kill, shutdown_broadcast, shutdown_done,
    others_of_main, lists, Signalled, ReceiverType, Counted, HandedOverInOrder,
    AbortOnlyInShutdown
<1>. QED BY <1>1, <1>2, <1>3, <1>4, <1>5, <1>6, <1>7, <1>8, <1>9 DEF Next, DispatchStep

-----------------------------------------------------------------------------
(* Theorems *)

IInv == SenderInv /\ ReceiverInv

\* So both invariants always hold.
LEMMA Invariance == Spec => []IInv
<1>1. Init => IInv
  <2>. SUFFICES ASSUME Init PROVE IInv
    OBVIOUS
  <2>1. <<>> \in Packet /\ Parsed(<<>>) = Nothing /\ NoFields \in [Field -> Name]
    BY ParsedEmpty, PartFacts
  <2>2. SenderType
    BY <2>1 DEF Init, SenderType
  <2>3. Remembered
    BY <2>1 DEF Init, Remembered, Nothing
  <2>4. PacketsDecode
    <3>1. FlattenSeq([i \in 1..Len(sent) |-> Decoded(sent[i])]) = <<>>
      BY DEF Init, FlattenSeq
    <3>2. Decoded(send_buffer) = <<>>
      BY <2>1 DEF Init, Decoded, Nothing
    <3>. QED BY <3>1, <3>2 DEF Init, PacketsDecode
  <2>5. ReceiverInv
    BY NetworkAssumption DEF Init, ReceiverInv, ReceiverType, Counted, HandedOverInOrder,
       AbortOnlyInShutdown
  <2>. QED BY <2>2, <2>3, <2>4, <2>5 DEF IInv, SenderInv
<1>2. IInv /\ [Next]_vars => IInv'
  BY SenderStep, ReceiverInvStep DEF IInv, SenderInv
<1>. QED BY <1>1, <1>2, PTL DEF Spec

\* Buffer, lists and histories stay well typed, and the counter within its
\* width.
THEOREM TypeCorrect == Spec => []TypeOK
<1>1. IInv => TypeOK
  BY DEF IInv, SenderInv, ReceiverInv, TypeOK
<1>. QED BY Invariance, <1>1, PTL

\* Whatever is written and whenever the buffer is flushed: what receivers make
\* of the packets, each one decoded on its own, is what was written, in order
\* and with the right fields, as long as no value list was too large for a
\* packet.
THEOREM EveryPacketDecodes == Spec => []PacketsDecode
<1>1. IInv => PacketsDecode
  BY DEF IInv, SenderInv
<1>. QED BY Invariance, <1>1, PTL

\* network_receive and dispatch_thread pass packets on in order, and lose or
\* repeat none, whether the try for the lock succeeds or not.
THEOREM NoPacketIsLost == Spec => []HandedOverInOrder
<1>1. IInv => HandedOverInOrder
  BY DEF IInv, ReceiverInv
<1>. QED BY Invariance, <1>1, PTL

\* The assertion in network_receive fails only in a shutdown: as long as the
\* dispatch thread runs, receive_list_length is zero exactly when the list is
\* empty, and before the shutdown that thread does not end.
THEOREM NoAbortWhileRunning == Spec => []AbortOnlyInShutdown
<1>1. IInv => AbortOnlyInShutdown
  BY DEF IInv, ReceiverInv
<1>. QED BY Invariance, <1>1, PTL
=============================================================================
