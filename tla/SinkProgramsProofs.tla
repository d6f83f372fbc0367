--------------------------- MODULE SinkProgramsProofs ---------------------------
(***************************************************************************)
(* What holds of the programs of SinkPrograms for every input, one program *)
(* after the other: no step of a program touches another one's variables,  *)
(* so that each has an inductive invariant of its own.                     *)
(***************************************************************************)
EXTENDS SinkPrograms, FiniteSetTheorems, NaturalsInduction, WellFoundedInduction, TLAPS

USE DEF BoundsAssumption

-------------------------------------------------------------------------------
(* The Kafka programs. *)

Schemas == {"json", "avro", "csv"}

(* What the variables hold: the reader is where nothing is before it, and  *)
(* behind its checkpoint, and starts when the writer has sent everything.  *)
TopicTyped ==
  /\ format \in [writes : Schemas, reads : Schemas]
  /\ phase \in {"write", "read"}
  /\ pos \in 0..Len(Messages)
  /\ topic \in Seq([how : Schemas, row : STRING])
  /\ unsent \in Seq(STRING)
  /\ offset \in 0..Len(topic)
  /\ saved \in 0..offset
  /\ shown \in Seq(1..Len(topic))
  /\ failed \in [{"write", "read"} -> Nat]
  /\ phase = "write" => offset = 0 /\ shown = <<>>
  /\ phase = "read" => unsent = <<>> /\ pos = Len(Messages)

(* Where x stands in s. *)
Places(s, x) == {i \in DOMAIN s : s[i] = x}

(* Whatever precedes a message that was shown has been shown before it,    *)
(* and so has whatever the reader's position is past.                      *)
InFront ==
  /\ \A i \in DOMAIN shown : \A m \in 1..shown[i] : \E j \in 1..i : shown[j] = m
  /\ \A m \in 1..offset : \E j \in DOMAIN shown : shown[j] = m

(* A message has been shown once for each restart at most, and once more   *)
(* when the reader's position is past it.                                  *)
OncePerRestart ==
  \A m \in Nat :
    Cardinality(Places(shown, m)) =< failed["read"] + (IF m =< offset THEN 1 ELSE 0)

(* While the writer has not failed, what the topic held before, what was   *)
(* sent and what is to be sent are a prefix of the backlog and the rows.   *)
SentInOrder ==
  failed["write"] = 0 =>
    \E b \in Backlog :
      /\ Len(topic) + Len(unsent) = Len(b) + pos
      /\ \A i \in 1..Len(topic) : topic[i].row = (b \o Messages)[i]
      /\ \A i \in 1..Len(unsent) : unsent[i] = (b \o Messages)[Len(topic) + i]

(* While the reader has not failed it has shown every message once.        *)
ReadInOrder ==
  failed["read"] = 0 => Len(shown) = offset /\ \A i \in 1..offset : shown[i] = i

TopicInv == TopicTyped /\ InFront /\ OncePerRestart /\ SentInOrder /\ ReadInOrder

(* A step of the composition is one of the topic's jobs when they run.     *)
LEMMA TopicStep ==
  ASSUME which = "topic", [Next]_vars
  PROVE  which' = "topic" /\ (KafkaTopic!Next \/ UNCHANGED <<topicVars, pos>>)
<1>1. CASE Next
  <2>1. InTopic /\ KafkaTopic!Next
    BY <1>1 DEF Next, InWords, InGroups, InTables, InBulks
  <2>. QED BY <2>1 DEF InTopic
<1>2. CASE UNCHANGED vars BY <1>2 DEF vars
<1>. QED BY <1>1, <1>2

(* No step changes which program runs. *)
LEMMA WhichStep == ASSUME [Next]_vars PROVE which' = which
BY DEF Next, InWords, InGroups, InTables, InTopic, InBulks, vars

(* What is at most one past n. *)
LEMMA UpToNext ==
  ASSUME NEW n \in Nat, NEW i \in 1..(n + 1) PROVE i \in 1..n \/ i = n + 1
OBVIOUS

(* An element of a sequence over S is in S. *)
LEMMA ElementIn ==
  ASSUME NEW S, NEW s \in Seq(S), NEW i \in 1..Len(s) PROVE s[i] \in S
OBVIOUS

(* A function on an initial segment is a sequence. *)
LEMMA IsSequence ==
  ASSUME NEW S, NEW n \in Nat, NEW f \in [1..n -> S]
  PROVE  f \in Seq(S) /\ Len(f) = n
OBVIOUS

(* The cardinality that KafkaTopic speaks of is that of FiniteSets. *)
LEMMA SameCardinality == \A S : KafkaTopic!Cardinality(S) = Cardinality(S)
BY Zenon DEF KafkaTopic!Cardinality, Cardinality

(* The places of a value are finitely many. *)
LEMMA PlacesFinite ==
  ASSUME NEW S, NEW s \in Seq(S), NEW y
  PROVE  IsFiniteSet(Places(s, y)) /\ Cardinality(Places(s, y)) \in Nat
<1>1. Places(s, y) \in SUBSET (1..Len(s)) /\ Len(s) \in Nat BY DEF Places
<1>2. IsFiniteSet(1..Len(s)) BY <1>1, FS_Interval
<1>. QED BY <1>1, <1>2, FS_Subset, FS_CardinalityType

(* Appending x adds the last place to those of x, and none to the others.  *)
LEMMA PlacesAppend ==
  ASSUME NEW S, NEW s \in Seq(S), NEW x \in S, NEW y
  PROVE  /\ IsFiniteSet(Places(s, y))
         /\ Cardinality(Places(Append(s, x), y)) =
              Cardinality(Places(s, y)) + (IF x = y THEN 1 ELSE 0)
<1>1. IsFiniteSet(Places(s, y)) /\ Len(s) \in Nat
  BY PlacesFinite
<1>2. Len(s) + 1 \notin Places(s, y) BY <1>1 DEF Places
<1>3. CASE x = y
  <2>1. Places(Append(s, x), y) = Places(s, y) \cup {Len(s) + 1} BY <1>3, <1>1 DEF Places
  <2>. QED BY <2>1, <1>1, <1>2, <1>3, FS_AddElement
<1>4. CASE x # y
  <2>1. Places(Append(s, x), y) = Places(s, y) BY <1>4, <1>1 DEF Places
  <2>2. Cardinality(Places(s, y)) \in Nat BY <1>1, FS_CardinalityType
  <2>. QED BY <2>1, <2>2, <1>1, <1>4
<1>. QED BY <1>3, <1>4, <1>1

(* The jobs start with the invariant. *)
LEMMA TopicInit == ASSUME KafkaTopic!Init PROVE TopicInv
<1>. USE MessagesAssumption DEF MessagesAssumption
<1>1. PICK b \in Backlog : topic = [i \in DOMAIN b |-> [how |-> format.writes, row |-> b[i]]]
  BY DEF KafkaTopic!Init
<1>2. b \in Seq(STRING) /\ Len(b) \in Nat BY <1>1
<1>3. format \in [writes : Schemas, reads : Schemas]
  BY DEF KafkaTopic!Init, KafkaTopic!Formats, KafkaTopic!kafka_json_format,
         KafkaTopic!kafka_avro_format, KafkaTopic!kafka_csv_format, Schemas
<1>4. topic \in Seq([how : Schemas, row : STRING]) /\ Len(topic) = Len(b)
  <2>1. DOMAIN b = 1..Len(b) /\ \A i \in 1..Len(b) : b[i] \in STRING BY <1>2
  <2>2. topic \in [1..Len(b) -> [how : Schemas, row : STRING]] BY <1>1, <1>3, <2>1
  <2>. QED BY <2>2, <1>2, IsSequence
<1>5. /\ phase = "write" /\ pos = 0 /\ unsent = <<>> /\ offset = 0 /\ saved = 0
      /\ shown = <<>> /\ failed = [p \in {"write", "read"} |-> 0]
  BY DEF KafkaTopic!Init
<1>6. TopicTyped BY <1>3, <1>4, <1>5 DEF TopicTyped
<1>7. InFront BY <1>5 DEF InFront
<1>8. OncePerRestart
  <2>. SUFFICES ASSUME NEW m \in Nat PROVE Cardinality(Places(shown, m)) = 0
    BY <1>5 DEF OncePerRestart
  <2>. Places(shown, m) = {} BY <1>5 DEF Places
  <2>. QED BY FS_EmptySet
<1>9. SentInOrder
  <2>1. \A i \in 1..Len(topic) : topic[i].row = (b \o Messages)[i]
    BY <1>1, <1>2, <1>4
  <2>. QED BY <2>1, <1>1, <1>2, <1>4, <1>5 DEF SentInOrder
<1>10. ReadInOrder BY <1>5 DEF ReadInOrder
<1>. QED BY <1>6, <1>7, <1>8, <1>9, <1>10 DEF TopicInv

(* A row on its way: written, sent, or taken out of the program's hands by *)
(* its failure.                                                            *)
LEMMA WriterKeeps ==
  ASSUME TopicInv,
         KafkaTopic!Write \/ KafkaTopic!Send \/ KafkaTopic!Close \/ KafkaTopic!WriterFails
  PROVE  TopicInv'
<1>. USE MessagesAssumption DEF MessagesAssumption
<1>. TopicTyped /\ InFront /\ OncePerRestart /\ SentInOrder /\ ReadInOrder BY DEF TopicInv
<1>1. /\ Len(Messages) \in Nat /\ Len(topic) \in Nat /\ Len(unsent) \in Nat
      /\ pos \in 0..Len(Messages)
  BY DEF TopicTyped
<1>2. /\ offset' = offset /\ saved' = saved /\ shown' = shown
      /\ failed'["read"] = failed["read"]
  BY DEF KafkaTopic!Write, KafkaTopic!Send, KafkaTopic!Close, KafkaTopic!WriterFails,
         TopicTyped
<1>3. InFront' /\ OncePerRestart' /\ ReadInOrder'
  BY <1>2 DEF InFront, OncePerRestart, ReadInOrder, Places
<1>4. CASE KafkaTopic!Write
  <2>. USE <1>4 DEF KafkaTopic!Write
  <2>1. Messages[pos'] \in STRING /\ pos' \in 1..Len(Messages) /\ pos' = pos + 1
    BY <1>1 DEF TopicTyped
  <2>2. TopicTyped' BY <2>1, <1>2 DEF TopicTyped
  <2>3. SentInOrder'
    <3>1. SUFFICES ASSUME failed["write"] = 0 PROVE SentInOrder' BY DEF SentInOrder
    <3>2. PICK b \in Backlog :
            /\ Len(topic) + Len(unsent) = Len(b) + pos
            /\ \A i \in 1..Len(topic) : topic[i].row = (b \o Messages)[i]
            /\ \A i \in 1..Len(unsent) : unsent[i] = (b \o Messages)[Len(topic) + i]
      BY <3>1 DEF SentInOrder
    <3>3. b \in Seq(STRING) /\ Len(b) \in Nat OBVIOUS
    <3>4. Len(unsent') = Len(unsent) + 1 /\ unsent'[Len(unsent) + 1] = Messages[pos']
      BY <2>1 DEF TopicTyped
    <3>5. (b \o Messages)[Len(b) + pos'] = Messages[pos'] BY <3>3, <2>1
    <3>6. \A i \in 1..Len(unsent) : unsent'[i] = unsent[i] BY <2>1 DEF TopicTyped
    <3>7. Len(topic) + (Len(unsent) + 1) = Len(b) + pos'
      <4>1. Len(topic) + Len(unsent) = Len(b) + pos BY <3>2
      <4>2. pos' = pos + 1 BY <2>1
      <4>. HIDE <1>4 DEF KafkaTopic!Write, MessagesAssumption
      <4>. QED BY <4>1, <4>2, <3>3, <1>1
    <3>8. \A i \in 1..Len(unsent') : unsent'[i] = (b \o Messages)[Len(topic) + i]
      <4>. SUFFICES ASSUME NEW i \in 1..Len(unsent')
                    PROVE  unsent'[i] = (b \o Messages)[Len(topic) + i]
        OBVIOUS
      <4>1. CASE i \in 1..Len(unsent) BY <4>1, <3>2, <3>6
      <4>2. CASE i = Len(unsent) + 1
        <5>1. Len(topic) + i = Len(b) + pos' BY <4>2, <3>7
        <5>. QED BY <5>1, <4>2, <3>4, <3>5
      <4>3. i \in 1..Len(unsent) \/ i = Len(unsent) + 1
        <5>1. i \in 1..(Len(unsent) + 1) BY <3>4
        <5>. QED BY <5>1, UpToNext, <1>1
      <4>. QED BY <4>1, <4>2, <4>3
    <3>. QED BY <3>2, <3>4, <3>7, <3>8 DEF SentInOrder
  <2>. QED BY <2>2, <2>3, <1>3 DEF TopicInv
<1>5. CASE KafkaTopic!Send
  <2>. USE <1>5 DEF KafkaTopic!Send
  <2>1. /\ Head(unsent) \in STRING /\ format.writes \in Schemas
        /\ unsent' \in Seq(STRING) /\ Len(unsent) > 0 /\ Len(unsent') = Len(unsent) - 1
        /\ \A i \in 1..Len(unsent') : unsent'[i] = unsent[i + 1]
        /\ Head(unsent) = unsent[1]
    BY DEF TopicTyped
  <2>2. phase = "write" BY DEF TopicTyped
  <2>. DEFINE msg == [how |-> format.writes, row |-> Head(unsent)]
  <2>3. msg \in [how : Schemas, row : STRING] /\ msg.row = Head(unsent) BY <2>1
  <2>. HIDE DEF msg
  <2>4. topic' = Append(topic, msg) BY DEF msg
  <2>5. /\ topic' \in Seq([how : Schemas, row : STRING]) /\ Len(topic') = Len(topic) + 1
        /\ \A i \in 1..Len(topic) : topic'[i] = topic[i]
        /\ topic'[Len(topic) + 1] = msg
    BY <2>3, <2>4 DEF TopicTyped
  <2>6. TopicTyped' BY <2>1, <2>2, <2>5, <1>1, <1>2 DEF TopicTyped
  <2>7. SentInOrder'
    <3>1. SUFFICES ASSUME failed["write"] = 0 PROVE SentInOrder' BY DEF SentInOrder
    <3>2. PICK b \in Backlog :
            /\ Len(topic) + Len(unsent) = Len(b) + pos
            /\ \A i \in 1..Len(topic) : topic[i].row = (b \o Messages)[i]
            /\ \A i \in 1..Len(unsent) : unsent[i] = (b \o Messages)[Len(topic) + i]
      BY <3>1 DEF SentInOrder
    <3>3. Len(b) \in Nat OBVIOUS
    <3>4. \A i \in 1..Len(topic') : topic'[i].row = (b \o Messages)[i]
      <4>. SUFFICES ASSUME NEW i \in 1..Len(topic')
                    PROVE  topic'[i].row = (b \o Messages)[i]
        OBVIOUS
      <4>1. CASE i \in 1..Len(topic) BY <4>1, <3>2, <2>5
      <4>2. CASE i = Len(topic) + 1
        <5>1. topic'[i].row = unsent[1] BY <4>2, <2>5, <2>3, <2>1
        <5>2. unsent[1] = (b \o Messages)[Len(topic) + 1] BY <3>2, <2>1, <1>1
        <5>. QED BY <5>1, <5>2, <4>2
      <4>3. i \in 1..Len(topic) \/ i = Len(topic) + 1
        <5>1. i \in 1..(Len(topic) + 1) BY <2>5
        <5>. QED BY <5>1, UpToNext, <1>1
      <4>. QED BY <4>1, <4>2, <4>3
    <3>5. \A i \in 1..Len(unsent') : unsent'[i] = (b \o Messages)[Len(topic') + i]
      <4>. SUFFICES ASSUME NEW i \in 1..Len(unsent')
                    PROVE  unsent'[i] = (b \o Messages)[Len(topic') + i]
        OBVIOUS
      <4>1. i + 1 \in 1..Len(unsent) /\ Len(topic) + (i + 1) = Len(topic') + i
        BY <2>1, <2>5, <1>1
      <4>. QED BY <4>1, <3>2, <2>1
    <3>6. Len(topic') + Len(unsent') = Len(b) + pos'
      <4>1. pos' = pos OBVIOUS
      <4>2. Len(topic) + Len(unsent) = Len(b) + pos BY <3>2
      <4>3. Len(unsent') = Len(unsent) - 1 /\ Len(topic') = Len(topic) + 1 BY <2>1, <2>5
      <4>. HIDE <1>5 DEF KafkaTopic!Send, MessagesAssumption
      <4>. QED BY <4>1, <4>2, <4>3, <3>3, <1>1
    <3>. QED BY <3>4, <3>5, <3>6 DEF SentInOrder
  <2>. QED BY <2>6, <2>7, <1>3 DEF TopicInv
<1>6. CASE KafkaTopic!Close
  <2>1. TopicTyped' /\ SentInOrder' BY <1>6 DEF KafkaTopic!Close, TopicTyped, SentInOrder
  <2>. QED BY <2>1, <1>3 DEF TopicInv
<1>7. CASE KafkaTopic!WriterFails
  <2>1. failed'["write"] # 0 /\ failed' \in [{"write", "read"} -> Nat]
    BY <1>7 DEF KafkaTopic!WriterFails, TopicTyped
  <2>2. TopicTyped' BY <1>7, <1>1, <2>1 DEF KafkaTopic!WriterFails, TopicTyped
  <2>. QED BY <2>1, <2>2, <1>3 DEF TopicInv, SentInOrder
<1>. QED BY <1>4, <1>5, <1>6, <1>7

(* A message that is read comes after all that the position is past.       *)
LEMMA ReadKeeps == ASSUME TopicInv, KafkaTopic!Read PROVE TopicInv'
<1>. USE DEF KafkaTopic!Read
<1>. TopicTyped /\ InFront /\ OncePerRestart /\ SentInOrder /\ ReadInOrder BY DEF TopicInv
<1>1. /\ Len(topic) \in Nat /\ offset \in Nat /\ offset' = offset + 1
      /\ offset' \in 1..Len(topic) /\ shown \in Seq(1..Len(topic)) /\ Len(shown) \in Nat
      /\ shown' = Append(shown, offset')
  BY DEF TopicTyped
<1>2. /\ shown' \in Seq(1..Len(topic)) /\ Len(shown') = Len(shown) + 1
      /\ DOMAIN shown = 1..Len(shown) /\ DOMAIN shown' = 1..(Len(shown) + 1)
      /\ \A i \in 1..Len(shown) : shown'[i] = shown[i]
      /\ shown'[Len(shown) + 1] = offset'
  BY <1>1
<1>3. TopicTyped' BY <1>1, <1>2 DEF TopicTyped
<1>4. ASSUME NEW m \in 1..offset' PROVE \E j \in DOMAIN shown' : shown'[j] = m
  <2>1. CASE m \in 1..offset
    <3>1. PICK j \in DOMAIN shown : shown[j] = m BY <2>1 DEF InFront
    <3>. QED BY <3>1, <1>2, <1>1
  <2>2. CASE m = offset' BY <2>2, <1>2, <1>1
  <2>. QED BY <2>1, <2>2, <1>1
<1>5. ASSUME NEW i \in DOMAIN shown', NEW m \in 1..shown'[i]
      PROVE  \E j \in 1..i : shown'[j] = m
  <2>1. CASE i \in 1..Len(shown)
    <3>1. PICK j \in 1..i : shown[j] = m BY <2>1, <1>2 DEF InFront
    <3>2. j \in 1..Len(shown) BY <2>1, <1>1
    <3>. QED BY <3>1, <3>2, <1>2
  <2>2. CASE i = Len(shown) + 1
    <3>1. m \in 1..offset' BY <2>2, <1>2
    <3>. QED BY <3>1, <1>4, <1>2, <2>2
  <2>. QED BY <2>1, <2>2, <1>1, <1>2
<1>6. InFront' BY <1>4, <1>5 DEF InFront
<1>7. OncePerRestart'
  <2>. SUFFICES ASSUME NEW m \in Nat
                PROVE  Cardinality(Places(shown', m))
                         =< failed["read"] + (IF m =< offset' THEN 1 ELSE 0)
    BY DEF OncePerRestart
  <2>1. /\ IsFiniteSet(Places(shown, m))
        /\ Cardinality(Places(shown', m)) =
             Cardinality(Places(shown, m)) + (IF offset' = m THEN 1 ELSE 0)
    <3>. HIDE DEF KafkaTopic!Read
    <3>. QED BY <1>1, PlacesAppend
  <2>2. Cardinality(Places(shown, m)) \in Nat BY <2>1, FS_CardinalityType
  <2>3. Cardinality(Places(shown, m)) =< failed["read"] + (IF m =< offset THEN 1 ELSE 0)
    BY DEF OncePerRestart
  <2>4. failed["read"] \in Nat BY DEF TopicTyped
  <2>. QED BY <2>1, <2>2, <2>3, <2>4, <1>1
<1>8. SentInOrder' BY DEF SentInOrder
<1>9. ReadInOrder'
  <2>1. SUFFICES ASSUME failed["read"] = 0
                 PROVE  Len(shown') = offset' /\ \A i \in 1..offset' : shown'[i] = i
    BY DEF ReadInOrder
  <2>. QED BY <2>1, <1>1, <1>2 DEF ReadInOrder
<1>. QED BY <1>3, <1>6, <1>7, <1>8, <1>9 DEF TopicInv

(* Positions move back only to the checkpoint's, at the cost of a failure. *)
LEMMA ReaderKeeps ==
  ASSUME TopicInv, KafkaTopic!Checkpoint \/ KafkaTopic!ReaderFails
  PROVE  TopicInv'
<1>. TopicTyped /\ InFront /\ OncePerRestart /\ SentInOrder /\ ReadInOrder BY DEF TopicInv
<1>1. CASE KafkaTopic!Checkpoint
  <2>. USE <1>1 DEF KafkaTopic!Checkpoint
  <2>1. TopicTyped' BY DEF TopicTyped
  <2>2. InFront' /\ OncePerRestart' BY DEF InFront, OncePerRestart, Places
  <2>3. SentInOrder' /\ ReadInOrder' BY DEF SentInOrder, ReadInOrder
  <2>. QED BY <2>1, <2>2, <2>3 DEF TopicInv
<1>2. CASE KafkaTopic!ReaderFails
  <2>. USE <1>2 DEF KafkaTopic!ReaderFails
  <2>1. /\ Len(topic) \in Nat /\ offset \in Nat /\ saved \in 0..offset /\ offset' = saved
        /\ failed["read"] \in Nat /\ failed'["read"] = failed["read"] + 1
        /\ failed'["write"] = failed["write"] /\ failed' \in [{"write", "read"} -> Nat]
    BY DEF TopicTyped
  <2>2. TopicTyped' BY <2>1 DEF TopicTyped
  <2>3. InFront' BY <2>1 DEF InFront
  <2>4. OncePerRestart'
    <3>. SUFFICES ASSUME NEW m \in Nat
                  PROVE  Cardinality(Places(shown, m))
                           =< failed'["read"] + (IF m =< offset' THEN 1 ELSE 0)
      BY DEF OncePerRestart, Places
    <3>1. shown \in Seq(1..Len(topic)) BY DEF TopicTyped
    <3>2. Cardinality(Places(shown, m)) \in Nat BY <3>1, PlacesFinite
    <3>3. Cardinality(Places(shown, m)) =< failed["read"] + (IF m =< offset THEN 1 ELSE 0)
      BY DEF OncePerRestart
    <3>. QED BY <3>2, <3>3, <2>1
  <2>5. SentInOrder' BY <2>1 DEF SentInOrder
  <2>6. ReadInOrder' BY <2>1 DEF ReadInOrder
  <2>. QED BY <2>2, <2>3, <2>4, <2>5, <2>6 DEF TopicInv
<1>. QED BY <1>1, <1>2

(* The inductive invariant of the Kafka programs, for any rows, backlog    *)
(* and number of failures.                                                 *)
THEOREM TopicInvariance == Spec => [](which = "topic" => TopicInv)
<1>. DEFINE Inv == which = "topic" => TopicInv
<1>1. Init => Inv
  <2>. SUFFICES ASSUME Init, which = "topic" PROVE TopicInv OBVIOUS
  <2>. QED BY TopicInit DEF Init
<1>2. Inv /\ [Next]_vars => Inv'
  <2>. SUFFICES ASSUME Inv, [Next]_vars, which' = "topic" PROVE TopicInv' OBVIOUS
  <2>1. which = "topic" /\ TopicInv BY WhichStep
  <2>2. KafkaTopic!Next \/ UNCHANGED <<topicVars, pos>> BY <2>1, TopicStep
  <2>3. CASE UNCHANGED <<topicVars, pos>>
    <3>1. /\ format' = format /\ phase' = phase /\ topic' = topic /\ unsent' = unsent
          /\ offset' = offset /\ saved' = saved /\ shown' = shown /\ failed' = failed
          /\ pos' = pos
      BY <2>3 DEF topicVars
    <3>2. TopicTyped' BY <3>1, <2>1 DEF TopicInv, TopicTyped
    <3>3. InFront' BY <3>1, <2>1 DEF TopicInv, InFront
    <3>4. OncePerRestart' BY <3>1, <2>1 DEF TopicInv, OncePerRestart, Places
    <3>5. SentInOrder' BY <3>1, <2>1 DEF TopicInv, SentInOrder
    <3>6. ReadInOrder' BY <3>1, <2>1 DEF TopicInv, ReadInOrder
    <3>. QED BY <3>2, <3>3, <3>4, <3>5, <3>6 DEF TopicInv
  <2>4. CASE KafkaTopic!Next
    <3>1. KafkaTopic!Write \/ KafkaTopic!Send \/ KafkaTopic!Close \/ KafkaTopic!WriterFails
            \/ KafkaTopic!Read \/ KafkaTopic!Checkpoint \/ KafkaTopic!ReaderFails
      BY <2>4 DEF KafkaTopic!Next
    <3>. QED BY <3>1, <2>1, WriterKeeps, ReadKeeps, ReaderKeeps
  <2>. QED BY <2>2, <2>3, <2>4
<1>. QED BY <1>1, <1>2, PTL DEF Spec

(* The reader of the topic prints no message before the one in front of    *)
(* it, and repeats one at most once for every restart.                     *)
THEOREM AlwaysInFront == Spec => []NoneSkipped
<1>1. (which = "topic" => TopicInv) => NoneSkipped
  <2>. SUFFICES ASSUME which = "topic", TopicInv PROVE KafkaTopic!NoneSkipped
    BY DEF NoneSkipped
  <2>1. Len(topic) \in Nat /\ DOMAIN topic = 1..Len(topic) /\ failed["read"] \in Nat
        /\ offset \in 0..Len(topic)
    BY DEF TopicInv, TopicTyped
  <2>2. ASSUME NEW m \in DOMAIN topic PROVE KafkaTopic!Times(shown, m) =< failed["read"] + 1
    <3>1. m \in Nat BY <2>1
    <3>2. shown \in Seq(1..Len(topic)) BY DEF TopicInv, TopicTyped
    <3>3. Cardinality(Places(shown, m)) \in Nat BY <3>2, PlacesFinite
    <3>4. Cardinality(Places(shown, m)) =< failed["read"] + (IF m =< offset THEN 1 ELSE 0)
      BY <3>1 DEF TopicInv, OncePerRestart
    <3>5. Cardinality(Places(shown, m)) =< failed["read"] + 1 BY <3>1, <3>3, <3>4, <2>1
    <3>. QED BY <3>5, SameCardinality DEF KafkaTopic!Times, Places
  <2>. QED BY <2>2 DEF KafkaTopic!NoneSkipped, TopicInv, InFront
<1>. QED BY <1>1, TopicInvariance, PTL

(* With no failure the reader prints the topic as it was, then the rows in *)
(* their order, each as often as it was written.                           *)
THEOREM AlwaysExact == Spec => []WithoutFailureExact
<1>. USE MessagesAssumption DEF MessagesAssumption
<1>1. (which = "topic" => TopicInv) => WithoutFailureExact
  <2>. SUFFICES ASSUME which = "topic", TopicInv, phase = "read",
                       failed = [p \in {"write", "read"} |-> 0]
                PROVE  \E b \in Backlog : KafkaTopic!IsPrefix(KafkaTopic!ShownRows, b \o Messages)
    BY DEF WithoutFailureExact, KafkaTopic!WithoutFailureExact
  <2>1. failed["write"] = 0 /\ failed["read"] = 0 OBVIOUS
  <2>2. PICK b \in Backlog :
          /\ Len(topic) + Len(unsent) = Len(b) + pos
          /\ \A i \in 1..Len(topic) : topic[i].row = (b \o Messages)[i]
    BY <2>1 DEF TopicInv, SentInOrder
  <2>3. /\ Len(b) \in Nat /\ Len(Messages) \in Nat /\ Len(topic) \in Nat /\ offset \in 0..Len(topic)
        /\ unsent = <<>> /\ pos = Len(Messages)
        /\ Len(shown) = offset /\ DOMAIN shown = 1..offset /\ \A i \in 1..offset : shown[i] = i
        /\ topic \in Seq([how : Schemas, row : STRING])
    BY <2>1 DEF TopicInv, TopicTyped, ReadInOrder
  <2>. DEFINE shownRows == KafkaTopic!ShownRows
  <2>4. /\ shownRows \in [1..offset -> STRING]
        /\ \A i \in 1..offset : shownRows[i] = (b \o Messages)[i]
    <3>1. shownRows = [i \in 1..offset |-> topic[i].row] BY <2>3 DEF KafkaTopic!ShownRows
    <3>2. \A i \in 1..offset : i \in 1..Len(topic) BY <2>3
    <3>. HIDE DEF shownRows
    <3>3. \A i \in 1..offset : topic[i].row \in STRING
      <4>. SUFFICES ASSUME NEW i \in 1..Len(topic) PROVE topic[i].row \in STRING BY <3>2
      <4>1. topic \in Seq([how : Schemas, row : STRING]) BY <2>3
      <4>2. topic[i] \in [how : Schemas, row : STRING] BY <4>1, ElementIn
      <4>. QED BY <4>2
    <3>. QED BY <3>1, <3>2, <3>3, <2>2
  <2>. HIDE DEF shownRows
  <2>5. shownRows \in Seq(STRING) /\ Len(shownRows) = offset BY <2>3, <2>4, IsSequence
  <2>6. Len(b \o Messages) = Len(b) + Len(Messages) /\ b \o Messages \in Seq(STRING)
    BY <2>3
  <2>7. SubSeq(shownRows, 1, offset) = SubSeq(b \o Messages, 1, offset)
    BY <2>2, <2>3, <2>4, <2>5, <2>6
  <2>8. KafkaTopic!IsPrefix(shownRows, b \o Messages)
    BY <2>2, <2>3, <2>5, <2>6, <2>7 DEF KafkaTopic!IsPrefix
  <2>. QED BY <2>8 DEF shownRows
<1>. QED BY <1>1, TopicInvariance, PTL


-------------------------------------------------------------------------------
(* The row-wise jobs. *)

Elements(s) == {s[i] : i \in DOMAIN s}

(* A sequence of documents that are numbered in their order. *)
Numbered(s) ==
  /\ s \in Seq(Elements(s))
  /\ \A i \in DOMAIN s : s[i].id \in Nat
  /\ \A i, j \in DOMAIN s : i < j => s[i].id < s[j].id

(* The rows that the job makes of the j-th document. *)
RowsOf(j) ==
  {TableJobs!Emit(input[j], j - 1)[i] : i \in DOMAIN TableJobs!Emit(input[j], j - 1)}

(* The documents up to the first one that the job's function cannot read.  *)
Reachable == {j \in DOMAIN input : \A k \in 1..j : ~TableJobs!Lacks(input[k])}

(* What the job has read in this attempt is reachable, and whatever its    *)
(* first sink holds, of this attempt and of those that failed, was made of *)
(* reachable documents; the documents are numbered in their order.         *)
TablesInv ==
  /\ Numbered(input)
  /\ pos \in 0..Len(input)
  /\ ended \in BOOLEAN
  /\ job \in TableJobs!OfPython =>
       /\ 1..pos \subseteq Reachable
       /\ ended => pos = Len(input)
       /\ out \in Seq(UNION {RowsOf(j) : j \in Reachable})

(* A step of the composition is one of the row-wise job's when it runs.    *)
LEMMA TablesStep ==
  ASSUME which = "tables", [Next]_vars
  PROVE  TableJobs!Next \/ UNCHANGED <<job, input, pos, out, second, failures, ended>>
<1>1. CASE Next
  BY <1>1 DEF Next, InWords, InGroups, InTopic, InBulks
<1>2. CASE UNCHANGED vars BY <1>2 DEF vars
<1>. QED BY <1>1, <1>2

(* The programs' own documents are numbered in their order.                *)
LEMMA OwnDocuments ==
  /\ Numbered(TableJobs!Documents)
  /\ Numbered(TableJobs!RowDocuments)
  /\ Numbered(TableJobs!Texts)
<1>1. ASSUME NEW a, NEW b, NEW c, NEW d, a.id = 1, b.id = 2, c.id = 3, d.id = 4
      PROVE  Numbered(<<a, b, c, d>>)
  <2>. DEFINE s == <<a, b, c, d>>  S == Elements(s)
  <2>1. DOMAIN s = 1..4 /\ s[1] = a /\ s[2] = b /\ s[3] = c /\ s[4] = d OBVIOUS
  <2>2. a \in S /\ b \in S /\ c \in S /\ d \in S BY <2>1 DEF Elements
  <2>3. s \in Seq(S)
    <3>. HIDE DEF S
    <3>. QED BY <2>2
  <2>. HIDE DEF s
  <2>. QED BY <1>1, <2>1, <2>3 DEF Numbered, s
<1>2. \A i, t, n, c, y : TableJobs!D(i, n, t, c, y).id = i BY DEF TableJobs!D
<1>3. Numbered(TableJobs!Documents) BY <1>1, <1>2 DEF TableJobs!Documents
<1>4. Numbered(TableJobs!Texts)
  <2>. DEFINE a == TableJobs!D(1, "Hello", 0, "", "")
              b == TableJobs!D(2, "World", 0, "", "")
              c == TableJobs!D(3, "Flink", 0, "", "")
              d == TableJobs!D(4, "PyFlink", 0, "", "")
  <2>1. a.id = 1 /\ b.id = 2 /\ c.id = 3 /\ d.id = 4 BY DEF TableJobs!D
  <2>2. TableJobs!Texts = <<a, b, c, d>> BY DEF TableJobs!Texts
  <2>. HIDE DEF a, b, c, d
  <2>. QED BY <2>1, <2>2, <1>1
<1>5. Numbered(TableJobs!RowDocuments)
  <2>. DEFINE a == TableJobs!D(1, "Flink", 123, "Germany", "Berlin")
              b == TableJobs!D(2, "hello", 135, "China", "Shanghai")
              c == TableJobs!D(3, "world", 124, "USA", "NewYork")
              d == TableJobs!D(4, "PyFlink", 32, "China", "Hangzhou")
              e == [c EXCEPT !.country = "China"]
  <2>1. e.id = 3 BY DEF TableJobs!D
  <2>2. a.id = 1 /\ b.id = 2 /\ d.id = 4 BY <1>2
  <2>3. TableJobs!Documents = <<a, b, c, d>> BY DEF TableJobs!Documents
  <2>4. TableJobs!RowDocuments = [<<a, b, c, d>> EXCEPT ![3] = e]
    BY <2>3 DEF TableJobs!RowDocuments
  <2>. HIDE DEF a, b, c, d, e
  <2>5. TableJobs!RowDocuments = <<a, b, e, d>> BY <2>4
  <2>. QED BY <2>1, <2>2, <2>5, <1>1
<1>. QED BY <1>3, <1>4, <1>5

(* What a job makes of a document is a sequence of rows, and for a job     *)
(* that runs a Python function each begins with the document's number.     *)
LEMMA EmitRows ==
  ASSUME job \in TableJobs!OfPython, NEW d, NEW n
  PROVE  /\ TableJobs!Emit(d, n) \in Seq({TableJobs!Emit(d, n)[i] :
                                            i \in DOMAIN TableJobs!Emit(d, n)})
         /\ \A i \in DOMAIN TableJobs!Emit(d, n) : TableJobs!Emit(d, n)[i][1] = d.id
<1>. DEFINE e == TableJobs!Emit(d, n)
<1>1. ASSUME NEW r, e = <<r>>, r[1] = d.id
      PROVE  DOMAIN e = 1..1 /\ \A i \in DOMAIN e : e[i][1] = d.id
  <2>. HIDE DEF e
  <2>. QED BY <1>1
<1>2. ASSUME e = <<>> PROVE DOMAIN e = 1..0 /\ \A i \in DOMAIN e : e[i][1] = d.id
  <2>. HIDE DEF e
  <2>. QED BY <1>2
<1>3. \E k \in Nat : DOMAIN e = 1..k /\ \A i \in DOMAIN e : e[i][1] = d.id
  <2>1. CASE job = "join_lateral"
    <3>. DEFINE pieces == TableJobs!split(d.name)
    <3>1. DOMAIN pieces = 1..1 \/ DOMAIN pieces = 1..2 BY DEF TableJobs!split
    <3>. HIDE DEF pieces
    <3>2. e = [i \in DOMAIN pieces |-> Append(TableJobs!add_columns(d), pieces[i])]
      BY <2>1 DEF TableJobs!Emit, TableJobs!join_lateral, pieces
    <3>3. \A x : Append(TableJobs!add_columns(d), x)[1] = d.id
      BY DEF TableJobs!add_columns
    <3>. HIDE DEF e
    <3>. QED BY <3>1, <3>2, <3>3
  <2>2. CASE job = "parse_data"
    BY <2>2, <1>1 DEF TableJobs!Emit, TableJobs!parse_data
  <2>3. CASE job = "extract_country"
    BY <2>3, <1>1 DEF TableJobs!Emit, TableJobs!extract_country
  <2>4. CASE job = "extract_city"
    BY <2>4, <1>1 DEF TableJobs!Emit, TableJobs!extract_city
  <2>5. CASE job = "update_tel"
    BY <2>5, <1>1 DEF TableJobs!Emit, TableJobs!update_tel
  <2>6. CASE job = "update_filter"
    <3>1. e = <<TableJobs!update_tel(d)>> \/ e = <<>>
      BY <2>6 DEF TableJobs!Emit, TableJobs!update_filter
    <3>2. TableJobs!update_tel(d)[1] = d.id BY DEF TableJobs!update_tel
    <3>. HIDE DEF e
    <3>. QED BY <3>1, <3>2, <1>1, <1>2
  <2>7. CASE job = "update_first"
    <3>1. e = <<TableJobs!update_tel(d)>> \/ e = <<>>
      BY <2>7 DEF TableJobs!Emit, TableJobs!update_first
    <3>2. TableJobs!update_tel(d)[1] = d.id BY DEF TableJobs!update_tel
    <3>. HIDE DEF e
    <3>. QED BY <3>1, <3>2, <1>1, <1>2
  <2>. QED BY <2>1, <2>2, <2>3, <2>4, <2>5, <2>6, <2>7 DEF TableJobs!OfPython
<1>4. PICK k \in Nat : DOMAIN e = 1..k /\ \A i \in DOMAIN e : e[i][1] = d.id BY <1>3
<1>5. e = [i \in 1..k |-> e[i]]
  <2>1. e = [i \in DOMAIN e |-> e[i]]
    <3>1. CASE job = "join_lateral" BY <3>1 DEF TableJobs!Emit, TableJobs!join_lateral
    <3>2. CASE job # "join_lateral"
      BY <3>2 DEF TableJobs!OfPython, TableJobs!Emit, TableJobs!parse_data,
         TableJobs!extract_country, TableJobs!extract_city, TableJobs!update_tel,
         TableJobs!update_filter, TableJobs!update_first
    <3>. QED BY <3>1, <3>2
  <2>. QED BY <2>1, <1>4
<1>. DEFINE S == {e[i] : i \in DOMAIN e}
<1>6. e \in [1..k -> S]
  <2>. HIDE DEF e
  <2>. QED BY <1>4, <1>5
<1>7. e \in Seq(S)
  <2>. HIDE DEF e, S
  <2>. QED BY <1>6, <1>4, IsSequence
<1>. QED BY <1>4, <1>7


(* What a job's Python function cannot read is what lacks a path of it.    *)
LEMMA RunsUnlessLacks ==
  ASSUME job \in TableJobs!OfPython, NEW d
  PROVE  TableJobs!Runs(d) <=> ~TableJobs!Lacks(d)
<1>1. /\ TableJobs!Lacks(d) \in BOOLEAN /\ job \in {"join_lateral", "parse_data",
           "extract_country", "extract_city", "update_tel", "update_filter", "update_first"}
  BY DEF TableJobs!OfPython, TableJobs!Lacks
<1>2. CASE job = "join_lateral" BY <1>2 DEF TableJobs!Runs, TableJobs!Lacks
<1>3. CASE job = "parse_data" BY <1>3 DEF TableJobs!Runs, TableJobs!Lacks
<1>4. CASE job = "extract_country" BY <1>4 DEF TableJobs!Runs, TableJobs!Lacks
<1>5. CASE job = "extract_city" BY <1>5 DEF TableJobs!Runs, TableJobs!Lacks
<1>6. CASE job = "update_tel" BY <1>6 DEF TableJobs!Runs, TableJobs!Lacks
<1>7. CASE job = "update_filter" BY <1>7 DEF TableJobs!Runs, TableJobs!Lacks
<1>8. CASE job = "update_first" BY <1>8 DEF TableJobs!Runs, TableJobs!Lacks
<1>. QED BY <1>1, <1>2, <1>3, <1>4, <1>5, <1>6, <1>7, <1>8

(* A sequence over a set is one over any larger set, and so are two. *)
LEMMA Joined ==
  ASSUME NEW S, NEW T, S \subseteq T, NEW s \in Seq(T), NEW t \in Seq(S)
  PROVE  s \o t \in Seq(T)
<1>1. t \in Seq(T) OBVIOUS
<1>. QED BY <1>1

(* The jobs start with the invariant. *)
LEMMA TablesInit == ASSUME TableJobs!Init PROVE TablesInv
<1>1. Numbered(input)
  <2>1. CASE input \in Parsed
    <3>1. /\ input \in Seq([id : Nat, name : STRING, tel : Int, country : STRING, city : STRING])
          /\ \A i, j \in DOMAIN input : i < j => input[i].id < input[j].id
      BY <2>1, ParsedAssumption DEF ParsedAssumption
    <3>2. DOMAIN input = 1..Len(input) /\ Len(input) \in Nat BY <3>1
    <3>. DEFINE R == [id : Nat, name : STRING, tel : Int, country : STRING, city : STRING]
    <3>3. ASSUME NEW i \in 1..Len(input) PROVE input[i].id \in Nat
      <4>1. input[i] \in R
        <5>1. input \in Seq(R) BY <3>1
        <5>. HIDE DEF R
        <5>. QED BY <5>1, ElementIn
      <4>. QED BY <4>1
    <3>. HIDE DEF R
    <3>4. input \in [1..Len(input) -> Elements(input)]
      <4>1. input = [i \in 1..Len(input) |-> input[i]] BY <3>1
      <4>. QED BY <4>1, <3>2 DEF Elements
    <3>5. input \in Seq(Elements(input)) BY <3>2, <3>4, IsSequence
    <3>. QED BY <3>1, <3>2, <3>3, <3>5 DEF Numbered
  <2>2. CASE input \in {TableJobs!Documents, TableJobs!RowDocuments, TableJobs!Texts}
    BY <2>2, OwnDocuments
  <2>. QED BY <2>1, <2>2 DEF TableJobs!Init
<1>2. pos = 0 /\ ended = FALSE /\ out = <<>> BY DEF TableJobs!Init
<1>3. Len(input) \in Nat BY <1>1 DEF Numbered
<1>4. /\ 1..pos \subseteq Reachable /\ pos \in 0..Len(input) /\ ended \in BOOLEAN
      /\ ended => pos = Len(input)
  <2>1. 1..pos = {} /\ 0 \in 0..Len(input) BY <1>2, <1>3
  <2>. QED BY <2>1, <1>2
<1>5. \A S : out \in Seq(S) BY <1>2
<1>. QED BY <1>1, <1>4, <1>5 DEF TablesInv

(* A step of a job keeps the invariant. *)
LEMMA TablesKeep == ASSUME TablesInv, TableJobs!Next PROVE TablesInv'
<1>1. job' = job /\ input' = input
  BY DEF TableJobs!Next, TableJobs!Process, TableJobs!Fail, TableJobs!End
<1>2. /\ Len(input) \in Nat /\ DOMAIN input = 1..Len(input)
      /\ pos \in 0..Len(input) /\ ended \in BOOLEAN
  <2>1. Numbered(input) /\ pos \in 0..Len(input) /\ ended \in BOOLEAN BY DEF TablesInv
  <2>. QED BY <2>1 DEF Numbered
<1>3. Numbered(input)' BY <1>1 DEF TablesInv, Numbered, Elements
<1>4. /\ Reachable' = Reachable
      /\ (job \in TableJobs!OfPython)' = (job \in TableJobs!OfPython)
      /\ \A j : RowsOf(j)' = RowsOf(j)
  BY <1>1 DEF Reachable, RowsOf, TableJobs!Lacks, TableJobs!OfPython, TableJobs!Emit
<1>5. CASE TableJobs!Process
  <2>. USE <1>5 DEF TableJobs!Process
  <2>1. pos \in Nat /\ pos' = pos + 1 /\ pos' \in 1..Len(input) /\ ended' = ended
    BY <1>2
  <2>2. ASSUME job \in TableJobs!OfPython
        PROVE  /\ 1..pos' \subseteq Reachable /\ ~ended
               /\ out' \in Seq(UNION {RowsOf(j) : j \in Reachable})
    <3>1. ~TableJobs!Lacks(input[pos']) BY <2>1, <2>2, RunsUnlessLacks
    <3>2. pos' \in Reachable
      <4>. SUFFICES ASSUME NEW k \in 1..pos' PROVE ~TableJobs!Lacks(input[k])
        BY <2>1, <1>2 DEF Reachable
      <4>1. CASE k = pos' BY <4>1, <3>1
      <4>2. CASE k # pos'
        <5>1. k \in 1..pos /\ k \in 1..k BY <4>2, <2>1
        <5>2. k \in Reachable BY <5>1, <2>2 DEF TablesInv
        <5>. QED BY <5>1, <5>2 DEF Reachable
      <4>. QED BY <4>1, <4>2
    <3>3. 1..pos' \subseteq Reachable
      <4>1. \A k \in 1..pos' : k \in 1..pos \/ k = pos' BY <2>1
      <4>2. 1..pos \subseteq Reachable BY <2>2 DEF TablesInv
      <4>. QED BY <4>1, <4>2, <3>2
    <3>. DEFINE e == TableJobs!Emit(input[pos'], pos' - 1)
    <3>4. e \in Seq(RowsOf(pos')) BY <2>2, EmitRows DEF RowsOf
    <3>5. out' = out \o e
      <4>1. pos' - 1 = pos BY <2>1
      <4>. QED BY <4>1, <2>1
    <3>. DEFINE T == UNION {RowsOf(j) : j \in Reachable}
    <3>6. RowsOf(pos') \subseteq T BY <3>2
    <3>7. out \in Seq(T) BY <2>2 DEF TablesInv
    <3>8. out \o e \in Seq(T)
      <4>. HIDE DEF T, e
      <4>. QED BY <3>4, <3>6, <3>7, Joined
    <3>9. ~ended BY <2>1, <2>2 DEF TablesInv
    <3>. QED BY <3>3, <3>5, <3>8, <3>9
  <2>3. ended \in BOOLEAN BY DEF TablesInv
  <2>. HIDE <1>5 DEF TableJobs!Process
  <2>4. pos' \in 0..Len(input') /\ ended' \in BOOLEAN BY <2>1, <2>3, <1>1, <1>2
  <2>. QED BY <2>1, <2>2, <2>4, <1>1, <1>3, <1>4 DEF TablesInv
<1>6. CASE TableJobs!Fail
  <2>. USE <1>6 DEF TableJobs!Fail
  <2>1. pos' = 0 /\ ended' = ended /\ ~ended /\ (out' = out \/ out' = <<>>) OBVIOUS
  <2>. HIDE <1>6 DEF TableJobs!Fail
  <2>2. job \in TableJobs!OfPython => out' \in Seq(UNION {RowsOf(j) : j \in Reachable})
    <3>1. \A S : <<>> \in Seq(S) OBVIOUS
    <3>2. job \in TableJobs!OfPython => out \in Seq(UNION {RowsOf(j) : j \in Reachable})
      BY DEF TablesInv
    <3>. QED BY <3>1, <3>2, <2>1
  <2>3. 1..pos' \subseteq Reachable BY <2>1
  <2>4. pos' \in 0..Len(input') /\ ended' \in BOOLEAN BY <2>1, <1>1, <1>2
  <2>. QED BY <2>1, <2>2, <2>3, <2>4, <1>1, <1>3, <1>4 DEF TablesInv
<1>7. CASE TableJobs!End
  <2>1. pos' = pos /\ out' = out /\ ended' = TRUE /\ pos = Len(input)
    BY <1>7 DEF TableJobs!End
  <2>. QED BY <2>1, <1>1, <1>3, <1>4 DEF TablesInv
<1>. QED BY <1>5, <1>6, <1>7 DEF TableJobs!Next

(* The inductive invariant of the row-wise jobs, for any documents and     *)
(* number of failures.                                                     *)
THEOREM TablesInvariance == Spec => [](which = "tables" => TablesInv)
<1>. DEFINE Inv == which = "tables" => TablesInv
<1>1. Init => Inv
  <2>. SUFFICES ASSUME Init, which = "tables" PROVE TablesInv OBVIOUS
  <2>. QED BY TablesInit DEF Init
<1>2. Inv /\ [Next]_vars => Inv'
  <2>. SUFFICES ASSUME Inv, [Next]_vars, which' = "tables" PROVE TablesInv' OBVIOUS
  <2>1. which = "tables" /\ TablesInv BY WhichStep
  <2>2. CASE UNCHANGED <<job, input, pos, out, second, failures, ended>>
    <3>1. job' = job /\ input' = input /\ pos' = pos /\ out' = out /\ ended' = ended
      BY <2>2
    <3>2. /\ Reachable' = Reachable /\ Numbered(input)' = Numbered(input)
          /\ (job \in TableJobs!OfPython)' = (job \in TableJobs!OfPython)
          /\ \A j : RowsOf(j)' = RowsOf(j)
      BY <3>1 DEF Reachable, RowsOf, TableJobs!Lacks, TableJobs!OfPython, TableJobs!Emit,
                  Numbered, Elements
    <3>. QED BY <3>1, <3>2, <2>1 DEF TablesInv
  <2>. QED BY <2>1, <2>2, TablesStep, TablesKeep
<1>. QED BY <1>1, <1>2, PTL DEF Spec

(* A set of natural numbers has a least one. *)
LEMMA LeastNumber ==
  ASSUME NEW T, T \subseteq Nat, T # {}
  PROVE  \E m \in T : \A n \in T : m =< n
<1>1. PICK m \in T : \A n \in T : ~ (<<n, m>> \in OpToRel(<, Nat))
  BY NatLessThanWellFounded, WFMin
<1>2. \A n \in T : ~ (n < m) BY <1>1 DEF OpToRel
<1>. QED BY <1>2

(* The document at Poison lacks a path that the job's function reads.      *)
LEMMA PoisonLacks ==
  ASSUME TablesInv, TableJobs!Poison > 0
  PROVE  /\ TableJobs!Poison \in DOMAIN input
         /\ TableJobs!Lacks(input[TableJobs!Poison])
<1>. DEFINE I == {i \in 1..Len(input) : TableJobs!Lacks(input[i])}
            m == TableJobs!Min(I)
<1>1. TableJobs!Poison = IF I # {} THEN m ELSE 0
  BY DEF TableJobs!Poison, TableJobs!SelectInSeq
<1>2. I # {}
  <2>. HIDE DEF m, I
  <2>. QED BY <1>1
<1>3. m \in I
  <2>1. I \subseteq Nat OBVIOUS
  <2>. HIDE DEF I
  <2>2. \E i \in I : \A j \in I : i =< j BY <1>2, <2>1, LeastNumber
  <2>. QED BY <2>2 DEF TableJobs!Min
<1>4. TableJobs!Poison \in I
  <2>. HIDE DEF m, I
  <2>. QED BY <1>1, <1>2, <1>3
<1>5. DOMAIN input = 1..Len(input) BY DEF TablesInv, Numbered
<1>. QED BY <1>4, <1>5

(* A document that a Python function cannot read holds up every one behind *)
(* it: the job never ends, and shows nothing of them.                      *)
THEOREM AlwaysBlocked == Spec => []PoisonBlocks
<1>1. (which = "tables" => TablesInv) => PoisonBlocks
  <2>. DEFINE p == TableJobs!Poison
  <2>. SUFFICES ASSUME which = "tables", TablesInv, job \in TableJobs!OfPython, p > 0
                PROVE  ~ended /\ \A i \in DOMAIN out : out[i][1] < input[p].id
    BY DEF PoisonBlocks, TableJobs!PoisonBlocks
  <2>1. p \in DOMAIN input /\ TableJobs!Lacks(input[p]) BY PoisonLacks
  <2>2. DOMAIN input = 1..Len(input) /\ Len(input) \in Nat BY DEF TablesInv, Numbered
  <2>. HIDE DEF p
  <2>3. \A j \in Reachable : j \in 1..Len(input) /\ j < p
    <3>. SUFFICES ASSUME NEW j \in Reachable, ~(j < p) PROVE FALSE BY <2>2 DEF Reachable
    <3>1. p \in 1..j BY <2>1, <2>2 DEF Reachable
    <3>. QED BY <3>1, <2>1 DEF Reachable
  <2>4. ~ended
    <3>. SUFFICES ASSUME ended PROVE FALSE OBVIOUS
    <3>1. p \in 1..pos BY <2>1, <2>2 DEF TablesInv
    <3>2. p \in Reachable BY <3>1 DEF TablesInv
    <3>. QED BY <3>2, <2>3, <2>1, <2>2
  <2>5. ASSUME NEW i \in DOMAIN out PROVE out[i][1] < input[p].id
    <3>. DEFINE T == UNION {RowsOf(j) : j \in Reachable}
    <3>1. out \in Seq(T) BY DEF TablesInv
    <3>2. out[i] \in T
      <4>. HIDE DEF T
      <4>1. i \in 1..Len(out) BY <3>1
      <4>. QED BY <4>1, <3>1, ElementIn
    <3>3. PICK j \in Reachable : out[i] \in RowsOf(j) BY <3>2
    <3>4. out[i][1] = input[j].id
      <4>1. PICK k \in DOMAIN TableJobs!Emit(input[j], j - 1) :
              out[i] = TableJobs!Emit(input[j], j - 1)[k]
        BY <3>3 DEF RowsOf
      <4>2. \A x \in DOMAIN TableJobs!Emit(input[j], j - 1) :
              TableJobs!Emit(input[j], j - 1)[x][1] = input[j].id
        BY EmitRows
      <4>. QED BY <4>1, <4>2
    <3>5. input[j].id < input[p].id BY <2>1, <2>2, <2>3 DEF TablesInv, Numbered
    <3>. QED BY <3>4, <3>5
  <2>. QED BY <2>4, <2>5
<1>. QED BY <1>1, TablesInvariance, PTL


-------------------------------------------------------------------------------
(* The Elasticsearch jobs. *)

(* Two documents of one key: an index holds one of them. *)
Same(x, y) == x.index = y.index /\ x.id = y.id

(* The store when the actions of the bulk at s have been taken: what they  *)
(* do not replace, and the last one of every key.                          *)
After(s) ==
  {x \in store : \A i \in s : ~Same(x, bulk[i])}
    \cup {bulk[i] : i \in {m \in s : \A j \in s : j > m => ~Same(bulk[m], bulk[j])}}

(* The fold that takes the actions at the places of taken, in their order. *)
Taking(taken, g, s) ==
  IF s = {} THEN store
  ELSE LET x == ElasticsearchSink!Max(s) IN
       IF x \in taken THEN ElasticsearchSink!Index(g[s \ {x}], bulk[x]) ELSE g[s \ {x}]

(* What a set of places takes follows from what all but its last one take. *)
LEMMA AfterLast ==
  ASSUME NEW s, NEW x \in s, s \subseteq Nat, \A y \in s : y =< x
  PROVE  After(s) = ElasticsearchSink!Index(After(s \ {x}), bulk[x])
<1>. DEFINE r == s \ {x}
<1>1. \A y : y \in s <=> y \in r \/ y = x OBVIOUS
<1>2. \A y \in r : y < x /\ y \in Nat /\ x \in Nat OBVIOUS
<1>. HIDE DEF r
<1>3. ASSUME NEW d PROVE d \in After(s) <=> d \in ElasticsearchSink!Index(After(r), bulk[x])
  <2>1. d \in ElasticsearchSink!Index(After(r), bulk[x]) <=>
          d = bulk[x] \/ (d \in After(r) /\ ~Same(d, bulk[x]))
    BY DEF ElasticsearchSink!Index, Same
  <2>2. CASE d = bulk[x]
    <3>1. \A j \in s : j > x => ~Same(bulk[x], bulk[j]) BY <1>1, <1>2
    <3>. QED BY <3>1, <2>1, <2>2 DEF After
  <2>3. CASE d # bulk[x]
    <3>1. ASSUME d \in After(s) PROVE d \in After(r) /\ ~Same(d, bulk[x])
      <4>1. CASE d \in store /\ \A i \in s : ~Same(d, bulk[i]) BY <4>1, <1>1 DEF After
      <4>2. CASE \E m \in s : d = bulk[m] /\ \A j \in s : j > m => ~Same(bulk[m], bulk[j])
        <5>1. PICK m \in s : d = bulk[m] /\ \A j \in s : j > m => ~Same(bulk[m], bulk[j])
          BY <4>2
        <5>2. m \in r BY <5>1, <2>3, <1>1
        <5>3. x > m BY <5>2, <1>2
        <5>. QED BY <5>1, <5>2, <5>3, <1>1 DEF After
      <4>. QED BY <3>1, <4>1, <4>2 DEF After
    <3>2. ASSUME d \in After(r), ~Same(d, bulk[x]) PROVE d \in After(s)
      <4>1. CASE d \in store /\ \A i \in r : ~Same(d, bulk[i]) BY <4>1, <3>2, <1>1 DEF After
      <4>2. CASE \E m \in r : d = bulk[m] /\ \A j \in r : j > m => ~Same(bulk[m], bulk[j])
        <5>1. PICK m \in r : d = bulk[m] /\ \A j \in r : j > m => ~Same(bulk[m], bulk[j])
          BY <4>2
        <5>2. m \in s /\ \A j \in s : j > m => ~Same(bulk[m], bulk[j]) BY <5>1, <3>2, <1>1
        <5>. QED BY <5>1, <5>2 DEF After
      <4>. QED BY <3>2, <4>1, <4>2 DEF After
    <3>. QED BY <2>1, <2>3, <3>1, <3>2
  <2>. QED BY <2>2, <2>3
<1>. QED BY <1>3 DEF r

(* A non-empty set of places has a last one. *)
LEMMA LastPlace ==
  ASSUME NEW n \in Nat, NEW T, T \subseteq 1..n, T # {}
  PROVE  /\ ElasticsearchSink!Max(T) \in T
         /\ \A y \in T : y =< ElasticsearchSink!Max(T)
<1>. DEFINE U == {n - i : i \in T}
<1>. \A i \in T : i \in Int /\ n - i \in Nat OBVIOUS
<1>. U \subseteq Nat /\ U # {} OBVIOUS
<1>1. PICK m \in U : \A k \in U : m =< k
  <2>. HIDE DEF U
  <2>. QED BY LeastNumber
<1>2. PICK i \in T : m = n - i OBVIOUS
<1>3. \A k \in T : i >= k
  <2>. SUFFICES ASSUME NEW k \in T PROVE i >= k OBVIOUS
  <2>1. n - k \in U OBVIOUS
  <2>2. n - i =< n - k BY <2>1, <1>1, <1>2
  <2>. QED BY <2>2
<1>4. \E x \in T : \A y \in T : x >= y BY <1>3
<1>5. ElasticsearchSink!Max(T) \in T /\ \A y \in T : ElasticsearchSink!Max(T) >= y
  BY <1>4 DEF ElasticsearchSink!Max
<1>. QED BY <1>5

(* A set of parts of a finite set has a least one. *)
LEMMA LeastSet ==
  ASSUME NEW S, IsFiniteSet(S), NEW T, T \subseteq SUBSET S, T # {}
  PROVE  \E m \in T : \A n \in T : n \subseteq m => n = m
<1>1. T \subseteq FiniteSubsetsOf(S) BY FS_FiniteSubsetsOfFinite
<1>2. PICK m \in T : \A n \in T : ~ (<<n, m>> \in StrictSubsetOrdering(S))
  BY <1>1, FS_StrictSubsetOrderingWellFounded, WFMin
<1>. QED BY <1>2 DEF StrictSubsetOrdering

(* The actions of the bulk that are taken leave what After says.           *)
LEMMA TakenAre ==
  ASSUME NEW S, bulk \in Seq(S), NEW taken
  PROVE  ElasticsearchSink!TakeSome(taken) = After(DOMAIN bulk \cap taken)
<1>. DEFINE D == DOMAIN bulk
            P(g) == g = [s \in SUBSET D |-> Taking(taken, g, s)]
            h == [s \in SUBSET D |-> After(s \cap taken)]
            f == CHOOSE g : P(g)
<1>1. D = 1..Len(bulk) /\ Len(bulk) \in Nat OBVIOUS
<1>2. IsFiniteSet(D) BY <1>1, FS_Interval
<1>3. ElasticsearchSink!TakeSome(taken) = f[D]
  <2>. DEFINE ids == [i \in DOMAIN bulk |-> i]
              folded(it) == it = [s \in SUBSET DOMAIN ids |->
                IF s = {} THEN store
                ELSE IF ids[ElasticsearchSink!Max(s)] \in taken
                     THEN ElasticsearchSink!Index(it[s \ {ElasticsearchSink!Max(s)}],
                                                  bulk[ids[ElasticsearchSink!Max(s)]])
                     ELSE it[s \ {ElasticsearchSink!Max(s)}]]
  <2>1. ElasticsearchSink!TakeSome(taken) = (CHOOSE it : folded(it))[DOMAIN ids]
    BY DEF ElasticsearchSink!TakeSome, ElasticsearchSink!FoldLeft,
           ElasticsearchSink!MapThenFoldSet
  <2>2. DOMAIN ids = D OBVIOUS
  <2>3. \A s \in SUBSET D : s # {} =>
          ElasticsearchSink!Max(s) \in s /\ ids[ElasticsearchSink!Max(s)] = ElasticsearchSink!Max(s)
    BY <1>1, LastPlace
  <2>4. \A it : folded(it) <=> P(it)
    <3>. HIDE DEF ids, D
    <3>. QED BY <2>2, <2>3 DEF Taking
  <2>. HIDE DEF folded, P, ids
  <2>5. (CHOOSE it : folded(it)) = f BY <2>4
  <2>. QED BY <2>1, <2>2, <2>5
<1>4. P(h)
  <2>. SUFFICES ASSUME NEW s \in SUBSET D PROVE After(s \cap taken) = Taking(taken, h, s)
    OBVIOUS
  <2>1. CASE s = {}
    <3>1. After({}) = store BY DEF After
    <3>. QED BY <2>1, <3>1 DEF Taking
  <2>2. CASE s # {}
    <3>. DEFINE x == ElasticsearchSink!Max(s)
    <3>1. x \in s /\ \A y \in s : y =< x BY <1>1, <2>2, LastPlace
    <3>. HIDE DEF x
    <3>2. h[s \ {x}] = After((s \ {x}) \cap taken) BY <3>1
    <3>. HIDE DEF h
    <3>3. CASE x \in taken
      <4>. DEFINE t == s \cap taken
      <4>1. x \in t /\ t \subseteq Nat /\ \A y \in t : y =< x BY <3>1, <3>3, <1>1
      <4>2. t \ {x} = (s \ {x}) \cap taken OBVIOUS
      <4>. HIDE DEF t
      <4>3. After(t) = ElasticsearchSink!Index(After(t \ {x}), bulk[x]) BY <4>1, AfterLast
      <4>. QED BY <4>2, <4>3, <3>2, <3>3, <2>2 DEF Taking, t, x
    <3>4. CASE x \notin taken
      <4>1. (s \ {x}) \cap taken = s \cap taken BY <3>4
      <4>. QED BY <4>1, <3>2, <3>4, <2>2 DEF Taking, x
    <3>. QED BY <3>3, <3>4
  <2>. QED BY <2>1, <2>2
<1>5. P(f)
  <2>. HIDE DEF P, h
  <2>. QED BY <1>4
<1>6. \A s \in SUBSET D : f[s] = h[s]
  <2>. DEFINE bad == {s \in SUBSET D : f[s] # h[s]}
  <2>. SUFFICES ASSUME bad # {} PROVE FALSE OBVIOUS
  <2>1. PICK s \in bad : \A n \in bad : n \subseteq s => n = s
    <3>1. bad \subseteq SUBSET D OBVIOUS
    <3>. HIDE DEF bad, D
    <3>. QED BY <3>1, <1>2, LeastSet
  <2>2. s \in SUBSET D /\ f[s] # h[s] OBVIOUS
  <2>. DEFINE x == ElasticsearchSink!Max(s)
  <2>3. s # {} => f[s \ {x}] = h[s \ {x}]
    <3>. SUFFICES ASSUME s # {} PROVE s \ {x} \notin bad BY <2>2
    <3>1. x \in s BY <1>1, <2>2, LastPlace
    <3>2. s \ {x} # s /\ s \ {x} \subseteq s BY <3>1
    <3>. HIDE DEF bad, x
    <3>. QED BY <3>2, <2>1
  <2>4. f[s] = Taking(taken, f, s) /\ h[s] = Taking(taken, h, s)
    <3>1. \A g : P(g) => g[s] = Taking(taken, g, s) BY <2>2
    <3>. HIDE DEF P, f, h
    <3>. QED BY <3>1, <1>4, <1>5
  <2>5. Taking(taken, f, s) = Taking(taken, h, s)
    <3>. HIDE DEF f, h
    <3>. QED BY <2>3 DEF Taking
  <2>. QED BY <2>2, <2>4, <2>5
<1>7. f[D] = h[D]
  <2>1. D \in SUBSET D OBVIOUS
  <2>. HIDE DEF f, h, D
  <2>. QED BY <2>1, <1>6
<1>8. h[D] = After(D \cap taken) OBVIOUS
<1>. HIDE DEF f, h
<1>. QED BY <1>3, <1>7, <1>8

Indexes == {"foo"} \cup {elements[i].name : i \in DOMAIN elements}

(* Whether the job that runs writes this index, and the document that an   *)
(* element becomes in it.                                                  *)
Mine(index) == (index = "foo") <=> (step \in {1, 3})
Doc(index, e) == [index |-> index, id |-> e.id, doc |-> e]
Goes(index, e) == index = "foo" \/ index = e.name

Docs == {Doc(index, elements[i]) : index \in Indexes, i \in DOMAIN elements}

(* Among the first k elements the i-th is the last one with its id in the  *)
(* index.                                                                  *)
LastOf(index, i, k) ==
  /\ i \in 1..k /\ Goes(index, elements[i])
  /\ \A j \in (i + 1)..k : elements[j].id = elements[i].id => ~Goes(index, elements[j])

(* The index holds what the first k elements leave in it. *)
Holds(index, k) == \A i \in 1..k : LastOf(index, i, k) => Doc(index, elements[i]) \in store

(* How many elements the store has taken in this attempt. *)
Taken == pos - Len(buffer) - Len(bulk)

(* The jobs that write the index are over, or the one that runs has not    *)
(* begun: what the last of them left is still there.                       *)
Finished(index) ==
  /\ step > (IF index = "foo" THEN 1 ELSE 2)
  /\ step = 5 \/ ~Mine(index) \/ (pos = 0 /\ failures = 0)

(* What is on its way is what was emitted, in its order.                   *)
BulkTyped ==
  /\ elements \in Collected
  /\ step \in 1..5
  /\ pos \in 0..Len(elements)
  /\ buffer \in Seq(Docs) /\ bulk \in Seq(Docs)
  /\ Taken \in Nat
  /\ failures \in Nat
  /\ step = 5 => pos = 0

OnTheWay ==
  /\ \A i \in 1..Len(bulk) :
       bulk[i] = ElasticsearchSink!Document(elements[Taken + i])
  /\ \A i \in 1..Len(buffer) :
       buffer[i] = ElasticsearchSink!Document(elements[Taken + Len(bulk) + i])

(* A document of the store is that of an element, in an index it goes to,  *)
(* and the only one of its id in the index.                                *)
StoreSound ==
  /\ \A x \in store : \E index \in Indexes : \E i \in DOMAIN elements :
       Goes(index, elements[i]) /\ x = Doc(index, elements[i])
  /\ \A x, y \in store : Same(x, y) => x = y

(* The index that is being written holds the last of what was taken in     *)
(* this attempt, whatever earlier ones left; a finished one holds them all.*)
StoreHolds ==
  \A index \in Indexes :
    /\ step < 5 /\ Mine(index) => Holds(index, Taken)
    /\ Finished(index) => Holds(index, Len(elements))

BulksInv == BulkTyped /\ OnTheWay /\ StoreSound /\ StoreHolds

(* A step of the composition is one of the Elasticsearch jobs' when they   *)
(* run.                                                                    *)
LEMMA BulksStep ==
  ASSUME which = "bulks", [Next]_vars
  PROVE  \/ ElasticsearchSink!Next
         \/ UNCHANGED <<elements, step, pos, buffer, bulk, tries, store, failures>>
<1>1. CASE Next
  BY <1>1 DEF Next, InWords, InGroups, InTables, InTopic
<1>2. CASE UNCHANGED vars BY <1>2 DEF vars, bulkVars
<1>. QED BY <1>1, <1>2

(* What a collection is. *)
LEMMA CollectionIs ==
  ASSUME elements \in Collected
  PROVE  /\ Len(elements) \in Nat /\ DOMAIN elements = 1..Len(elements)
         /\ \A i \in 1..Len(elements) : elements[i].name # "foo"
<1>. DEFINE E == [name : STRING \ {"foo"}, id : Nat, text : Nat]
<1>1. elements \in Seq(E) BY CollectedAssumption DEF CollectedAssumption
<1>2. \A i \in 1..Len(elements) : elements[i] \in E
  <2>. HIDE DEF E
  <2>. QED BY <1>1, ElementIn
<1>3. \A e \in E : e.name # "foo" OBVIOUS
<1>4. Len(elements) \in Nat /\ DOMAIN elements = 1..Len(elements)
  <2>. HIDE DEF E
  <2>. QED BY <1>1
<1>. HIDE DEF E
<1>. QED BY <1>2, <1>3, <1>4

(* The index request of an element goes to an index of the job that runs,  *)
(* and to no other.                                                        *)
LEMMA DocumentIs ==
  ASSUME elements \in Collected, step \in 1..4, NEW i \in 1..Len(elements)
  PROVE  \E index \in Indexes :
           /\ ElasticsearchSink!Document(elements[i]) = Doc(index, elements[i])
           /\ Mine(index) /\ Goes(index, elements[i])
           /\ \A other \in Indexes : Mine(other) /\ Goes(other, elements[i]) => other = index
<1>1. DOMAIN elements = 1..Len(elements) /\ elements[i].name # "foo" BY CollectionIs
<1>2. \A x \in Indexes : x = "foo" \/ x = x OBVIOUS
<1>3. CASE step \in {1, 3}
  <2>1. ElasticsearchSink!Job.index = "foo"
    BY <1>3 DEF ElasticsearchSink!Job, ElasticsearchSink!Jobs,
                ElasticsearchSink!write_to_es6, ElasticsearchSink!write_to_es7
  <2>2. ElasticsearchSink!Document(elements[i]) = Doc("foo", elements[i])
    BY <2>1 DEF ElasticsearchSink!Document, Doc
  <2>. QED BY <2>2, <1>3 DEF Mine, Goes, Indexes
<1>4. CASE step \in {2, 4}
  <2>1. ElasticsearchSink!Job.index = "name"
    BY <1>4 DEF ElasticsearchSink!Job, ElasticsearchSink!Jobs,
                ElasticsearchSink!write_to_es6_dynamic_index,
                ElasticsearchSink!write_to_es7_dynamic_index
  <2>2. ElasticsearchSink!Document(elements[i]) = Doc(elements[i].name, elements[i])
    BY <2>1 DEF ElasticsearchSink!Document, Doc
  <2>3. elements[i].name \in Indexes BY <1>1 DEF Indexes
  <2>. QED BY <2>2, <2>3, <1>1, <1>4 DEF Mine, Goes
<1>. QED BY <1>3, <1>4

(* A prefix of no elements leaves nothing. *)
LEMMA HoldsNone == \A index : Holds(index, 0)
BY DEF Holds

(* Taking more of the bulk, with s the places taken, keeps the store sound *)
(* and leaves the indexes of the other jobs alone.                         *)
LEMMA AfterSound ==
  ASSUME BulkTyped, OnTheWay, StoreSound, step \in 1..4, NEW s, s \subseteq 1..Len(bulk)
  PROVE  /\ \A x \in After(s) : \E index \in Indexes : \E i \in DOMAIN elements :
              Goes(index, elements[i]) /\ x = Doc(index, elements[i])
         /\ \A x, y \in After(s) : Same(x, y) => x = y
         /\ \A index \in Indexes : ~Mine(index) =>
              \A x \in store : x.index = index => x \in After(s)
<1>1. /\ Len(elements) \in Nat /\ DOMAIN elements = 1..Len(elements)
      /\ Len(bulk) \in Nat /\ Len(buffer) \in Nat /\ Taken \in Nat
      /\ pos \in 0..Len(elements) /\ elements \in Collected
  BY CollectionIs DEF BulkTyped
<1>2. \A m \in s : Taken + m \in 1..Len(elements) /\ m \in Nat
  <2>. SUFFICES ASSUME NEW m \in s
                PROVE  Taken + m \in 1..Len(elements) /\ m \in Nat OBVIOUS
  <2>1. m \in 1..Len(bulk) OBVIOUS
  <2>2. pos = Taken + Len(buffer) + Len(bulk) BY <1>1 DEF Taken
  <2>. QED BY <2>1, <2>2, <1>1
<1>3. \A m \in s : \E index \in Indexes :
        /\ bulk[m] = Doc(index, elements[Taken + m])
        /\ Mine(index) /\ Goes(index, elements[Taken + m])
  BY <1>1, <1>2, DocumentIs DEF OnTheWay
<1>4. ASSUME NEW x \in After(s)
      PROVE  \E index \in Indexes : \E i \in DOMAIN elements :
               Goes(index, elements[i]) /\ x = Doc(index, elements[i])
  <2>1. CASE x \in store BY <2>1 DEF StoreSound
  <2>2. CASE \E m \in s : x = bulk[m] BY <2>2, <1>1, <1>2, <1>3
  <2>. QED BY <2>1, <2>2 DEF After
<1>5. ASSUME NEW x \in After(s), NEW y \in After(s), Same(x, y) PROVE x = y
  <2>. DEFINE Last(m) == \A j \in s : j > m => ~Same(bulk[m], bulk[j])
  <2>1. \/ x \in store /\ \A i \in s : ~Same(x, bulk[i])
        \/ \E m \in s : x = bulk[m] /\ Last(m)
    BY DEF After
  <2>2. \/ y \in store /\ \A i \in s : ~Same(y, bulk[i])
        \/ \E m \in s : y = bulk[m] /\ Last(m)
    BY DEF After
  <2>3. CASE x \in store /\ \A i \in s : ~Same(x, bulk[i])
    <3>1. ~\E m \in s : y = bulk[m] BY <2>3, <1>5
    <3>. QED BY <3>1, <2>2, <2>3, <1>5 DEF StoreSound
  <2>4. CASE \E m \in s : x = bulk[m] /\ Last(m)
    <3>1. PICK m \in s : x = bulk[m] /\ Last(m) BY <2>4
    <3>2. Same(y, x) BY <1>5 DEF Same
    <3>3. \E k \in s : y = bulk[k] /\ Last(k) BY <2>2, <3>1, <3>2
    <3>4. PICK k \in s : y = bulk[k] /\ Last(k) BY <3>3
    <3>5. ~(k > m) /\ ~(m > k) BY <3>1, <3>2, <3>4, <1>5
    <3>6. k = m BY <3>5, <1>2
    <3>. QED BY <3>1, <3>4, <3>6
  <2>. QED BY <2>1, <2>3, <2>4
<1>6. ASSUME NEW index \in Indexes, ~Mine(index), NEW x \in store, x.index = index
      PROVE  x \in After(s)
  <2>1. \A m \in s : Mine(bulk[m].index)
    <3>1. \A i, e : Doc(i, e).index = i BY DEF Doc
    <3>. QED BY <3>1, <1>3
  <2>2. \A m \in s : ~Same(x, bulk[m]) BY <2>1, <1>6 DEF Same
  <2>. QED BY <2>2 DEF After
<1>. QED BY <1>4, <1>5, <1>6

(* A finished index of another job still holds what it held.               *)
LEMMA OthersHold ==
  ASSUME BulkTyped, OnTheWay, StoreSound, step \in 1..4, NEW s, s \subseteq 1..Len(bulk),
         store' = After(s), elements' = elements,
         NEW index \in Indexes, ~Mine(index), NEW k, Holds(index, k)
  PROVE  Holds(index, k)'
<1>1. \A x \in store : x.index = index => x \in store' BY AfterSound
<1>2. \A e : Doc(index, e).index = index BY DEF Doc
<1>3. \A i : LastOf(index, i, k)' <=> LastOf(index, i, k) BY DEF LastOf, Goes
<1>. QED BY <1>1, <1>2, <1>3 DEF Holds, Doc


(* When the whole bulk has been taken, so has that much more of the input. *)
LEMMA BulkTaken ==
  ASSUME BulkTyped, OnTheWay, step \in 1..4,
         store' = After(1..Len(bulk)), elements' = elements,
         NEW index \in Indexes, Mine(index), Holds(index, Taken), NEW k, k = Taken + Len(bulk)
  PROVE  Holds(index, k)'
<1>1. /\ Len(elements) \in Nat /\ Len(bulk) \in Nat /\ Len(buffer) \in Nat /\ Taken \in Nat
      /\ pos \in 0..Len(elements) /\ elements \in Collected
  BY CollectionIs DEF BulkTyped
<1>2. pos = Taken + Len(buffer) + Len(bulk) /\ k \in Nat /\ k =< Len(elements)
  BY <1>1 DEF Taken
<1>. SUFFICES ASSUME NEW i \in 1..k, LastOf(index, i, k)
              PROVE  Doc(index, elements[i]) \in After(1..Len(bulk))
  BY DEF Holds, Doc, LastOf, Goes
<1>. DEFINE d == Doc(index, elements[i])
<1>3. Goes(index, elements[i]) /\ d.index = index /\ d.id = elements[i].id
  BY DEF LastOf, Doc
<1>4. ASSUME NEW m \in 1..Len(bulk), Taken + m > i PROVE ~Same(d, bulk[m])
  <2>. DEFINE e == elements[Taken + m]
  <2>1. Taken + m \in (i + 1)..k /\ Taken + m \in 1..Len(elements) BY <1>1, <1>2, <1>4
  <2>2. PICK other \in Indexes : bulk[m] = Doc(other, e) /\ Goes(other, e)
    BY <2>1, <1>1, DocumentIs DEF OnTheWay
  <2>3. bulk[m].index = other /\ bulk[m].id = e.id BY <2>2 DEF Doc
  <2>4. e.id = elements[i].id => ~Goes(index, e) BY <2>1 DEF LastOf
  <2>. HIDE DEF e, d
  <2>. QED BY <2>2, <2>3, <2>4, <1>3 DEF Same
<1>5. CASE i =< Taken
  <2>1. i \in 1..Taken /\ LastOf(index, i, Taken)
    <3>1. i \in 1..Taken /\ \A j \in (i + 1)..Taken : j \in (i + 1)..k BY <1>1, <1>2, <1>5
    <3>. QED BY <3>1 DEF LastOf
  <2>2. d \in store BY <2>1 DEF Holds
  <2>3. \A m \in 1..Len(bulk) : Taken + m > i BY <1>1, <1>5
  <2>. HIDE DEF d
  <2>. QED BY <2>2, <2>3, <1>4 DEF After, d
<1>6. CASE i > Taken
  <2>. DEFINE n == i - Taken
  <2>1. n \in 1..Len(bulk) /\ Taken + n = i /\ i \in 1..Len(elements) BY <1>1, <1>2, <1>6
  <2>. HIDE DEF n
  <2>2. bulk[n] = d
    <3>1. bulk[n] = ElasticsearchSink!Document(elements[i]) BY <2>1 DEF OnTheWay
    <3>2. ElasticsearchSink!Document(elements[i]) = d
      BY <2>1, <1>1, <1>3, DocumentIs
    <3>. QED BY <3>1, <3>2
  <2>3. \A j \in 1..Len(bulk) : j > n => ~Same(bulk[n], bulk[j])
    <3>. SUFFICES ASSUME NEW j \in 1..Len(bulk), j > n PROVE ~Same(d, bulk[j]) BY <2>2
    <3>1. Taken + j > i BY <2>1, <1>1
    <3>. HIDE DEF d
    <3>. QED BY <3>1, <1>4
  <2>. HIDE DEF d
  <2>. QED BY <2>1, <2>2, <2>3 DEF After, d
<1>. QED BY <1>1, <1>2, <1>5, <1>6

(* Which jobs are there. *)
LEMMA RunningIs == ASSUME step \in 1..5 PROVE ElasticsearchSink!Running <=> step \in 1..4
<1>1. Len(ElasticsearchSink!Jobs) = 4 BY DEF ElasticsearchSink!Jobs
<1>. QED BY <1>1 DEF ElasticsearchSink!Running

(* What a step without the store leaves. *)
LEMMA StoreAlone ==
  ASSUME StoreSound, elements' = elements, store' = store
  PROVE  /\ StoreSound' /\ Indexes' = Indexes /\ Docs' = Docs
         /\ \A index, k : Holds(index, k)' <=> Holds(index, k)
BY DEF StoreSound, Indexes, Docs, Goes, Doc, Holds, LastOf, Same

(* An element is emitted, or the rest is sent. *)
LEMMA EmitKeeps ==
  ASSUME BulksInv, ElasticsearchSink!Write \/ ElasticsearchSink!Flush
  PROVE  BulksInv'
<1>. BulkTyped /\ OnTheWay /\ StoreSound /\ StoreHolds BY DEF BulksInv
<1>1. /\ Len(elements) \in Nat /\ DOMAIN elements = 1..Len(elements)
      /\ Len(bulk) \in Nat /\ Len(buffer) \in Nat /\ Taken \in Nat
      /\ pos \in 0..Len(elements) /\ elements \in Collected
      /\ buffer \in Seq(Docs) /\ bulk \in Seq(Docs) /\ step \in 1..5 /\ failures \in Nat
  <2>1. /\ pos \in 0..Len(elements) /\ elements \in Collected /\ Taken \in Nat
        /\ buffer \in Seq(Docs) /\ bulk \in Seq(Docs) /\ step \in 1..5 /\ failures \in Nat
    BY DEF BulkTyped
  <2>2. Len(elements) \in Nat /\ DOMAIN elements = 1..Len(elements) BY <2>1, CollectionIs
  <2>3. Len(bulk) \in Nat /\ Len(buffer) \in Nat BY <2>1
  <2>. QED BY <2>1, <2>2, <2>3
<1>2. /\ elements' = elements /\ store' = store /\ step' = step /\ failures' = failures
      /\ bulk = <<>> /\ step \in 1..4
  BY RunningIs, <1>1 DEF ElasticsearchSink!Write, ElasticsearchSink!Flush
<1>3. /\ StoreSound' /\ Indexes' = Indexes /\ Docs' = Docs
      /\ \A index, k : Holds(index, k)' <=> Holds(index, k)
  BY <1>2, StoreAlone
<1>4. \A e : ElasticsearchSink!Document(e)' = ElasticsearchSink!Document(e)
  BY <1>2 DEF ElasticsearchSink!Document, ElasticsearchSink!Job, ElasticsearchSink!Jobs
<1>5. pos = Taken + Len(buffer) /\ Len(bulk) = 0 BY <1>1, <1>2 DEF Taken
<1>6. CASE ElasticsearchSink!Write
  <2>. DEFINE d == ElasticsearchSink!Document(elements[pos'])
              b == Append(buffer, d)
  <2>1. pos' = pos + 1 /\ pos' \in 1..Len(elements)
    BY <1>1, <1>6 DEF ElasticsearchSink!Write
  <2>2. d \in Docs
    <3>1. PICK index \in Indexes : d = Doc(index, elements[pos'])
      BY <2>1, <1>1, <1>2, DocumentIs
    <3>. QED BY <3>1, <2>1, <1>1 DEF Docs
  <2>3. (bulk' = b /\ buffer' = <<>>) \/ (bulk' = <<>> /\ buffer' = b)
    BY <1>6, <1>2 DEF ElasticsearchSink!Write
  <2>. HIDE DEF d
  <2>4. /\ b \in Seq(Docs) /\ Len(b) = Len(buffer) + 1 /\ b[Len(buffer) + 1] = d
        /\ \A i \in 1..Len(buffer) : b[i] = buffer[i]
    BY <1>1, <2>2
  <2>. HIDE DEF b
  <2>5. bulk' \in Seq(Docs) /\ buffer' \in Seq(Docs) /\ Len(bulk') + Len(buffer') = Len(b)
    <3>1. <<>> \in Seq(Docs) /\ Len(<<>>) = 0 OBVIOUS
    <3>2. CASE bulk' = b /\ buffer' = <<>> BY <3>1, <3>2, <2>4, <1>1
    <3>3. CASE bulk' = <<>> /\ buffer' = b BY <3>1, <3>3, <2>4, <1>1
    <3>. QED BY <3>2, <3>3, <2>3
  <2>6. Taken' = Taken
    <3>1. Len(bulk') \in Nat /\ Len(buffer') \in Nat BY <2>5
    <3>. QED BY <3>1, <2>1, <2>4, <2>5, <1>1, <1>5 DEF Taken
  <2>7. BulkTyped'
    BY <2>1, <2>5, <2>6, <1>1, <1>2, <1>3 DEF BulkTyped
  <2>8. \A i \in 1..Len(b) : b[i] = ElasticsearchSink!Document(elements[Taken + i])
    <3>. SUFFICES ASSUME NEW i \in 1..Len(b)
                  PROVE  b[i] = ElasticsearchSink!Document(elements[Taken + i])
      OBVIOUS
    <3>1. CASE i \in 1..Len(buffer)
      <4>1. Taken + Len(bulk) + i = Taken + i BY <1>1, <1>5
      <4>. QED BY <4>1, <3>1, <2>4 DEF OnTheWay
    <3>2. CASE i = Len(buffer) + 1
      <4>1. Taken + i = pos' BY <3>2, <2>1, <1>1, <1>5
      <4>. QED BY <4>1, <3>2, <2>4 DEF d
    <3>3. i \in 1..Len(buffer) \/ i = Len(buffer) + 1 BY <2>4, <1>1, UpToNext
    <3>. QED BY <3>1, <3>2, <3>3
  <2>9. OnTheWay'
    <3>1. CASE bulk' = b /\ buffer' = <<>>
      <4>1. Len(buffer') = 0 BY <3>1
      <4>. QED BY <4>1, <3>1, <2>6, <2>8, <1>2, <1>4 DEF OnTheWay
    <3>2. CASE bulk' = <<>> /\ buffer' = b
      <4>1. Len(bulk') = 0 BY <3>2
      <4>2. \A i \in 1..Len(b) : Taken + 0 + i = Taken + i BY <1>1
      <4>. QED BY <4>1, <4>2, <3>2, <2>6, <2>8, <1>2, <1>4 DEF OnTheWay
    <3>. QED BY <2>3, <3>1, <3>2
  <2>10. StoreHolds'
    <3>1. pos' # 0 BY <2>1, <1>1
    <3>2. \A index \in Indexes : Finished(index)' => Finished(index)
      BY <3>1, <1>2 DEF Finished, Mine
    <3>3. \A index : Mine(index)' <=> Mine(index) BY <1>2 DEF Mine
    <3>. QED BY <3>2, <3>3, <2>6, <1>2, <1>3 DEF StoreHolds
  <2>. QED BY <2>7, <2>9, <2>10, <1>3 DEF BulksInv
<1>7. CASE ElasticsearchSink!Flush
  <2>1. pos' = pos /\ bulk' = buffer /\ buffer' = <<>>
    BY <1>7 DEF ElasticsearchSink!Flush
  <2>2. Len(buffer') = 0 /\ buffer' \in Seq(Docs)
    <3>1. <<>> \in Seq(Docs) /\ Len(<<>>) = 0 OBVIOUS
    <3>. QED BY <3>1, <2>1
  <2>3. Taken' = Taken BY <2>1, <2>2, <1>1, <1>5 DEF Taken
  <2>4. BulkTyped'
    BY <2>1, <2>2, <2>3, <1>1, <1>2, <1>3 DEF BulkTyped
  <2>5. OnTheWay'
    <3>1. \A i \in 1..Len(buffer) : Taken + Len(bulk) + i = Taken + i BY <1>1, <1>5
    <3>. QED BY <3>1, <2>1, <2>2, <2>3, <1>2, <1>4 DEF OnTheWay
  <2>6. StoreHolds'
    BY <2>1, <2>3, <1>2, <1>3 DEF StoreHolds, Finished, Mine
  <2>. QED BY <2>4, <2>5, <2>6, <1>3 DEF BulksInv
<1>. QED BY <1>6, <1>7

(* The server answers, is busy, or the job gives up. *)
LEMMA AnswerKeeps ==
  ASSUME BulksInv,
         ElasticsearchSink!Answered \/ ElasticsearchSink!Rejected \/ ElasticsearchSink!GiveUp
  PROVE  BulksInv'
<1>. BulkTyped /\ OnTheWay /\ StoreSound /\ StoreHolds BY DEF BulksInv
<1>1. /\ Len(elements) \in Nat /\ DOMAIN elements = 1..Len(elements)
      /\ Len(bulk) \in Nat /\ Len(buffer) \in Nat /\ Taken \in Nat
      /\ pos \in 0..Len(elements) /\ elements \in Collected
      /\ buffer \in Seq(Docs) /\ bulk \in Seq(Docs) /\ step \in 1..5 /\ failures \in Nat
      /\ DOMAIN bulk = 1..Len(bulk)
  BY CollectionIs DEF BulkTyped
<1>2. pos = Taken + Len(buffer) + Len(bulk) BY <1>1 DEF Taken
<1>3. elements' = elements /\ step' = step /\ bulk # <<>>
  BY DEF ElasticsearchSink!Answered, ElasticsearchSink!Rejected, ElasticsearchSink!GiveUp
<1>4. pos > 0 /\ step \in 1..4
  <2>1. Len(bulk) > 0 BY <1>1, <1>3
  <2>. QED BY <2>1, <1>1, <1>2 DEF BulkTyped
<1>5. Indexes' = Indexes /\ Docs' = Docs BY <1>3 DEF Indexes, Docs, Doc
<1>6. \A e : ElasticsearchSink!Document(e)' = ElasticsearchSink!Document(e)
  BY <1>3 DEF ElasticsearchSink!Document, ElasticsearchSink!Job, ElasticsearchSink!Jobs
<1>7. \A index : Mine(index)' <=> Mine(index) BY <1>3 DEF Mine
<1>8. <<>> \in Seq(Docs) /\ Len(<<>>) = 0 OBVIOUS
<1>9. ASSUME NEW s, s \subseteq 1..Len(bulk), store' = After(s) PROVE StoreSound'
  <2>1. /\ \A x \in store' : \E index \in Indexes : \E i \in DOMAIN elements :
              Goes(index, elements[i]) /\ x = Doc(index, elements[i])
        /\ \A x, y \in store' : Same(x, y) => x = y
    BY <1>4, <1>9, AfterSound
  <2>. QED BY <2>1, <1>3, <1>5 DEF StoreSound, Goes, Doc, Same
<1>10. CASE ElasticsearchSink!Answered
  <2>1. bulk' = <<>> /\ pos' = pos /\ buffer' = buffer /\ failures' = failures
    BY <1>10 DEF ElasticsearchSink!Answered
  <2>2. store' = After(1..Len(bulk))
    <3>1. store' = ElasticsearchSink!TakeSome(DOMAIN bulk)
      BY <1>10 DEF ElasticsearchSink!Answered
    <3>2. ElasticsearchSink!TakeSome(DOMAIN bulk) = After(DOMAIN bulk \cap DOMAIN bulk)
      BY <1>1, TakenAre
    <3>. QED BY <3>1, <3>2, <1>1
  <2>3. Taken' = Taken + Len(bulk) BY <2>1, <1>1, <1>8 DEF Taken
  <2>4. BulkTyped' BY <2>1, <2>3, <1>1, <1>3, <1>4, <1>5, <1>8 DEF BulkTyped
  <2>5. OnTheWay'
    <3>1. Len(bulk') = 0 BY <2>1, <1>8
    <3>2. \A i \in 1..Len(buffer) : Taken' + Len(bulk') + i = Taken + Len(bulk) + i
      BY <2>3, <3>1, <1>1
    <3>. QED BY <3>1, <3>2, <2>1, <1>3, <1>6 DEF OnTheWay
  <2>6. StoreHolds'
    <3>. SUFFICES ASSUME NEW index \in Indexes
                  PROVE  /\ Mine(index) => Holds(index, Taken)'
                         /\ Finished(index)' => Holds(index, Len(elements))'
      BY <1>3, <1>5, <1>7 DEF StoreHolds
    <3>1. CASE Mine(index)
      <4>1. Holds(index, Taken) BY <3>1, <1>4 DEF StoreHolds
      <4>2. Holds(index, Taken)'
        <5>1. PICK k : k = Taken' OBVIOUS
        <5>2. Holds(index, k)'
          <6>1. k = Taken + Len(bulk) BY <5>1, <2>3
          <6>. QED BY <6>1, <4>1, <3>1, <2>2, <1>3, <1>4, BulkTaken
        <5>3. \A i : LastOf(index, i, k)' <=> LastOf(index, i, Taken)'
          BY <5>1 DEF LastOf
        <5>. QED BY <5>1, <5>2, <5>3 DEF Holds
      <4>3. ~Finished(index)' BY <3>1, <2>1, <1>3, <1>4 DEF Finished, Mine
      <4>. QED BY <4>2, <4>3
    <3>2. CASE ~Mine(index)
      <4>1. Finished(index)' => Finished(index) BY <2>1, <1>3 DEF Finished, Mine
      <4>2. Finished(index) => Holds(index, Len(elements)) BY DEF StoreHolds
      <4>3. Holds(index, Len(elements)) => Holds(index, Len(elements))'
        BY <3>2, <2>2, <1>3, <1>4, OthersHold
      <4>. QED BY <3>2, <4>1, <4>2, <4>3
    <3>. QED BY <3>1, <3>2
  <2>7. StoreSound' BY <2>2, <1>9
  <2>. QED BY <2>4, <2>5, <2>6, <2>7 DEF BulksInv
<1>11. CASE ElasticsearchSink!Rejected
  <2>1. /\ bulk' = bulk /\ pos' = pos /\ buffer' = buffer /\ failures' = failures
        /\ store' = store
    BY <1>11 DEF ElasticsearchSink!Rejected
  <2>2. Taken' = Taken BY <2>1 DEF Taken
  <2>3. BulkTyped' /\ OnTheWay' BY <2>1, <2>2, <1>3, <1>5, <1>6 DEF BulkTyped, OnTheWay
  <2>4. StoreSound' /\ \A index, k : Holds(index, k)' <=> Holds(index, k)
    BY <2>1, <1>3, StoreAlone
  <2>5. StoreHolds' BY <2>1, <2>2, <2>4, <1>3, <1>5 DEF StoreHolds, Finished, Mine
  <2>. QED BY <2>3, <2>4, <2>5 DEF BulksInv
<1>12. CASE ElasticsearchSink!GiveUp
  <2>1. bulk' = <<>> /\ pos' = 0 /\ buffer' = <<>> /\ failures' = failures + 1
    BY <1>12 DEF ElasticsearchSink!GiveUp
  <2>2. PICK s \in SUBSET (1..Len(bulk)) : store' = After(s)
    <3>1. PICK taken \in SUBSET DOMAIN bulk : store' = ElasticsearchSink!TakeSome(taken)
      BY <1>12 DEF ElasticsearchSink!GiveUp
    <3>2. ElasticsearchSink!TakeSome(taken) = After(DOMAIN bulk \cap taken)
      BY <1>1, TakenAre
    <3>. QED BY <3>1, <3>2, <1>1
  <2>3. Taken' = 0
    <3>1. Len(buffer') = 0 /\ Len(bulk') = 0 BY <2>1, <1>8
    <3>. QED BY <3>1, <2>1 DEF Taken
  <2>4. BulkTyped' BY <2>1, <2>3, <1>1, <1>3, <1>5, <1>8 DEF BulkTyped
  <2>5. OnTheWay' BY <2>1, <1>8 DEF OnTheWay
  <2>6. StoreHolds'
    <3>. SUFFICES ASSUME NEW index \in Indexes
                  PROVE  /\ Mine(index) => Holds(index, Taken)'
                         /\ Finished(index)' => Holds(index, Len(elements))'
      BY <1>3, <1>5, <1>7 DEF StoreHolds
    <3>1. Holds(index, Taken)' BY <2>3 DEF Holds
    <3>2. failures' # 0 BY <2>1, <1>1
    <3>3. Finished(index)' => Finished(index) /\ ~Mine(index)
      BY <3>2, <1>3, <1>4 DEF Finished, Mine
    <3>4. Finished(index) => Holds(index, Len(elements)) BY DEF StoreHolds
    <3>5. ~Mine(index) /\ Holds(index, Len(elements)) => Holds(index, Len(elements))'
      BY <2>2, <1>3, <1>4, OthersHold
    <3>. QED BY <3>1, <3>3, <3>4, <3>5
  <2>7. StoreSound' BY <2>2, <1>9
  <2>. QED BY <2>4, <2>5, <2>6, <2>7 DEF BulksInv
<1>. QED BY <1>10, <1>11, <1>12


(* A job is over: its index holds all, and the next one's has not begun.   *)
LEMMA EndKeeps == ASSUME BulksInv, ElasticsearchSink!End PROVE BulksInv'
<1>. BulkTyped /\ OnTheWay /\ StoreSound /\ StoreHolds BY DEF BulksInv
<1>1. /\ Len(elements) \in Nat /\ Taken \in Nat /\ elements \in Collected
      /\ step \in 1..5 /\ failures \in Nat
  BY CollectionIs DEF BulkTyped
<1>2. /\ elements' = elements /\ store' = store /\ step' = step + 1 /\ failures' = 0
      /\ bulk = <<>> /\ bulk' = <<>> /\ buffer = <<>> /\ buffer' = <<>> /\ pos' = 0
      /\ step \in 1..4 /\ pos = Len(elements)
  BY RunningIs, <1>1 DEF ElasticsearchSink!End
<1>3. <<>> \in Seq(Docs) /\ Len(<<>>) = 0 OBVIOUS
<1>4. /\ Len(buffer) = 0 /\ Len(bulk) = 0 /\ Len(buffer') = 0 /\ Len(bulk') = 0
  BY <1>2, <1>3
<1>5. Taken = Len(elements) /\ Taken' = 0
  <2>1. pos' = 0 /\ pos = Len(elements) /\ Len(elements) \in Nat BY <1>1, <1>2
  <2>. QED BY <2>1, <1>4 DEF Taken
<1>6. /\ StoreSound' /\ Indexes' = Indexes /\ Docs' = Docs
      /\ \A index, k : Holds(index, k)' <=> Holds(index, k)
  BY <1>2, StoreAlone
<1>7. BulkTyped' BY <1>1, <1>2, <1>3, <1>5, <1>6 DEF BulkTyped
<1>8. OnTheWay' BY <1>4 DEF OnTheWay
<1>9. StoreHolds'
  <2>. SUFFICES ASSUME NEW index \in Indexes
                PROVE  /\ Holds(index, Taken)'
                       /\ Finished(index)' => Holds(index, Len(elements))
    BY <1>2, <1>6 DEF StoreHolds
  <2>1. Holds(index, Taken)' BY <1>5 DEF Holds
  <2>2. CASE Mine(index)
    <3>1. step < 5 /\ Holds(index, Taken) BY <2>2, <1>2 DEF StoreHolds
    <3>. QED BY <3>1, <2>1, <1>5
  <2>3. CASE ~Mine(index)
    <3>1. Finished(index)' => Finished(index) BY <2>3, <1>2 DEF Finished, Mine
    <3>. QED BY <3>1, <2>1 DEF StoreHolds
  <2>. QED BY <2>2, <2>3
<1>. QED BY <1>6, <1>7, <1>8, <1>9 DEF BulksInv

(* The inductive invariant of the Elasticsearch jobs, for any collections  *)
(* and number of failures.                                                 *)
THEOREM BulksInvariance == Spec => [](which = "bulks" => BulksInv)
<1>. DEFINE Inv == which = "bulks" => BulksInv
<1>1. Init => Inv
  <2>. SUFFICES ASSUME Init, which = "bulks" PROVE BulksInv OBVIOUS
  <2>1. /\ elements \in Collected /\ step = 1 /\ pos = 0 /\ buffer = <<>> /\ bulk = <<>>
        /\ store = {} /\ failures = 0
    BY DEF Init, ElasticsearchSink!Init
  <2>2. <<>> \in Seq(Docs) /\ Len(<<>>) = 0 OBVIOUS
  <2>3. Len(buffer) = 0 /\ Len(bulk) = 0 /\ Len(elements) \in Nat
    BY <2>1, <2>2, CollectionIs
  <2>4. Taken = 0
    <3>1. pos = 0 BY <2>1
    <3>. QED BY <3>1, <2>3 DEF Taken
  <2>5. BulkTyped BY <2>1, <2>2, <2>3, <2>4 DEF BulkTyped
  <2>6. OnTheWay BY <2>3 DEF OnTheWay
  <2>7. StoreSound BY <2>1 DEF StoreSound
  <2>8. StoreHolds BY <2>1, <2>4, HoldsNone DEF StoreHolds, Finished
  <2>. QED BY <2>5, <2>6, <2>7, <2>8 DEF BulksInv
<1>2. Inv /\ [Next]_vars => Inv'
  <2>. SUFFICES ASSUME Inv, [Next]_vars, which' = "bulks" PROVE BulksInv' OBVIOUS
  <2>1. which = "bulks" /\ BulksInv BY WhichStep
  <2>2. CASE UNCHANGED <<elements, step, pos, buffer, bulk, tries, store, failures>>
    <3>1. /\ elements' = elements /\ step' = step /\ pos' = pos /\ buffer' = buffer
          /\ bulk' = bulk /\ store' = store /\ failures' = failures
      BY <2>2
    <3>2. /\ StoreSound' /\ Indexes' = Indexes /\ Docs' = Docs
          /\ \A index, k : Holds(index, k)' <=> Holds(index, k)
      BY <3>1, <2>1, StoreAlone DEF BulksInv
    <3>3. Taken' = Taken BY <3>1 DEF Taken
    <3>4. BulkTyped' BY <3>1, <3>2, <3>3, <2>1 DEF BulksInv, BulkTyped
    <3>5. OnTheWay' BY <3>1, <3>3, <2>1
      DEF BulksInv, OnTheWay, ElasticsearchSink!Document, ElasticsearchSink!Job
    <3>6. StoreHolds' BY <3>1, <3>2, <3>3, <2>1 DEF BulksInv, StoreHolds, Finished, Mine
    <3>. QED BY <3>2, <3>4, <3>5, <3>6 DEF BulksInv
  <2>3. CASE ElasticsearchSink!Next
    BY <2>1, <2>3, EmitKeeps, AnswerKeeps, EndKeeps DEF ElasticsearchSink!Next
  <2>. QED BY <2>1, <2>2, <2>3, BulksStep
<1>. QED BY <1>1, <1>2, PTL DEF Spec

(* When a job is over, every index it writes holds the last element of     *)
(* every id, once, whatever was retried, repeated or half done.            *)
THEOREM AlwaysIndexed == Spec => []DocumentsExact
<1>1. (which = "bulks" => BulksInv) => DocumentsExact
  <2>. SUFFICES ASSUME which = "bulks", BulksInv, NEW index \in Indexes, Finished(index)
                PROVE  {d.doc : d \in {x \in store : x.index = index}}
                         = ElasticsearchSink!Wanted(index)
    BY DEF DocumentsExact, ElasticsearchSink!DocumentsExact, Indexes, Finished
  <2>. DEFINE n == Len(elements)
  <2>1. n \in Nat /\ DOMAIN elements = 1..n BY CollectionIs DEF BulksInv, BulkTyped
  <2>2. Holds(index, n) BY DEF BulksInv, StoreHolds
  <2>. HIDE DEF n
  <2>3. \A e : Doc(index, e).doc = e /\ Doc(index, e).index = index /\ Doc(index, e).id = e.id
    BY DEF Doc
  <2>4. \A e : e \in ElasticsearchSink!Wanted(index) <=>
          \E i \in 1..n : e = elements[i] /\ LastOf(index, i, n)
    <3>. SUFFICES ASSUME NEW e
                  PROVE  e \in ElasticsearchSink!Wanted(index) <=>
                           \E i \in 1..n : e = elements[i] /\ LastOf(index, i, n)
      OBVIOUS
    <3>1. e \in ElasticsearchSink!Wanted(index) <=>
            /\ Goes(index, e)
            /\ \E i \in 1..n : /\ elements[i] = e
                               /\ \A j \in 1..n : j > i /\ elements[j].id = e.id =>
                                    ~Goes(index, elements[j])
      BY <2>1 DEF ElasticsearchSink!Wanted, ElasticsearchSink!ToSet, Goes
    <3>2. \A i \in 1..n : LastOf(index, i, n) <=>
            /\ Goes(index, elements[i])
            /\ \A j \in 1..n : j > i /\ elements[j].id = elements[i].id =>
                 ~Goes(index, elements[j])
      <4>1. \A i \in 1..n : \A j : j \in (i + 1)..n <=> j \in 1..n /\ j > i BY <2>1
      <4>. QED BY <4>1 DEF LastOf
    <3>. QED BY <3>1, <3>2
  <2>5. ASSUME NEW x \in store, x.index = index
        PROVE  x.doc \in ElasticsearchSink!Wanted(index)
    <3>1. PICK other \in Indexes, i \in 1..n : Goes(other, elements[i]) /\ x = Doc(other, elements[i])
      BY <2>1 DEF BulksInv, StoreSound
    <3>2. other = index BY <3>1, <2>5 DEF Doc
    <3>. DEFINE T == {j \in 1..n : Goes(index, elements[j]) /\ elements[j].id = elements[i].id}
                m == ElasticsearchSink!Max(T)
    <3>3. m \in T /\ \A y \in T : y =< m
      <4>1. T \subseteq 1..n /\ T # {} BY <3>1, <3>2
      <4>. HIDE DEF T
      <4>. QED BY <4>1, <2>1, LastPlace
    <3>4. m \in 1..n /\ elements[m].id = elements[i].id /\ Goes(index, elements[m])
      <4>. HIDE DEF m
      <4>. QED BY <3>3
    <3>5. LastOf(index, m, n)
      <4>. SUFFICES ASSUME NEW j \in (m + 1)..n, elements[j].id = elements[m].id,
                           Goes(index, elements[j])
                    PROVE  FALSE
        BY <3>4 DEF LastOf
      <4>. HIDE DEF m
      <4>1. j \in T BY <3>4, <2>1
      <4>2. j =< m
        <5>. HIDE DEF T
        <5>. QED BY <4>1, <3>3
      <4>. QED BY <4>2, <3>4, <2>1
    <3>. HIDE DEF m
    <3>6. Doc(index, elements[m]) \in store BY <3>4, <3>5, <2>2 DEF Holds
    <3>7. x = Doc(index, elements[m])
      BY <3>1, <3>2, <3>4, <3>6, <2>3 DEF BulksInv, StoreSound, Same
    <3>. QED BY <3>4, <3>5, <3>7, <2>3, <2>4
  <2>6. ASSUME NEW e \in ElasticsearchSink!Wanted(index)
        PROVE  Doc(index, e) \in store
    BY <2>2, <2>4 DEF Holds
  <2>. QED BY <2>3, <2>5, <2>6
<1>. QED BY <1>1, BulksInvariance, PTL

-------------------------------------------------------------------------------
(* The grouped aggregates *)

(* Folds over the places D of a sequence, from the base b on, by a function *)
(* of what there is and the place of the next one.                         *)
Folds(g, b, D, it) ==
  it = [s \in SUBSET D |->
          IF s = {} THEN b
          ELSE g[<<it[s \ {ElasticsearchSink!Max(s)}], ElasticsearchSink!Max(s)>>]]

(* The places 1 to i without their last one. *)
LEMMA LastOfInterval ==
  ASSUME NEW n \in Nat
  PROVE  \A i \in 1..n : ElasticsearchSink!Max(1..i) = i /\ (1..i) \ {i} = 1..(i - 1)
<1>. SUFFICES ASSUME NEW i \in 1..n
     PROVE  ElasticsearchSink!Max(1..i) = i /\ (1..i) \ {i} = 1..(i - 1)
  OBVIOUS
<1>1. i \in Nat /\ i \in 1..i /\ 1..i \subseteq 1..i /\ 1..i # {} OBVIOUS
<1>. DEFINE T == 1..i
            m == ElasticsearchSink!Max(T)
<1>2. m \in T /\ \A y \in T : y =< m
  <2>. HIDE DEF T
  <2>. QED BY <1>1, LastPlace DEF T
<1>. HIDE DEF m
<1>3. m = i BY <1>1, <1>2
<1>. QED BY <1>1, <1>3 DEF m

(* There is such a fold. *)
LEMMA FoldsExist ==
  ASSUME NEW g, NEW b, NEW D, IsFiniteSet(D),
         \A s \in SUBSET D : s # {} => ElasticsearchSink!Max(s) \in s
  PROVE  \E it : Folds(g, b, D, it)
<1>. DEFINE F(S, it) == it = [s \in SUBSET S |->
              IF s = {} THEN b
              ELSE g[<<it[s \ {ElasticsearchSink!Max(s)}], ElasticsearchSink!Max(s)>>]]
            bad == {s \in SUBSET D : ~ \E it : F(s, it)}
<1>1. SUFFICES ASSUME bad # {} PROVE FALSE
  <2>1. D \in SUBSET D OBVIOUS
  <2>. QED BY <2>1 DEF Folds
<1>2. PICK m \in bad : \A u \in bad : u \subseteq m => u = m
  <2>1. bad \subseteq SUBSET D OBVIOUS
  <2>. HIDE DEF bad
  <2>. QED BY <1>1, <2>1, LeastSet
<1>3. m \in SUBSET D /\ ~ \E it : F(m, it) OBVIOUS
<1>. DEFINE X(s) == ElasticsearchSink!Max(s)
            part  == [s \in SUBSET m |-> CHOOSE it : F(s, it)]
            whole == [s \in SUBSET m |->
                        IF s = {} THEN b ELSE g[<<part[s \ {X(s)}][s \ {X(s)}], X(s)>>]]
<1>4. ASSUME NEW s \in SUBSET m, s # {} PROVE X(s) \in s BY <1>3, <1>4
<1>5. ASSUME NEW s \in SUBSET m, s # m PROVE F(s, part[s])
  <2>1. s \in SUBSET D /\ s \notin bad
    <3>. HIDE DEF bad
    <3>. QED BY <1>2, <1>3, <1>5
  <2>2. \E it : F(s, it) BY <2>1
  <2>3. part[s] = CHOOSE it : F(s, it) OBVIOUS
  <2>. HIDE DEF F, part
  <2>. QED BY <2>2, <2>3
<1>. HIDE DEF part
(* Where two of the parts are defined they agree. *)
<1>6. ASSUME NEW s \in SUBSET m, s # m, NEW t \in SUBSET s
      PROVE  part[s][t] = part[t][t]
  <2>. DEFINE apart == {u \in SUBSET t : part[s][u] # part[t][u]}
  <2>. SUFFICES ASSUME apart # {} PROVE FALSE OBVIOUS
  <2>1. apart \subseteq SUBSET D BY <1>3, <1>6
  <2>2. PICK u \in apart : \A w \in apart : w \subseteq u => w = u
    <3>. HIDE DEF apart
    <3>. QED BY <2>1, LeastSet
  <2>3. u \in SUBSET t /\ u \in SUBSET s /\ u \in SUBSET m BY <1>6
  <2>4. F(s, part[s]) /\ F(t, part[t]) BY <1>5, <1>6
  <2>5. CASE u = {}
    <3>1. part[s][u] = b /\ part[t][u] = b BY <2>3, <2>4, <2>5
    <3>. QED BY <2>2, <3>1
  <2>6. CASE u # {}
    <3>. DEFINE w == u \ {X(u)}
    <3>1. X(u) \in u BY <1>4, <2>3, <2>6
    <3>2. w \subseteq u /\ w # u /\ w \in SUBSET t BY <2>3, <3>1
    <3>3. part[s][w] = part[t][w]
      <4>. HIDE DEF w
      <4>. QED BY <2>2, <3>2
    <3>4. part[s][u] = g[<<part[s][w], X(u)>>] /\ part[t][u] = g[<<part[t][w], X(u)>>]
      BY <2>3, <2>4, <2>6
    <3>. QED BY <2>2, <3>3, <3>4
  <2>. QED BY <2>5, <2>6
<1>7. ASSUME NEW s \in SUBSET m, s # m PROVE whole[s] = part[s][s]
  <2>1. F(s, part[s]) /\ s \in SUBSET s BY <1>5, <1>7
  <2>2. CASE s = {} BY <2>1, <2>2
  <2>3. CASE s # {}
    <3>. DEFINE t == s \ {X(s)}
    <3>1. t \in SUBSET s /\ t \in SUBSET m BY <1>7
    <3>2. part[s][s] = g[<<part[s][t], X(s)>>] BY <2>1, <2>3
    <3>3. part[s][t] = part[t][t] BY <1>6, <1>7, <3>1
    <3>. QED BY <2>3, <3>2, <3>3
  <2>. QED BY <2>2, <2>3
<1>8. ASSUME NEW s \in SUBSET m, s # {}
      PROVE  whole[s] = g[<<whole[s \ {X(s)}], X(s)>>]
  <2>1. X(s) \in s BY <1>4, <1>8
  <2>2. s \ {X(s)} \in SUBSET m /\ s \ {X(s)} # m BY <2>1
  <2>3. whole[s \ {X(s)}] = part[s \ {X(s)}][s \ {X(s)}] BY <1>7, <2>2
  <2>4. whole[s] = g[<<part[s \ {X(s)}][s \ {X(s)}], X(s)>>] BY <1>8
  <2>. QED BY <2>3, <2>4
<1>9. F(m, whole)
  <2>1. whole[{}] = b OBVIOUS
  <2>. QED BY <1>8
<1>. QED BY <1>3, <1>9


(* The largest place is the same in that module. *)
LEMMA SameMax == \A S : GroupedTable!Max(S) = ElasticsearchSink!Max(S)
BY DEF GroupedTable!Max, ElasticsearchSink!Max

(* With values in S there is one whose values are in S. *)
LEMMA TypedFold ==
  ASSUME NEW n \in Nat, NEW S, NEW g \in [S \X (1..n) -> S], NEW b \in S
  PROVE  \E h : /\ Folds(g, b, 1..n, h)
                /\ \A s \in SUBSET (1..n) : h[s] \in S
<1>. DEFINE X(s) == ElasticsearchSink!Max(s)
<1>2. \A s \in SUBSET (1..n) : s # {} => X(s) \in s BY LastPlace
<1>3. IsFiniteSet(1..n) BY FS_Interval
<1>4. PICK h : Folds(g, b, 1..n, h)
  <2>. DEFINE D == 1..n
  <2>1. IsFiniteSet(D) /\ \A s \in SUBSET D : s # {} => ElasticsearchSink!Max(s) \in s
    BY <1>2, <1>3
  <2>. HIDE DEF D
  <2>2. \E it : Folds(g, b, D, it) BY <2>1, FoldsExist
  <2>. QED BY <2>2 DEF D
<1>5. ASSUME NEW s \in SUBSET (1..n) PROVE h[s] \in S
  <2>. DEFINE bad == {u \in SUBSET (1..n) : h[u] \notin S}
  <2>. SUFFICES ASSUME bad # {} PROVE FALSE OBVIOUS
  <2>1. bad \subseteq SUBSET (1..n) OBVIOUS
  <2>2. PICK m \in bad : \A u \in bad : u \subseteq m => u = m
    <3>. DEFINE D == 1..n
    <3>1. IsFiniteSet(D) /\ bad \subseteq SUBSET D BY <1>3, <2>1
    <3>. HIDE DEF bad, D
    <3>. QED BY <3>1, LeastSet
  <2>3. m \in SUBSET (1..n) /\ h[m] \notin S OBVIOUS
  <2>4. m # {} BY <1>4, <2>3 DEF Folds
  <2>5. X(m) \in m /\ X(m) \in 1..n BY <1>2, <2>3, <2>4
  <2>6. h[m \ {X(m)}] \in S
    <3>1. m \ {X(m)} \subseteq m /\ m \ {X(m)} # m BY <2>5
    <3>2. m \ {X(m)} \notin bad
      <4>. HIDE DEF bad
      <4>. QED BY <2>2, <3>1
    <3>. QED BY <2>3, <3>2
  <2>7. h[m] = g[<<h[m \ {X(m)}], X(m)>>] BY <1>4, <2>3, <2>4 DEF Folds
  <2>8. <<h[m \ {X(m)}], X(m)>> \in S \X (1..n) BY <2>5, <2>6
  <2>. HIDE DEF X
  <2>. QED BY <2>3, <2>7, <2>8
<1>. QED BY <1>4, <1>5

(* A function that follows g from b on, as long as its values are in S.    *)
Follows(n, S, g, b, f) ==
  /\ f[{}] = b
  /\ \A s \in SUBSET (1..n) :
       s # {} /\ f[s \ {ElasticsearchSink!Max(s)}] \in S
         => f[s] = g[<<f[s \ {ElasticsearchSink!Max(s)}], ElasticsearchSink!Max(s)>>]

(* One that goes through the places one by one. *)
GoesThrough(n, S, g, b, f) ==
  /\ [i \in 0..n |-> f[1..i]] \in [0..n -> S] /\ f[1..0] = b
  /\ \A i \in 1..n : f[1..i] = g[<<f[1..(i - 1)], i>>]

(* Its values are in S, and it does. *)
LEMMA FoldSteps ==
  ASSUME NEW n \in Nat, NEW S, NEW g \in [S \X (1..n) -> S], NEW b \in S, NEW f,
         Follows(n, S, g, b, f)
  PROVE  GoesThrough(n, S, g, b, f)
<1>. USE DEF Follows
<1>9. f[1..0] = b
  <2>1. 1..0 = {} OBVIOUS
  <2>. QED BY <2>1
<1>10. ASSUME NEW i \in 1..n, f[1..(i - 1)] \in S PROVE f[1..i] = g[<<f[1..(i - 1)], i>>]
  <2>1. 1..i \in SUBSET (1..n) /\ 1..i # {} OBVIOUS
  <2>2. ElasticsearchSink!Max(1..i) = i /\ (1..i) \ {i} = 1..(i - 1) BY LastOfInterval
  <2>. DEFINE s == 1..i
  <2>3. f[s \ {ElasticsearchSink!Max(s)}] \in S BY <1>10, <2>2
  <2>4. f[s] = g[<<f[s \ {ElasticsearchSink!Max(s)}], ElasticsearchSink!Max(s)>>]
    <3>. HIDE DEF s
    <3>. QED BY <2>1, <2>3 DEF s
  <2>. QED BY <2>2, <2>4
<1>11. \A i \in 0..n : f[1..i] \in S
  <2>. DEFINE bad == {i \in 0..n : f[1..i] \notin S}
  <2>. SUFFICES ASSUME bad # {} PROVE FALSE OBVIOUS
  <2>1. bad \subseteq Nat OBVIOUS
  <2>2. PICK m \in bad : \A i \in bad : m =< i
    <3>. HIDE DEF bad
    <3>. QED BY <2>1, LeastNumber
  <2>3. m \in 0..n /\ f[1..m] \notin S OBVIOUS
  <2>4. m # 0 BY <1>9, <2>3
  <2>5. m \in 1..n /\ m - 1 \in 0..n BY <2>3, <2>4
  <2>6. f[1..(m - 1)] \in S
    <3>1. m - 1 \notin bad
      <4>. HIDE DEF bad
      <4>. QED BY <2>2, <2>5
    <3>. QED BY <2>5, <3>1
  <2>7. f[1..m] = g[<<f[1..(m - 1)], m>>] BY <1>10, <2>5, <2>6
  <2>8. <<f[1..(m - 1)], m>> \in S \X (1..n) BY <2>5, <2>6
  <2>. QED BY <2>3, <2>7, <2>8
<1>12. \A i \in 1..n : f[1..i] = g[<<f[1..(i - 1)], i>>]
  <2>. SUFFICES ASSUME NEW i \in 1..n PROVE f[1..i] = g[<<f[1..(i - 1)], i>>] OBVIOUS
  <2>1. i - 1 \in 0..n OBVIOUS
  <2>. QED BY <1>10, <1>11, <2>1
<1>. QED BY <1>9, <1>11, <1>12 DEF GoesThrough

(* The accumulator after each of n numbers accumulates. *)
Accumulators(n, t, a, p) ==
  /\ p \in [0..n -> Int \X Int] /\ p[0] = a
  /\ \A i \in 1..n : p[i] = GroupedTable!CountAndSum(p[i - 1], t[i])

(* The fold that accumulates n numbers goes through such accumulators.     *)
LEMMA AccumulatesAll ==
  ASSUME NEW n \in Nat, NEW t \in [1..n -> Int], NEW a \in Int \X Int
  PROVE  \E p : /\ Accumulators(n, t, a, p)
                /\ GroupedTable!FoldLeft(GroupedTable!CountAndSum, a, t) = p[n]
<1>. DEFINE X(s) == ElasticsearchSink!Max(s)
            S == Int \X Int
            folded(it) == it = [s \in SUBSET (1..n) |->
              IF s = {} THEN a ELSE GroupedTable!CountAndSum(it[s \ {X(s)}], t[X(s)])]
            f == CHOOSE it : folded(it)
            g == [x \in S \X (1..n) |-> GroupedTable!CountAndSum(x[1], t[x[2]])]
<1>1. GroupedTable!FoldLeft(GroupedTable!CountAndSum, a, t) = f[1..n]
  <2>. DEFINE real(it) == it = [s \in SUBSET DOMAIN t |->
                IF s = {} THEN a
                ELSE GroupedTable!CountAndSum(it[s \ {GroupedTable!Max(s)}],
                                              t[GroupedTable!Max(s)])]
  <2>1. GroupedTable!FoldLeft(GroupedTable!CountAndSum, a, t) = (CHOOSE it : real(it))[DOMAIN t]
    BY DEF GroupedTable!FoldLeft, GroupedTable!MapThenFoldSet
  <2>2. \A it : real(it) <=> folded(it) BY SameMax
  <2>. HIDE DEF real, folded
  <2>3. (CHOOSE it : real(it)) = f BY <2>2
  <2>. QED BY <2>1, <2>3
<1>2. g \in [S \X (1..n) -> S] /\ a \in S
  <2>1. \A x \in Int \X Int, y \in Int : GroupedTable!CountAndSum(x, y) \in Int \X Int
    BY DEF GroupedTable!CountAndSum
  <2>2. \A x \in S \X (1..n) : GroupedTable!CountAndSum(x[1], t[x[2]]) \in S BY <2>1
  <2>. QED BY <2>2
<1>3. \A x \in S, i \in 1..n : g[<<x, i>>] = GroupedTable!CountAndSum(x, t[i]) OBVIOUS
<1>4. PICK h : Folds(g, a, 1..n, h) /\ \A s \in SUBSET (1..n) : h[s] \in S
  <2>. HIDE DEF g, S
  <2>. QED BY <1>2, TypedFold
<1>5. \A s \in SUBSET (1..n) : s # {} => X(s) \in s /\ X(s) \in 1..n /\ s \ {X(s)} \in SUBSET (1..n)
  BY LastPlace
<1>. HIDE DEF g, S, X
<1>6. folded(h)
  <2>1. h = [s \in SUBSET (1..n) |-> IF s = {} THEN a ELSE g[<<h[s \ {X(s)}], X(s)>>]]
    BY <1>4 DEF Folds, X
  <2>. QED BY <1>3, <1>4, <1>5, <2>1
<1>7. folded(f)
  <2>. HIDE DEF folded
  <2>. QED BY <1>6
<1>8. f = [s \in SUBSET (1..n) |->
             IF s = {} THEN a ELSE GroupedTable!CountAndSum(f[s \ {X(s)}], t[X(s)])]
  <2>1. \A it : folded(it) => it = [s \in SUBSET (1..n) |->
             IF s = {} THEN a ELSE GroupedTable!CountAndSum(it[s \ {X(s)}], t[X(s)])]
    OBVIOUS
  <2>. HIDE DEF folded, f
  <2>. QED BY <1>7, <2>1
<1>. HIDE DEF f
<1>9. f[{}] = a BY <1>8
<1>10. \A s \in SUBSET (1..n) :
         s # {} /\ f[s \ {X(s)}] \in S => f[s] = g[<<f[s \ {X(s)}], X(s)>>]
  BY <1>3, <1>5, <1>8
<1>. DEFINE p == [i \in 0..n |-> f[1..i]]
<1>11. p \in [0..n -> S] /\ f[1..0] = a /\ \A i \in 1..n : f[1..i] = g[<<f[1..(i - 1)], i>>]
  <2>. HIDE DEF p
  <2>1. [i \in 0..n |-> f[1..i]] \in [0..n -> S] /\ f[1..0] = a
        /\ \A i \in 1..n : f[1..i] = g[<<f[1..(i - 1)], i>>]
    <3>1. Follows(n, S, g, a, f) BY <1>9, <1>10 DEF X, Follows
    <3>2. GoesThrough(n, S, g, a, f) BY <1>2, <3>1, FoldSteps
    <3>. QED BY <3>2 DEF GoesThrough
  <2>. QED BY <2>1 DEF p
<1>12. Accumulators(n, t, a, p)
  <2>1. p[0] = a BY <1>11
  <2>2. \A i \in 1..n : p[i] = GroupedTable!CountAndSum(p[i - 1], t[i])
    <3>. SUFFICES ASSUME NEW i \in 1..n PROVE p[i] = GroupedTable!CountAndSum(p[i - 1], t[i])
      OBVIOUS
    <3>1. i \in 0..n /\ i - 1 \in 0..n OBVIOUS
    <3>2. p[i] = f[1..i] /\ p[i - 1] = f[1..(i - 1)] BY <3>1
    <3>3. f[1..(i - 1)] \in S BY <1>11, <3>1
    <3>. QED BY <1>3, <1>11, <3>2, <3>3
  <2>. QED BY <1>11, <2>1, <2>2 DEF Accumulators, S
<1>13. p[n] = f[1..n] OBVIOUS
<1>. QED BY <1>1, <1>12, <1>13

(* The accumulator after each of n numbers retracts. *)
Retractions(n, t, a, p) ==
  /\ p \in [0..n -> Int \X Int] /\ p[0] = a
  /\ \A i \in 1..n : p[i] = GroupedTable!Retract(p[i - 1], t[i])

(* The fold that retracts n numbers goes through such accumulators.     *)
LEMMA RetractsAll ==
  ASSUME NEW n \in Nat, NEW t \in [1..n -> Int], NEW a \in Int \X Int
  PROVE  \E p : /\ Retractions(n, t, a, p)
                /\ GroupedTable!FoldLeft(GroupedTable!Retract, a, t) = p[n]
<1>. DEFINE X(s) == ElasticsearchSink!Max(s)
            S == Int \X Int
            folded(it) == it = [s \in SUBSET (1..n) |->
              IF s = {} THEN a ELSE GroupedTable!Retract(it[s \ {X(s)}], t[X(s)])]
            f == CHOOSE it : folded(it)
            g == [x \in S \X (1..n) |-> GroupedTable!Retract(x[1], t[x[2]])]
<1>1. GroupedTable!FoldLeft(GroupedTable!Retract, a, t) = f[1..n]
  <2>. DEFINE real(it) == it = [s \in SUBSET DOMAIN t |->
                IF s = {} THEN a
                ELSE GroupedTable!Retract(it[s \ {GroupedTable!Max(s)}],
                                              t[GroupedTable!Max(s)])]
  <2>1. GroupedTable!FoldLeft(GroupedTable!Retract, a, t) = (CHOOSE it : real(it))[DOMAIN t]
    BY DEF GroupedTable!FoldLeft, GroupedTable!MapThenFoldSet
  <2>2. \A it : real(it) <=> folded(it) BY SameMax
  <2>. HIDE DEF real, folded
  <2>3. (CHOOSE it : real(it)) = f BY <2>2
  <2>. QED BY <2>1, <2>3
<1>2. g \in [S \X (1..n) -> S] /\ a \in S
  <2>1. \A x \in Int \X Int, y \in Int : GroupedTable!Retract(x, y) \in Int \X Int
    BY DEF GroupedTable!Retract
  <2>2. \A x \in S \X (1..n) : GroupedTable!Retract(x[1], t[x[2]]) \in S BY <2>1
  <2>. QED BY <2>2
<1>3. \A x \in S, i \in 1..n : g[<<x, i>>] = GroupedTable!Retract(x, t[i]) OBVIOUS
<1>4. PICK h : Folds(g, a, 1..n, h) /\ \A s \in SUBSET (1..n) : h[s] \in S
  <2>. HIDE DEF g, S
  <2>. QED BY <1>2, TypedFold
<1>5. \A s \in SUBSET (1..n) : s # {} => X(s) \in s /\ X(s) \in 1..n /\ s \ {X(s)} \in SUBSET (1..n)
  BY LastPlace
<1>. HIDE DEF g, S, X
<1>6. folded(h)
  <2>1. h = [s \in SUBSET (1..n) |-> IF s = {} THEN a ELSE g[<<h[s \ {X(s)}], X(s)>>]]
    BY <1>4 DEF Folds, X
  <2>. QED BY <1>3, <1>4, <1>5, <2>1
<1>7. folded(f)
  <2>. HIDE DEF folded
  <2>. QED BY <1>6
<1>8. f = [s \in SUBSET (1..n) |->
             IF s = {} THEN a ELSE GroupedTable!Retract(f[s \ {X(s)}], t[X(s)])]
  <2>1. \A it : folded(it) => it = [s \in SUBSET (1..n) |->
             IF s = {} THEN a ELSE GroupedTable!Retract(it[s \ {X(s)}], t[X(s)])]
    OBVIOUS
  <2>. HIDE DEF folded, f
  <2>. QED BY <1>7, <2>1
<1>. HIDE DEF f
<1>9. f[{}] = a BY <1>8
<1>10. \A s \in SUBSET (1..n) :
         s # {} /\ f[s \ {X(s)}] \in S => f[s] = g[<<f[s \ {X(s)}], X(s)>>]
  BY <1>3, <1>5, <1>8
<1>. DEFINE p == [i \in 0..n |-> f[1..i]]
<1>11. p \in [0..n -> S] /\ f[1..0] = a /\ \A i \in 1..n : f[1..i] = g[<<f[1..(i - 1)], i>>]
  <2>. HIDE DEF p
  <2>1. [i \in 0..n |-> f[1..i]] \in [0..n -> S] /\ f[1..0] = a
        /\ \A i \in 1..n : f[1..i] = g[<<f[1..(i - 1)], i>>]
    <3>1. Follows(n, S, g, a, f) BY <1>9, <1>10 DEF X, Follows
    <3>2. GoesThrough(n, S, g, a, f) BY <1>2, <3>1, FoldSteps
    <3>. QED BY <3>2 DEF GoesThrough
  <2>. QED BY <2>1 DEF p
<1>12. Retractions(n, t, a, p)
  <2>1. p[0] = a BY <1>11
  <2>2. \A i \in 1..n : p[i] = GroupedTable!Retract(p[i - 1], t[i])
    <3>. SUFFICES ASSUME NEW i \in 1..n PROVE p[i] = GroupedTable!Retract(p[i - 1], t[i])
      OBVIOUS
    <3>1. i \in 0..n /\ i - 1 \in 0..n OBVIOUS
    <3>2. p[i] = f[1..i] /\ p[i - 1] = f[1..(i - 1)] BY <3>1
    <3>3. f[1..(i - 1)] \in S BY <1>11, <3>1
    <3>. QED BY <1>3, <1>11, <3>2, <3>3
  <2>. QED BY <1>11, <2>1, <2>2 DEF Retractions, S
<1>13. p[n] = f[1..n] OBVIOUS
<1>. QED BY <1>1, <1>12, <1>13

(* Merging one other accumulator adds its count and its sum. *)
LEMMA MergedOne ==
  ASSUME NEW a \in Int \X Int, NEW c \in Int \X Int
  PROVE  GroupedTable!Merge(a, <<c>>) = <<a[1] + c[1], a[2] + c[2]>>
<1>. DEFINE w == <<c>>
            X(s) == GroupedTable!Max(s)
            sum(x, y) == <<x[1] + y[1], x[2] + y[2]>>
            folded(it) == it = [s \in SUBSET DOMAIN w |->
              IF s = {} THEN a
              ELSE <<it[s \ {X(s)}][1] + w[X(s)][1], it[s \ {X(s)}][2] + w[X(s)][2]>>]
            f == CHOOSE it : folded(it)
            h == [s \in SUBSET DOMAIN w |-> IF s = {} THEN a ELSE sum(a, c)]
<1>1. GroupedTable!Merge(a, w) = f[DOMAIN w]
  BY DEF GroupedTable!Merge, GroupedTable!FoldLeft, GroupedTable!MapThenFoldSet
<1>2. DOMAIN w = {1} /\ w[1] = c OBVIOUS
<1>3. X({1}) = 1 BY DEF GroupedTable!Max
<1>4. \A s \in SUBSET DOMAIN w : s = {} \/ s = {1} BY <1>2
<1>5. {1} \ {1} = {} /\ {1} # {} OBVIOUS
<1>. HIDE DEF X, w
<1>6. folded(h)
  <2>. SUFFICES ASSUME NEW s \in SUBSET DOMAIN w
       PROVE h[s] = IF s = {} THEN a
                    ELSE <<h[s \ {X(s)}][1] + w[X(s)][1], h[s \ {X(s)}][2] + w[X(s)][2]>>
    OBVIOUS
  <2>1. h[{}] = a /\ h[{1}] = sum(a, c) BY <1>2, <1>5
  <2>. HIDE DEF h
  <2>2. CASE s = {} BY <2>1, <2>2
  <2>3. CASE s = {1}
    <3>1. X(s) = 1 /\ s \ {X(s)} = {} BY <1>3, <1>5, <2>3
    <3>. QED BY <1>2, <1>5, <2>1, <2>3, <3>1
  <2>. QED BY <1>4, <2>2, <2>3
<1>7. folded(f)
  <2>. HIDE DEF folded, h
  <2>. QED BY <1>6
<1>8. \A s \in SUBSET DOMAIN w :
        f[s] = IF s = {} THEN a
               ELSE <<f[s \ {X(s)}][1] + w[X(s)][1], f[s \ {X(s)}][2] + w[X(s)][2]>>
  <2>1. \A it : folded(it) => \A s \in SUBSET DOMAIN w :
        it[s] = IF s = {} THEN a
               ELSE <<it[s \ {X(s)}][1] + w[X(s)][1], it[s \ {X(s)}][2] + w[X(s)][2]>>
    OBVIOUS
  <2>. HIDE DEF folded, f
  <2>. QED BY <1>7, <2>1
<1>. HIDE DEF f
<1>9. f[{}] = a BY <1>2, <1>8
<1>10. f[{1}] = <<a[1] + c[1], a[2] + c[2]>>
  <2>1. {1} \in SUBSET DOMAIN w BY <1>2
  <2>2. f[{1}] = <<f[{1} \ {1}][1] + w[1][1], f[{1} \ {1}][2] + w[1][2]>>
    BY <1>3, <1>5, <1>8, <2>1
  <2>. QED BY <1>2, <1>5, <1>9, <2>2
<1>11. GroupedTable!Merge(a, w) = <<a[1] + c[1], a[2] + c[2]>> BY <1>1, <1>2, <1>10
<1>. QED BY <1>11 DEF w

(* Numbers, and m of them that are those of t after the first k.           *)
Numbers(n, t) == \A i \in 1..n : t[i] \in Int
Part(m, u, k, t) == \A i \in 1..m : u[i] = t[k + i]

(* Two sequences of accumulators from the same one on, over the same       *)
(* numbers, are the same as far as both go.                                *)
LEMMA SameAccumulators ==
  ASSUME NEW n \in Nat, NEW k \in 0..n, NEW t, NEW u, NEW a, NEW p, NEW q,
         Numbers(n, t), Part(k, u, 0, t),
         Accumulators(n, t, a, p), Accumulators(k, u, a, q)
  PROVE  q[k] = p[k]
<1>. USE DEF Accumulators
<1>0. (\A i \in 1..n : t[i] \in Int) /\ \A i \in 1..k : u[i] = t[i]
  BY DEF Numbers, Part
<1>1. \A i \in 0..k : q[i] = p[i]
  <2>. DEFINE bad == {i \in 0..k : q[i] # p[i]}
  <2>. SUFFICES ASSUME bad # {} PROVE FALSE OBVIOUS
  <2>1. bad \subseteq Nat OBVIOUS
  <2>2. PICK m \in bad : \A i \in bad : m =< i
    <3>. HIDE DEF bad
    <3>. QED BY <2>1, LeastNumber
  <2>3. m \in 0..k /\ q[m] # p[m] OBVIOUS
  <2>4. m # 0 BY <2>3
  <2>5. m \in 1..k /\ m \in 1..n /\ m - 1 \in 0..k BY <2>3, <2>4
  <2>6. q[m - 1] = p[m - 1]
    <3>1. m - 1 \notin bad
      <4>. HIDE DEF bad
      <4>. QED BY <2>2, <2>5
    <3>. QED BY <2>5, <3>1
  <2>. QED BY <1>0, <2>3, <2>5, <2>6
<1>. QED BY <1>1

(* Accumulating the rest from nothing on gives what it adds to the whole.  *)
LEMMA RestAccumulates ==
  ASSUME NEW n \in Nat, NEW k \in 0..n, NEW t, NEW u, NEW p, NEW q,
         Numbers(n, t), Part(n - k, u, k, t),
         Accumulators(n, t, <<0, 0>>, p), Accumulators(n - k, u, <<0, 0>>, q)
  PROVE  p[n] = <<p[k][1] + q[n - k][1], p[k][2] + q[n - k][2]>>
<1>. USE DEF Accumulators
<1>0. (\A i \in 1..n : t[i] \in Int) /\ \A i \in 1..(n - k) : u[i] = t[k + i]
  BY DEF Numbers, Part
<1>1. n - k \in Nat OBVIOUS
<1>2. \A i \in 0..(n - k) : p[k + i] = <<p[k][1] + q[i][1], p[k][2] + q[i][2]>>
  <2>. DEFINE bad == {i \in 0..(n - k) : p[k + i] # <<p[k][1] + q[i][1], p[k][2] + q[i][2]>>}
  <2>. SUFFICES ASSUME bad # {} PROVE FALSE OBVIOUS
  <2>1. bad \subseteq Nat OBVIOUS
  <2>2. PICK m \in bad : \A i \in bad : m =< i
    <3>. HIDE DEF bad
    <3>. QED BY <2>1, LeastNumber
  <2>3. m \in 0..(n - k) /\ p[k + m] # <<p[k][1] + q[m][1], p[k][2] + q[m][2]>> OBVIOUS
  <2>0. p[k] \in Int \X Int /\ p[k][1] \in Int /\ p[k][2] \in Int
        /\ p[k] = <<p[k][1], p[k][2]>>
    <3>1. p[k] \in Int \X Int OBVIOUS
    <3>2. \A x \in Int \X Int : x[1] \in Int /\ x[2] \in Int /\ x = <<x[1], x[2]>> OBVIOUS
    <3>. QED BY <3>1, <3>2
  <2>4. m # 0
    <3>1. q[0] = <<0, 0>> /\ k + 0 = k OBVIOUS
    <3>. QED BY <2>0, <2>3, <3>1
  <2>5. m \in 1..(n - k) /\ m - 1 \in 0..(n - k) /\ k + m \in 1..n
        /\ k + (m - 1) = (k + m) - 1 /\ k + (m - 1) \in 0..n BY <1>1, <2>3, <2>4
  <2>6. p[k + (m - 1)] = <<p[k][1] + q[m - 1][1], p[k][2] + q[m - 1][2]>>
    <3>1. m - 1 \notin bad
      <4>. HIDE DEF bad
      <4>. QED BY <2>2, <2>5
    <3>. QED BY <2>5, <3>1
  <2>7. /\ p[k + m] = <<p[k + (m - 1)][1] + 1, p[k + (m - 1)][2] + t[k + m]>>
        /\ q[m] = <<q[m - 1][1] + 1, q[m - 1][2] + t[k + m]>>
        /\ q[m - 1] \in Int \X Int /\ t[k + m] \in Int
    BY <1>0, <2>5 DEF GroupedTable!CountAndSum
  <2>8. /\ p[k + m] = <<(p[k][1] + q[m - 1][1]) + 1, (p[k][2] + q[m - 1][2]) + t[k + m]>>
        /\ q[m][1] = q[m - 1][1] + 1 /\ q[m][2] = q[m - 1][2] + t[k + m]
        /\ q[m - 1][1] \in Int /\ q[m - 1][2] \in Int
    <3>. DEFINE a == p[k + (m - 1)]
                b == q[m - 1]
                c == t[k + m]
                d == p[k]
                e == q[m]
                f == p[k + m]
    <3>1. /\ f = <<a[1] + 1, a[2] + c>> /\ e = <<b[1] + 1, b[2] + c>>
          /\ a = <<d[1] + b[1], d[2] + b[2]>> /\ b \in Int \X Int
      BY <2>6, <2>7
    <3>. HIDE DEF a, b, c, d, e, f
    <3>2. a[1] = d[1] + b[1] /\ a[2] = d[2] + b[2] BY <3>1
    <3>3. e[1] = b[1] + 1 /\ e[2] = b[2] + c BY <3>1
    <3>4. b[1] \in Int /\ b[2] \in Int BY <3>1
    <3>5. f = <<(d[1] + b[1]) + 1, (d[2] + b[2]) + c>> BY <3>1, <3>2
    <3>. QED BY <3>3, <3>4, <3>5 DEF a, b, c, d, e, f
  <2>9. p[k + m] = <<p[k][1] + q[m][1], p[k][2] + q[m][2]>>
    <3>. DEFINE x == p[k][1]
                y == p[k][2]
                v == q[m - 1][1]
                w == q[m - 1][2]
                z == t[k + m]
    <3>1. /\ x \in Int /\ y \in Int /\ v \in Int /\ w \in Int /\ z \in Int
          /\ p[k + m] = <<(x + v) + 1, (y + w) + z>> /\ q[m][1] = v + 1 /\ q[m][2] = w + z
      BY <2>0, <2>7, <2>8
    <3>. HIDE DEF v, w, x, y, z
    <3>2. (x + v) + 1 = x + (v + 1) /\ (y + w) + z = y + (w + z) BY <3>1
    <3>3. p[k + m] = <<x + q[m][1], y + q[m][2]>> BY <3>1, <3>2
    <3>. QED BY <3>3 DEF x, y
  <2>. QED BY <2>3, <2>9
<1>3. k + (n - k) = n /\ n - k \in 0..(n - k) BY <1>1
<1>. QED BY <1>2, <1>3

(* Retracting the first part takes away what it accumulates.               *)
LEMMA FirstRetracts ==
  ASSUME NEW n \in Nat, NEW k \in 0..n, NEW t, NEW u, NEW a \in Int \X Int, NEW p, NEW r,
         Numbers(n, t), Part(k, u, 0, t),
         Accumulators(n, t, <<0, 0>>, p), Retractions(k, u, a, r)
  PROVE  r[k] = <<a[1] - p[k][1], a[2] - p[k][2]>>
<1>. USE DEF Accumulators, Retractions
<1>0. (\A i \in 1..n : t[i] \in Int) /\ \A i \in 1..k : u[i] = t[i]
  BY DEF Numbers, Part
<1>1. \A i \in 0..k : r[i] = <<a[1] - p[i][1], a[2] - p[i][2]>>
  <2>. DEFINE bad == {i \in 0..k : r[i] # <<a[1] - p[i][1], a[2] - p[i][2]>>}
  <2>. SUFFICES ASSUME bad # {} PROVE FALSE OBVIOUS
  <2>1. bad \subseteq Nat OBVIOUS
  <2>2. PICK m \in bad : \A i \in bad : m =< i
    <3>. HIDE DEF bad
    <3>. QED BY <2>1, LeastNumber
  <2>3. m \in 0..k /\ r[m] # <<a[1] - p[m][1], a[2] - p[m][2]>> OBVIOUS
  <2>4. m # 0
    <3>1. p[0] = <<0, 0>> /\ r[0] = a /\ a = <<a[1], a[2]>> /\ a[1] \in Int /\ a[2] \in Int
      OBVIOUS
    <3>. QED BY <2>3, <3>1
  <2>5. m \in 1..k /\ m \in 1..n /\ m - 1 \in 0..k /\ m - 1 \in 0..n BY <2>3, <2>4
  <2>6. r[m - 1] = <<a[1] - p[m - 1][1], a[2] - p[m - 1][2]>>
    <3>1. m - 1 \notin bad
      <4>. HIDE DEF bad
      <4>. QED BY <2>2, <2>5
    <3>. QED BY <2>5, <3>1
  <2>7. /\ r[m] = <<r[m - 1][1] - 1, r[m - 1][2] - t[m]>>
        /\ p[m] = <<p[m - 1][1] + 1, p[m - 1][2] + t[m]>>
        /\ p[m - 1] \in Int \X Int /\ t[m] \in Int
    BY <1>0, <2>5 DEF GroupedTable!CountAndSum, GroupedTable!Retract
  <2>8. /\ r[m] = <<(a[1] - p[m - 1][1]) - 1, (a[2] - p[m - 1][2]) - t[m]>>
        /\ p[m][1] = p[m - 1][1] + 1 /\ p[m][2] = p[m - 1][2] + t[m]
        /\ p[m - 1][1] \in Int /\ p[m - 1][2] \in Int /\ a[1] \in Int /\ a[2] \in Int
    <3>1. r[m] = <<(a[1] - p[m - 1][1]) - 1, (a[2] - p[m - 1][2]) - t[m]>> BY <2>6, <2>7
    <3>2. p[m][1] = p[m - 1][1] + 1 /\ p[m][2] = p[m - 1][2] + t[m] BY <2>7
    <3>3. p[m - 1][1] \in Int /\ p[m - 1][2] \in Int /\ a[1] \in Int /\ a[2] \in Int BY <2>7
    <3>. QED BY <3>1, <3>2, <3>3
  <2>9. r[m] = <<a[1] - p[m][1], a[2] - p[m][2]>>
    <3>. DEFINE x == a[1]
                y == a[2]
                v == p[m - 1][1]
                w == p[m - 1][2]
                z == t[m]
    <3>1. /\ x \in Int /\ y \in Int /\ v \in Int /\ w \in Int /\ z \in Int
          /\ r[m] = <<(x - v) - 1, (y - w) - z>> /\ p[m][1] = v + 1 /\ p[m][2] = w + z
      BY <2>7, <2>8
    <3>. HIDE DEF v, w, x, y, z
    <3>2. (x - v) - 1 = x - (v + 1) /\ (y - w) - z = y - (w + z) BY <3>1
    <3>3. r[m] = <<x - p[m][1], y - p[m][2]>> BY <3>1, <3>2
    <3>. QED BY <3>3 DEF x, y
  <2>. QED BY <2>3, <2>9
<1>. QED BY <1>1


(* The rows are numbers in a table, read one by one. *)
GroupsInv == pos \in 0..Len(input) /\ \A i \in DOMAIN input : input[i].tel \in Int

(* The grouped tables only ever read rows of their input, one by one. *)
THEOREM GroupsInvariance == Spec => [](which = "groups" => GroupsInv)
<1>1. ASSUME Init, which = "groups" PROVE GroupsInv
  <2>1. GroupedTable!Init BY <1>1 DEF Init
  <2>2. pos = 0 /\ input \in {GroupedTable!People, GroupedTable!RowPeople} \cup Tables
    BY <2>1 DEF GroupedTable!Init
  <2>3. CASE input \in Tables
    <3>. DEFINE E == [country : STRING, tel : Nat]
    <3>1. input \in Seq(E) BY <2>3, TablesAssumption DEF TablesAssumption
    <3>2. \A e \in E : e.tel \in Int OBVIOUS
    <3>. HIDE DEF E
    <3>3. Len(input) \in Nat /\ \A i \in DOMAIN input : input[i] \in E BY <3>1, ElementIn
    <3>. QED BY <2>2, <3>2, <3>3 DEF GroupsInv
  <2>4. CASE input \in {GroupedTable!People, GroupedTable!RowPeople}
    <3>1. /\ Len(input) = 4 /\ DOMAIN input = 1..4
          /\ input[1].tel \in Int /\ input[2].tel \in Int
          /\ input[3].tel \in Int /\ input[4].tel \in Int
      BY <2>4 DEF GroupedTable!People, GroupedTable!RowPeople, GroupedTable!R
    <3>2. \A i \in 1..4 : i = 1 \/ i = 2 \/ i = 3 \/ i = 4 OBVIOUS
    <3>. QED BY <2>2, <3>1, <3>2 DEF GroupsInv
  <2>. QED BY <2>2, <2>3, <2>4
<1>2. ASSUME which = "groups" => GroupsInv, [Next]_vars PROVE (which = "groups" => GroupsInv)'
  <2>1. which' = which BY <1>2, WhichStep
  <2>. SUFFICES ASSUME which = "groups", GroupsInv PROVE GroupsInv' BY <1>2, <2>1
  <2>2. CASE UNCHANGED vars BY <2>2 DEF vars, GroupsInv
  <2>3. CASE Next
    <3>1. GroupedTable!Read \/ GroupedTable!EndBundle
      BY <2>3 DEF GroupedTable!Next, Next, InWords, InGroups, InTables, InTopic, InBulks
    <3>2. input' = input /\ (pos' = pos \/ (pos < Len(input) /\ pos' = pos + 1))
      <4>1. GroupedTable!Read => pos < Len(input) /\ pos' = pos + 1 /\ input' = input
        BY Zenon DEF GroupedTable!Read
      <4>2. GroupedTable!EndBundle => pos' = pos /\ input' = input
        BY Zenon DEF GroupedTable!EndBundle
      <4>. QED BY <3>1, <4>1, <4>2, Zenon
    <3>. QED BY <3>2 DEF GroupsInv
  <2>. QED BY <1>2, <2>2, <2>3
<1>. QED BY <1>1, <1>2, PTL DEF Spec

(* However the numbers are cut in two parts, the accumulators of the parts *)
(* merge to that of all, and that of all without the first part is that of *)
(* the second.                                                             *)
LEMMA CutAnywhere ==
  ASSUME NEW n \in Nat, NEW t \in [1..n -> Int], NEW k \in 0..n
  PROVE  LET Over(s) == GroupedTable!FoldLeft(GroupedTable!CountAndSum, <<0, 0>>, s)
             first == SubSeq(t, 1, k)
             rest == SubSeq(t, k + 1, n)
         IN /\ GroupedTable!Merge(Over(first), <<Over(rest)>>) = Over(t)
            /\ GroupedTable!FoldLeft(GroupedTable!Retract, Over(t), first) = Over(rest)
<1>. DEFINE Over(s) == GroupedTable!FoldLeft(GroupedTable!CountAndSum, <<0, 0>>, s)
            first == SubSeq(t, 1, k)
            rest == SubSeq(t, k + 1, n)
            none == <<0, 0>>
<1>1. t \in Seq(Int) /\ Len(t) = n
  <2>1. DOMAIN t = 1..n /\ \A i \in 1..n : t[i] \in Int OBVIOUS
  <2>. QED BY <2>1, IsSequence
<1>2. /\ first \in [1..k -> Int] /\ \A i \in 1..k : first[i] = t[i]
      /\ k \in Nat /\ n - k \in Nat
      /\ rest \in [1..(n - k) -> Int] /\ \A i \in 1..(n - k) : rest[i] = t[k + i]
  <2>1. k \in Nat /\ k =< n /\ n - k \in Nat OBVIOUS
  <2>2. \A i \in 1..k : i \in 1..n BY <2>1
  <2>3. first = [i \in 1..k |-> t[i]]
    <3>. HIDE DEF first
    <3>1. first = SubSeq(t, 1, k) BY DEF first
    <3>. QED BY <1>1, <2>1, <2>2, <3>1
  <2>4. \A i \in 1..(n - k) : k + i \in 1..n BY <2>1
  <2>5. rest = [i \in 1..(n - k) |-> t[k + i]]
    <3>. HIDE DEF rest
    <3>1. rest = SubSeq(t, k + 1, n) BY DEF rest
    <3>2. (n - (k + 1)) + 1 = n - k /\ \A i \in 1..(n - k) : ((k + 1) + i) - 1 = k + i BY <2>1
    <3>3. rest = [i \in 1..((n - (k + 1)) + 1) |-> t[((k + 1) + i) - 1]] BY <1>1, <3>1
    <3>. QED BY <3>2, <3>3
  <2>. HIDE DEF first, rest
  <2>. QED BY <2>1, <2>2, <2>3, <2>4, <2>5
<1>3. none \in Int \X Int OBVIOUS
<1>4. PICK p : Accumulators(n, t, none, p) /\ Over(t) = p[n]
  BY <1>3, AccumulatesAll
<1>. HIDE DEF first, rest
<1>5. PICK q : Accumulators(k, first, none, q) /\ Over(first) = q[k]
  BY <1>2, <1>3, AccumulatesAll
<1>6. PICK u : Accumulators(n - k, rest, none, u) /\ Over(rest) = u[n - k]
  BY <1>2, <1>3, AccumulatesAll
<1>7. p[n] \in Int \X Int /\ p[k] \in Int \X Int /\ u[n - k] \in Int \X Int
  BY <1>2, <1>4, <1>6 DEF Accumulators
<1>8. PICK r : /\ Retractions(k, first, p[n], r)
               /\ GroupedTable!FoldLeft(GroupedTable!Retract, p[n], first) = r[k]
  BY <1>2, <1>7, RetractsAll
<1>9. Numbers(n, t) /\ Part(k, first, 0, t) /\ Part(n - k, rest, k, t)
  <2>1. \A i \in 1..k : first[i] = t[0 + i] BY <1>2
  <2>. QED BY <1>2, <2>1 DEF Numbers, Part
<1>10. q[k] = p[k] BY <1>4, <1>5, <1>9, SameAccumulators
<1>11. p[n] = <<p[k][1] + u[n - k][1], p[k][2] + u[n - k][2]>>
  BY <1>4, <1>6, <1>9, RestAccumulates
<1>12. r[k] = <<p[n][1] - p[k][1], p[n][2] - p[k][2]>>
  <2>. DEFINE a == p[n]
  <2>1. a \in Int \X Int /\ Accumulators(n, t, <<0, 0>>, p) /\ Retractions(k, first, a, r)
    BY <1>4, <1>7, <1>8
  <2>. HIDE DEF a
  <2>2. r[k] = <<a[1] - p[k][1], a[2] - p[k][2]>> BY <1>9, <2>1, FirstRetracts, SMTT(60)
  <2>. QED BY <2>2 DEF a
<1>13. GroupedTable!Merge(p[k], <<u[n - k]>>) = p[n] BY <1>7, <1>11, MergedOne
<1>14. r[k] = u[n - k]
  <2>. DEFINE a == p[k]
              b == u[n - k]
              c == p[n]
              d == r[k]
  <2>1. /\ a \in Int \X Int /\ b \in Int \X Int /\ c \in Int \X Int
        /\ c = <<a[1] + b[1], a[2] + b[2]>> /\ d = <<c[1] - a[1], c[2] - a[2]>>
    BY <1>7, <1>11, <1>12
  <2>. HIDE DEF a, b, c, d
  <2>2. /\ a[1] \in Int /\ a[2] \in Int /\ b[1] \in Int /\ b[2] \in Int
        /\ b = <<b[1], b[2]>> /\ c[1] = a[1] + b[1] /\ c[2] = a[2] + b[2]
    BY <2>1
  <2>3. c[1] - a[1] = b[1] /\ c[2] - a[2] = b[2] BY <2>2
  <2>4. d = b BY <2>1, <2>2, <2>3
  <2>. QED BY <2>4 DEF b, d
<1>. QED BY <1>4, <1>5, <1>6, <1>8, <1>10, <1>13, <1>14 DEF first, rest

(* Merge and retract of the aggregate function agree with accumulate, for  *)
(* every way to cut the rows read.                                         *)
THEOREM AlwaysMerge == Spec => []PartsMerge
<1>1. GroupsInv => GroupedTable!PartsMerge
  <2>. SUFFICES ASSUME GroupsInv PROVE GroupedTable!PartsMerge OBVIOUS
  <2>. DEFINE t == [i \in 1..pos |-> input[i].tel]
  <2>1. pos \in Nat /\ t \in [1..pos -> Int]
    <3>1. pos \in Nat /\ \A i \in 1..pos : i \in DOMAIN input BY DEF GroupsInv
    <3>. QED BY <3>1 DEF GroupsInv
  <2>. HIDE DEF t
  <2>2. \A k \in 0..pos :
          /\ GroupedTable!Merge(
               GroupedTable!FoldLeft(GroupedTable!CountAndSum, <<0, 0>>, SubSeq(t, 1, k)),
               <<GroupedTable!FoldLeft(GroupedTable!CountAndSum, <<0, 0>>,
                                       SubSeq(t, k + 1, pos))>>)
             = GroupedTable!FoldLeft(GroupedTable!CountAndSum, <<0, 0>>, t)
          /\ GroupedTable!FoldLeft(GroupedTable!Retract,
               GroupedTable!FoldLeft(GroupedTable!CountAndSum, <<0, 0>>, t), SubSeq(t, 1, k))
             = GroupedTable!FoldLeft(GroupedTable!CountAndSum, <<0, 0>>, SubSeq(t, k + 1, pos))
    BY <2>1, CutAnywhere
  <2>. QED BY <2>2 DEF GroupedTable!PartsMerge, t
<1>2. (which = "groups" => GroupsInv) => PartsMerge BY <1>1 DEF PartsMerge
<1>. QED BY <1>2, GroupsInvariance, PTL


-------------------------------------------------------------------------------
(* The word counts. *)

Lines == Seq(Seq(Words))
WordRows == [op : {"+I", "-U", "+U"}, word : Words, n : Nat]
Counters == [Words -> Nat]
CountStates == [counts : Counters, out : Seq(WordRows)]

(* The places up to i of the rows of w, and how many there are. *)
WordPlaces(rows, w, i) == {j \in 1..i : rows[j].word = w}
WordRank(rows, w, i) == Cardinality(WordPlaces(rows, w, i))

(* The rows of w are m, and each one is what g says of its rank.           *)
Listed(rows, w, m, g) ==
  /\ WordRank(rows, w, Len(rows)) = m
  /\ \A i \in WordPlaces(rows, w, Len(rows)) : rows[i] = g[WordRank(rows, w, i)]

(* The rows that a streaming program or a changelog reports of w, one by   *)
(* one, and how many when it has counted t.                                *)
Reports(w) ==
  [r \in Nat |->
     IF ~WordCount!Changelog THEN WordCount!Row("+I", w, r)
     ELSE IF r = 1 THEN WordCount!Row("+I", w, 1)
     ELSE IF r % 2 = 0 THEN WordCount!Row("-U", w, r \div 2)
     ELSE WordCount!Row("+U", w, (r + 1) \div 2)]
Reported(t) == IF t = 0 THEN 0 ELSE IF WordCount!Changelog THEN 2 * t - 1 ELSE t

AllListed(rows, tallies) ==
  \A w \in Words : Listed(rows, w, Reported(tallies[w]), Reports(w))

(* How many places there are, up to one more row. *)
LEMMA RankGrows ==
  ASSUME NEW rows, NEW w, NEW i \in Nat
  PROVE  /\ WordRank(rows, w, i) \in 0..i
         /\ rows[i + 1].word = w => WordRank(rows, w, i + 1) = WordRank(rows, w, i) + 1
         /\ rows[i + 1].word # w => WordRank(rows, w, i + 1) = WordRank(rows, w, i)
<1>1. IsFiniteSet(1..i) /\ Cardinality(1..i) = i BY FS_Interval
<1>2. WordPlaces(rows, w, i) \subseteq 1..i BY DEF WordPlaces
<1>3. /\ IsFiniteSet(WordPlaces(rows, w, i))
      /\ WordRank(rows, w, i) \in Nat /\ WordRank(rows, w, i) =< i
  BY <1>1, <1>2, FS_Subset, FS_CardinalityType DEF WordRank
<1>4. 1..(i + 1) = 1..i \cup {i + 1} /\ i + 1 \notin 1..i OBVIOUS
<1>5. ASSUME rows[i + 1].word = w PROVE WordRank(rows, w, i + 1) = WordRank(rows, w, i) + 1
  <2>1. WordPlaces(rows, w, i + 1) = WordPlaces(rows, w, i) \cup {i + 1}
    BY <1>4, <1>5 DEF WordPlaces
  <2>2. i + 1 \notin WordPlaces(rows, w, i) BY <1>2, <1>4
  <2>. QED BY <1>3, <2>1, <2>2, FS_AddElement DEF WordRank
<1>6. ASSUME rows[i + 1].word # w PROVE WordRank(rows, w, i + 1) = WordRank(rows, w, i)
  <2>1. WordPlaces(rows, w, i + 1) = WordPlaces(rows, w, i) BY <1>4, <1>6 DEF WordPlaces
  <2>. QED BY <2>1 DEF WordRank
<1>. QED BY <1>3, <1>5, <1>6

(* Sequences that agree as far as i have the same ranks there. *)
LEMMA RankAgrees ==
  ASSUME NEW rows, NEW longer, NEW w, NEW i \in Nat, \A j \in 1..i : longer[j] = rows[j]
  PROVE  /\ WordPlaces(longer, w, i) = WordPlaces(rows, w, i)
         /\ WordRank(longer, w, i) = WordRank(rows, w, i)
<1>1. WordPlaces(longer, w, i) = WordPlaces(rows, w, i) BY DEF WordPlaces
<1>. QED BY <1>1 DEF WordRank

(* A place of w has a rank from one on. *)
LEMMA RankWithin ==
  ASSUME NEW rows, NEW w, NEW n \in Nat, NEW i \in WordPlaces(rows, w, n)
  PROVE  WordRank(rows, w, i) \in 1..WordRank(rows, w, n)
<1>1. i \in 1..n /\ i \in WordPlaces(rows, w, i) BY DEF WordPlaces
<1>2. /\ WordPlaces(rows, w, i) \subseteq WordPlaces(rows, w, n)
      /\ WordPlaces(rows, w, n) \subseteq 1..n
  BY <1>1 DEF WordPlaces
<1>3. IsFiniteSet(WordPlaces(rows, w, n)) BY <1>2, FS_Interval, FS_Subset
<1>4. /\ IsFiniteSet(WordPlaces(rows, w, i))
      /\ WordRank(rows, w, i) \in Nat /\ WordRank(rows, w, n) \in Nat
      /\ WordRank(rows, w, i) =< WordRank(rows, w, n)
  BY <1>2, <1>3, FS_Subset, FS_CardinalityType DEF WordRank
<1>5. WordRank(rows, w, i) # 0 BY <1>1, <1>4, FS_EmptySet DEF WordRank
<1>. QED BY <1>4, <1>5

(* A row of w is the next of them; one of another word changes nothing.    *)
LEMMA ListedAppend ==
  ASSUME NEW S, NEW rows \in Seq(S), NEW row \in S, NEW w, NEW m \in Nat, NEW g,
         Listed(rows, w, m, g)
  PROVE  /\ row.word # w => Listed(Append(rows, row), w, m, g)
         /\ row.word = w /\ row = g[m + 1] => Listed(Append(rows, row), w, m + 1, g)
<1>. DEFINE longer == Append(rows, row)
            n == Len(rows)
<1>1. /\ n \in Nat /\ Len(longer) = n + 1 /\ longer[n + 1] = row
      /\ \A j \in 1..n : longer[j] = rows[j]
  OBVIOUS
<1>. HIDE DEF longer, n
<1>2. \A i \in 0..n : /\ WordPlaces(longer, w, i) = WordPlaces(rows, w, i)
                      /\ WordRank(longer, w, i) = WordRank(rows, w, i)
  <2>. SUFFICES ASSUME NEW i \in 0..n
       PROVE  /\ WordPlaces(longer, w, i) = WordPlaces(rows, w, i)
              /\ WordRank(longer, w, i) = WordRank(rows, w, i)
    OBVIOUS
  <2>1. i \in Nat /\ \A j \in 1..i : longer[j] = rows[j] BY <1>1
  <2>. QED BY <2>1, RankAgrees
<1>3. WordRank(longer, w, n) = m BY <1>1, <1>2 DEF Listed, n
<1>4. \A i \in WordPlaces(longer, w, n) : longer[i] = g[WordRank(longer, w, i)]
  <2>. SUFFICES ASSUME NEW i \in WordPlaces(longer, w, n)
       PROVE longer[i] = g[WordRank(longer, w, i)]
    OBVIOUS
  <2>1. i \in 1..n BY DEF WordPlaces
  <2>2. i \in WordPlaces(rows, w, n) /\ WordRank(longer, w, i) = WordRank(rows, w, i)
        /\ longer[i] = rows[i]
    BY <1>1, <1>2, <2>1
  <2>. QED BY <2>2 DEF Listed, n
<1>5. 1..(n + 1) = 1..n \cup {n + 1} BY <1>1
<1>6. ASSUME row.word # w PROVE Listed(longer, w, m, g)
  <2>1. WordRank(longer, w, n + 1) = m BY <1>1, <1>3, <1>6, RankGrows
  <2>2. WordPlaces(longer, w, n + 1) = WordPlaces(longer, w, n)
    BY <1>1, <1>5, <1>6 DEF WordPlaces
  <2>. QED BY <1>1, <1>4, <2>1, <2>2 DEF Listed
<1>7. ASSUME row.word = w, row = g[m + 1] PROVE Listed(longer, w, m + 1, g)
  <2>1. WordRank(longer, w, n + 1) = m + 1 BY <1>1, <1>3, <1>7, RankGrows
  <2>2. WordPlaces(longer, w, n + 1) = WordPlaces(longer, w, n) \cup {n + 1}
    BY <1>1, <1>5, <1>7 DEF WordPlaces
  <2>3. longer[n + 1] = g[WordRank(longer, w, n + 1)] BY <1>1, <1>7, <2>1
  <2>. QED BY <1>1, <1>4, <2>1, <2>2, <2>3 DEF Listed
<1>. QED BY <1>6, <1>7 DEF longer

(* The same cardinality in that module, and the same places. *)
LEMMA SameRanks ==
  \A rows, w, i : /\ WordCount!Places(rows, w, i) = WordPlaces(rows, w, i)
                  /\ WordCount!Cardinality(WordCount!Places(rows, w, i)) = WordRank(rows, w, i)
<1>1. \A S : WordCount!Cardinality(S) = Cardinality(S)
  BY Zenon DEF WordCount!Cardinality, Cardinality
<1>2. \A rows, w, i : WordCount!Places(rows, w, i) = WordPlaces(rows, w, i)
  BY DEF WordCount!Places, WordPlaces
<1>. QED BY <1>1, <1>2 DEF WordRank

(* So the rows are exactly the ones called for. *)
LEMMA ListedExact ==
  ASSUME NEW S, NEW rows \in Seq(S), NEW w, NEW m, NEW g, NEW called,
         Listed(rows, w, m, g), Len(called) = m, \A r \in 1..m : called[r] = g[r]
  PROVE  WordCount!Exact(rows, w, called)
<1>1. WordRank(rows, w, Len(rows)) = Len(called) BY DEF Listed
<1>2. ASSUME NEW i \in WordPlaces(rows, w, Len(rows)) PROVE rows[i] = called[WordRank(rows, w, i)]
  <2>1. Len(rows) \in Nat OBVIOUS
  <2>2. WordRank(rows, w, i) \in 1..m BY <2>1, RankWithin DEF Listed
  <2>. QED BY <2>2 DEF Listed
<1>. QED BY <1>1, <1>2, SameRanks DEF WordCount!Exact


(* The halves of even and odd numbers. *)
LEMMA Halves ==
  \A t \in Nat : /\ (2 * t) % 2 = 0 /\ (2 * t) \div 2 = t
                 /\ (2 * t + 1) % 2 = 1 /\ ((2 * t + 1) + 1) \div 2 = t + 1
OBVIOUS

(* What a word's next occurrence adds is the next of its reports.          *)
LEMMA NextReports ==
  ASSUME ~WordCount!Batch, NEW w \in Words, NEW t \in Nat
  PROVE  \/ /\ WordCount!Rows(w, t) = <<Reports(w)[Reported(t) + 1]>>
            /\ Reported(t + 1) = Reported(t) + 1
         \/ /\ WordCount!Rows(w, t) = <<Reports(w)[Reported(t) + 1], Reports(w)[Reported(t) + 2]>>
            /\ Reported(t + 1) = Reported(t) + 2
<1>1. CASE ~WordCount!Changelog
  <2>1. Reported(t) = t /\ Reported(t + 1) = t + 1 BY <1>1 DEF Reported
  <2>2. Reports(w)[t + 1] = WordCount!Row("+I", w, t + 1) BY <1>1 DEF Reports
  <2>. QED BY <1>1, <2>1, <2>2 DEF WordCount!Rows
<1>2. CASE WordCount!Changelog /\ t = 0
  <2>1. Reported(t) = 0 /\ Reported(t + 1) = 1 BY <1>2 DEF Reported
  <2>2. Reports(w)[1] = WordCount!Row("+I", w, 1) BY <1>2 DEF Reports
  <2>. QED BY <1>2, <2>1, <2>2 DEF WordCount!Rows
<1>3. CASE WordCount!Changelog /\ t > 0
  <2>1. /\ Reported(t) = 2 * t - 1 /\ Reported(t + 1) = 2 * t + 1
        /\ Reported(t) + 1 = 2 * t /\ Reported(t) + 2 = 2 * t + 1
    BY <1>3 DEF Reported
  <2>2. 2 * t \in Nat /\ 2 * t + 1 \in Nat /\ 2 * t # 1 /\ 2 * t + 1 # 1 BY <1>3
  <2>3. /\ Reports(w)[2 * t] = WordCount!Row("-U", w, t)
        /\ Reports(w)[2 * t + 1] = WordCount!Row("+U", w, t + 1)
    <3>. DEFINE a == 2 * t
                b == 2 * t + 1
    <3>1. /\ a \in Nat /\ b \in Nat /\ a # 1 /\ b # 1
          /\ a % 2 = 0 /\ a \div 2 = t /\ b % 2 # 0 /\ (b + 1) \div 2 = t + 1
      BY <2>2, Halves
    <3>. HIDE DEF a, b
    <3>2. Reports(w)[a] = WordCount!Row("-U", w, a \div 2)
          /\ Reports(w)[b] = WordCount!Row("+U", w, (b + 1) \div 2)
      BY <1>3, <3>1 DEF Reports
    <3>3. Reports(w)[a] = WordCount!Row("-U", w, t)
          /\ Reports(w)[b] = WordCount!Row("+U", w, t + 1)
      BY <3>1, <3>2
    <3>. QED BY <3>3 DEF a, b
  <2>. QED BY <1>3, <2>1, <2>3 DEF WordCount!Rows
<1>. QED BY <1>1, <1>2, <1>3

(* What t occurrences call for are the first of the word's reports.        *)
LEMMA CalledReports ==
  ASSUME ~WordCount!Batch, NEW w \in Words, NEW t \in Nat
  PROVE  /\ Len(WordCount!Called(w, t)) = Reported(t)
         /\ \A r \in 1..Reported(t) : WordCount!Called(w, t)[r] = Reports(w)[r]
<1>1. CASE t = 0
  <2>1. WordCount!Called(w, t) = <<>> /\ Reported(t) = 0
    BY <1>1 DEF WordCount!Called, Reported
  <2>. QED BY <2>1
<1>2. CASE t # 0 /\ ~WordCount!Changelog
  <2>1. WordCount!Called(w, t) = [n \in 1..t |-> WordCount!Row("+I", w, n)] /\ Reported(t) = t
    BY <1>2 DEF WordCount!Called, Reported
  <2>. QED BY <1>2, <2>1 DEF Reports
<1>3. CASE t # 0 /\ WordCount!Changelog
  <2>1. /\ WordCount!Called(w, t) =
             [r \in 1..(2 * t - 1) |->
                IF r = 1 THEN WordCount!Row("+I", w, 1)
                ELSE IF r % 2 = 0 THEN WordCount!Row("-U", w, r \div 2)
                ELSE WordCount!Row("+U", w, (r + 1) \div 2)]
        /\ Reported(t) = 2 * t - 1
    BY <1>3 DEF WordCount!Called, Reported
  <2>2. 2 * t - 1 \in Nat BY <1>3
  <2>. DEFINE m == 2 * t - 1
  <2>. HIDE DEF m
  <2>3. \A r \in 1..m : WordCount!Called(w, t)[r] = Reports(w)[r]
    BY <1>3, <2>1, <2>2 DEF Reports, m
  <2>4. Len(WordCount!Called(w, t)) = m BY <2>1, <2>2 DEF m
  <2>. QED BY <2>1, <2>3, <2>4 DEF m
<1>. QED BY <1>1, <1>2, <1>3

(* A report is a row. *)
LEMMA ReportsAreRows ==
  ASSUME NEW w \in Words
  PROVE  \A r \in Nat : Reports(w)[r] \in WordRows /\ Reports(w)[r].word = w
<1>. SUFFICES ASSUME NEW r \in Nat PROVE Reports(w)[r] \in WordRows /\ Reports(w)[r].word = w
  OBVIOUS
<1>1. r \div 2 \in Nat /\ (r + 1) \div 2 \in Nat OBVIOUS
<1>2. \A n \in Nat : /\ WordCount!Row("+I", w, n) \in WordRows
                     /\ WordCount!Row("+U", w, n) \in WordRows
                     /\ WordCount!Row("-U", w, n) \in WordRows
                     /\ WordCount!Row("+I", w, n).word = w
                     /\ WordCount!Row("+U", w, n).word = w
                     /\ WordCount!Row("-U", w, n).word = w
  BY DEF WordCount!Row, WordRows
<1>3. \E n \in Nat : Reports(w)[r] \in {WordCount!Row("+I", w, n), WordCount!Row("+U", w, n),
                                        WordCount!Row("-U", w, n)}
  BY <1>1 DEF Reports
<1>. QED BY <1>2, <1>3

(* Two rows appended together are appended one after the other. *)
LEMMA BothAppended ==
  ASSUME NEW S, NEW s \in Seq(S), NEW a \in S, NEW b \in S
  PROVE  s \o <<a, b>> = Append(Append(s, a), b)
OBVIOUS

(* Counting one word keeps the state, and every word's rows in the output. *)
LEMMA CountOneKeeps ==
  ASSUME NEW s \in CountStates, NEW w \in Words
  PROVE  /\ WordCount!CountOne(s, w) \in CountStates
         /\ WordCount!CountOne(s, w).counts = [s.counts EXCEPT ![w] = @ + 1]
         /\ WordCount!Batch => WordCount!CountOne(s, w).out = s.out
         /\ ~WordCount!Batch /\ AllListed(s.out, s.counts)
              => AllListed(WordCount!CountOne(s, w).out, WordCount!CountOne(s, w).counts)
<1>. DEFINE n == WordCount!CountOne(s, w)
            t == s.counts[w]
<1>1. s.counts \in [Words -> Nat] /\ s.out \in Seq(WordRows) /\ t \in Nat
  BY DEF CountStates, Counters
<1>2. n = [counts |-> [s.counts EXCEPT ![w] = @ + 1], out |-> s.out \o WordCount!Rows(w, t)]
  BY DEF WordCount!CountOne
<1>3. n.counts = [s.counts EXCEPT ![w] = @ + 1] /\ n.counts \in [Words -> Nat]
  BY <1>1, <1>2
<1>4. n.out = s.out \o WordCount!Rows(w, t)
  <2>. DEFINE c == [s.counts EXCEPT ![w] = @ + 1]
              o == s.out \o WordCount!Rows(w, t)
  <2>1. n = [counts |-> c, out |-> o] BY <1>2
  <2>. HIDE DEF n, c, o
  <2>2. n.out = o BY <2>1
  <2>. QED BY <2>2 DEF o
<1>5. n \in [counts : [Words -> Nat], out : {n.out}] BY <1>2, <1>3
<1>6. CASE WordCount!Batch
  <2>1. n.out = s.out BY <1>1, <1>4, <1>6 DEF WordCount!Rows
  <2>2. n \in CountStates BY <1>1, <1>5, <2>1 DEF CountStates, Counters
  <2>. QED BY <1>3, <1>6, <2>1, <2>2
<1>7. CASE ~WordCount!Batch
  <2>. DEFINE g == Reports(w)
              m == Reported(t)
  <2>1. m \in Nat BY <1>1 DEF Reported
  <2>2. /\ g[m + 1] \in WordRows /\ g[m + 1].word = w
        /\ g[m + 2] \in WordRows /\ g[m + 2].word = w
    <3>1. m + 1 \in Nat /\ m + 2 \in Nat BY <2>1
    <3>. QED BY <3>1, ReportsAreRows
  <2>3. \/ n.out = Append(s.out, g[m + 1]) /\ Reported(t + 1) = m + 1
        \/ n.out = Append(Append(s.out, g[m + 1]), g[m + 2]) /\ Reported(t + 1) = m + 2
    <3>1. CASE WordCount!Rows(w, t) = <<g[m + 1]>> /\ Reported(t + 1) = m + 1
      <4>. DEFINE a == g[m + 1]
      <4>1. a \in WordRows /\ n.out = s.out \o <<a>> BY <1>4, <2>2, <3>1
      <4>. HIDE DEF a, n
      <4>2. n.out = Append(s.out, a) BY <1>1, <4>1
      <4>. QED BY <3>1, <4>2 DEF a
    <3>2. CASE WordCount!Rows(w, t) = <<g[m + 1], g[m + 2]>> /\ Reported(t + 1) = m + 2
      <4>. DEFINE a == g[m + 1]
                  b == g[m + 2]
      <4>1. a \in WordRows /\ b \in WordRows /\ n.out = s.out \o <<a, b>> BY <1>4, <2>2, <3>2
      <4>. HIDE DEF a, b, n
      <4>2. n.out = Append(Append(s.out, a), b)
        <5>. DEFINE o == s.out
        <5>1. o \in Seq(WordRows) /\ n.out = o \o <<a, b>> BY <1>1, <4>1
        <5>. HIDE DEF o
        <5>2. o \o <<a, b>> = Append(Append(o, a), b) BY <4>1, <5>1, BothAppended
        <5>. QED BY <5>1, <5>2 DEF o
      <4>. QED BY <3>2, <4>2 DEF a, b
    <3>. QED BY <1>1, <1>7, <3>1, <3>2, NextReports
  <2>. HIDE DEF g, m, n
  <2>4. n.out \in Seq(WordRows)
    <3>1. \A q \in Seq(WordRows), x \in WordRows : Append(q, x) \in Seq(WordRows) OBVIOUS
    <3>. QED BY <1>1, <2>2, <2>3, <3>1
  <2>5. n \in CountStates BY <1>5, <2>4 DEF CountStates, Counters
  <2>6. ASSUME AllListed(s.out, s.counts), NEW v \in Words
        PROVE  Listed(n.out, v, Reported(n.counts[v]), Reports(v))
    <3>1. Listed(s.out, v, Reported(s.counts[v]), Reports(v)) BY <2>6 DEF AllListed
    <3>2. Append(s.out, g[m + 1]) \in Seq(WordRows) BY <1>1, <2>2
    <3>3. CASE v = w
      <4>1. n.counts[v] = t + 1 /\ Listed(s.out, w, m, g) BY <1>1, <1>3, <3>1, <3>3 DEF g, m
      <4>2. Listed(Append(s.out, g[m + 1]), w, m + 1, g)
        BY <1>1, <2>1, <2>2, <4>1, ListedAppend
      <4>3. Listed(Append(Append(s.out, g[m + 1]), g[m + 2]), w, m + 2, g)
        <5>1. m + 1 \in Nat /\ (m + 1) + 1 = m + 2 BY <2>1
        <5>. QED BY <2>2, <3>2, <4>2, <5>1, ListedAppend
      <4>. QED BY <2>3, <3>3, <4>1, <4>2, <4>3 DEF g
    <3>4. CASE v # w
      <4>. DEFINE k == Reported(s.counts[v])
                  h == Reports(v)
      <4>1. n.counts[v] = s.counts[v] BY <1>1, <1>3, <3>4
      <4>2. k \in Nat
        <5>1. s.counts[v] \in Nat BY <1>1
        <5>. QED BY <5>1 DEF Reported
      <4>3. Listed(s.out, v, k, h) BY <3>1
      <4>. HIDE DEF k, h
      <4>4. Listed(Append(s.out, g[m + 1]), v, k, h)
        BY <1>1, <2>2, <3>4, <4>2, <4>3, ListedAppend
      <4>5. Listed(Append(Append(s.out, g[m + 1]), g[m + 2]), v, k, h)
        BY <2>2, <3>2, <3>4, <4>2, <4>4, ListedAppend
      <4>6. Listed(n.out, v, k, h) BY <2>3, <4>4, <4>5
      <4>. QED BY <4>1, <4>6 DEF k, h
    <3>. QED BY <3>3, <3>4
  <2>7. AllListed(s.out, s.counts) => AllListed(n.out, n.counts) BY <2>6 DEF AllListed
  <2>. QED BY <1>3, <1>7, <2>5, <2>7 DEF n
<1>. QED BY <1>6, <1>7


(* Where w stands in the lines and in the first i words of one more.       *)
UpToWord(lines, line, i, w) ==
  WordCount!Occurrences(lines, w) \cup ({Len(lines) + 1} \X {j \in 1..i : line[j] = w})

(* The occurrences are finitely many, and on lines that there are.         *)
LEMMA OccurrencesFinite ==
  ASSUME NEW lines \in Lines, NEW w
  PROVE  /\ IsFiniteSet(WordCount!Occurrences(lines, w))
         /\ \A o \in WordCount!Occurrences(lines, w) : o[1] \in 1..Len(lines)
<1>. DEFINE O(l) == {l} \X {i \in DOMAIN lines[l] : lines[l][i] = w}
<1>1. DOMAIN lines = 1..Len(lines) /\ Len(lines) \in Nat BY DEF Lines
<1>2. ASSUME NEW l \in DOMAIN lines PROVE IsFiniteSet(O(l))
  <2>1. lines[l] \in Seq(Words) BY <1>1, <1>2, ElementIn DEF Lines
  <2>2. DOMAIN lines[l] = 1..Len(lines[l]) /\ Len(lines[l]) \in Nat BY <2>1
  <2>3. IsFiniteSet({i \in DOMAIN lines[l] : lines[l][i] = w})
    <3>. DEFINE D == DOMAIN lines[l]
                I == {i \in D : lines[l][i] = w}
    <3>1. IsFiniteSet(D) /\ I \subseteq D BY <2>2, FS_Interval
    <3>. HIDE DEF D, I
    <3>2. IsFiniteSet(I) BY <3>1, FS_Subset
    <3>. QED BY <3>2 DEF I, D
  <2>4. IsFiniteSet({l}) BY FS_Singleton
  <2>. QED BY <2>3, <2>4, FS_Product
<1>3. IsFiniteSet(DOMAIN lines) BY <1>1, FS_Interval
<1>4. IsFiniteSet({O(l) : l \in DOMAIN lines})
  <2>. DEFINE D == DOMAIN lines
              T == {O(l) : l \in D}
              f == [l \in D |-> O(l)]
  <2>1. f \in Surjection(D, T)
    <3>. HIDE DEF O, D
    <3>. QED BY DEF Surjection
  <2>. HIDE DEF D, T, f
  <2>2. IsFiniteSet(D) BY <1>3 DEF D
  <2>3. IsFiniteSet(T) BY <2>1, <2>2, FS_Surjection
  <2>. QED BY <2>3 DEF T, D
<1>5. \A T \in {O(l) : l \in DOMAIN lines} : IsFiniteSet(T) BY <1>2
<1>6. WordCount!Occurrences(lines, w) = UNION {O(l) : l \in DOMAIN lines}
  BY DEF WordCount!Occurrences
<1>7. IsFiniteSet(UNION {O(l) : l \in DOMAIN lines})
  <2>. HIDE DEF O
  <2>. QED BY <1>4, <1>5, FS_UNION
<1>8. ASSUME NEW o \in WordCount!Occurrences(lines, w) PROVE o[1] \in 1..Len(lines)
  <2>1. PICK l \in DOMAIN lines : o \in O(l) BY <1>6
  <2>2. o[1] = l BY <2>1
  <2>. QED BY <1>1, <2>1, <2>2
<1>. QED BY <1>6, <1>7, <1>8

(* One more word is one more occurrence of it. *)
LEMMA OneMoreWord ==
  ASSUME NEW lines \in Lines, NEW line \in Seq(Words), NEW w,
         NEW i \in 1..Len(line)
  PROVE  /\ Cardinality(UpToWord(lines, line, i - 1, w)) \in Nat
         /\ Cardinality(UpToWord(lines, line, i, w)) =
              Cardinality(UpToWord(lines, line, i - 1, w)) + (IF line[i] = w THEN 1 ELSE 0)
<1>. DEFINE m == Len(lines) + 1
            O == WordCount!Occurrences(lines, w)
            J(k) == {j \in 1..k : line[j] = w}
            A == UpToWord(lines, line, i - 1, w)
            B == UpToWord(lines, line, i, w)
<1>1. i \in Nat /\ i - 1 \in Nat /\ Len(lines) \in Nat BY DEF Lines
<1>2. 1..i = 1..(i - 1) \cup {i} /\ i \notin 1..(i - 1) BY <1>1
<1>3. IsFiniteSet(O) /\ \A o \in O : o[1] # m
  <2>1. m \notin 1..Len(lines) BY <1>1
  <2>. QED BY <2>1, OccurrencesFinite
<1>4. IsFiniteSet(A)
  <2>1. IsFiniteSet(J(i - 1))
    <3>. DEFINE D == 1..(i - 1)
                I == J(i - 1)
    <3>1. I \subseteq D OBVIOUS
    <3>2. IsFiniteSet(D) BY <1>1, FS_Interval
    <3>. HIDE DEF D, I
    <3>3. IsFiniteSet(I) BY <3>1, <3>2, FS_Subset
    <3>. QED BY <3>3 DEF I
  <2>2. IsFiniteSet({m}) BY FS_Singleton
  <2>3. IsFiniteSet({m} \X J(i - 1)) BY <2>1, <2>2, FS_Product
  <2>. QED BY <1>3, <2>3, FS_Union DEF UpToWord
<1>5. <<m, i>> \notin A
  <2>1. <<m, i>>[1] = m /\ <<m, i>>[2] = i OBVIOUS
  <2>2. <<m, i>> \notin O BY <1>3, <2>1
  <2>3. <<m, i>> \notin {m} \X J(i - 1) BY <1>2
  <2>. QED BY <2>2, <2>3 DEF UpToWord
<1>6. CASE line[i] = w
  <2>1. J(i) = J(i - 1) \cup {i} BY <1>2, <1>6
  <2>2. {m} \X (J(i - 1) \cup {i}) = ({m} \X J(i - 1)) \cup {<<m, i>>}
    <3>. HIDE DEF J, m
    <3>. QED OBVIOUS
  <2>3. B = A \cup {<<m, i>>}
    <3>1. B = O \cup ({m} \X J(i)) /\ A = O \cup ({m} \X J(i - 1)) BY DEF UpToWord
    <3>. HIDE DEF A, B, O, J, m
    <3>. QED BY <2>1, <2>2, <3>1
  <2>. QED BY <1>4, <1>5, <1>6, <2>3, FS_AddElement, FS_CardinalityType
<1>7. CASE line[i] # w
  <2>1. J(i) = J(i - 1) BY <1>2, <1>7
  <2>2. B = A BY <2>1 DEF UpToWord
  <2>. QED BY <1>4, <1>7, <2>2, FS_CardinalityType
<1>. QED BY <1>6, <1>7

(* With no word of it a line adds nothing, with all of them it is read.    *)
LEMMA WholeLine ==
  ASSUME NEW lines \in Lines, NEW line \in Seq(Words), NEW w
  PROVE  /\ UpToWord(lines, line, 0, w) = WordCount!Occurrences(lines, w)
         /\ UpToWord(lines, line, Len(line), w) = WordCount!Occurrences(Append(lines, line), w)
<1>. DEFINE m == Len(lines) + 1
            longer == Append(lines, line)
            O(s, l) == {l} \X {i \in DOMAIN s[l] : s[l][i] = w}
<1>1. /\ Len(lines) \in Nat /\ DOMAIN lines = 1..Len(lines) /\ DOMAIN longer = 1..m
      /\ longer[m] = line /\ \A l \in 1..Len(lines) : longer[l] = lines[l]
      /\ DOMAIN line = 1..Len(line)
  BY DEF Lines
<1>2. UpToWord(lines, line, 0, w) = WordCount!Occurrences(lines, w)
  <2>1. {j \in 1..0 : line[j] = w} = {} OBVIOUS
  <2>2. {m} \X {} = {} OBVIOUS
  <2>. QED BY <2>1, <2>2 DEF UpToWord
<1>. DEFINE U(s) == UNION {O(s, l) : l \in DOMAIN s}
<1>3. WordCount!Occurrences(lines, w) = U(lines) /\ WordCount!Occurrences(longer, w) = U(longer)
  BY DEF WordCount!Occurrences
<1>4. DOMAIN longer = DOMAIN lines \cup {m} BY <1>1
<1>5. \A l \in DOMAIN lines : O(longer, l) = O(lines, l) BY <1>1
<1>6. O(longer, m) = {m} \X {j \in 1..Len(line) : line[j] = w} BY <1>1
<1>7. U(longer) = U(lines) \cup O(longer, m)
  <2>. HIDE DEF O, longer, m
  <2>1. \A s, x : x \in U(s) <=> \E l \in DOMAIN s : x \in O(s, l) OBVIOUS
  <2>. HIDE DEF U
  <2>2. \A x : x \in U(longer) <=> x \in U(lines) \/ x \in O(longer, m)
    BY <1>4, <1>5, <2>1
  <2>. QED BY <2>2
<1>8. UpToWord(lines, line, Len(line), w) = WordCount!Occurrences(longer, w)
  <2>1. UpToWord(lines, line, Len(line), w)
          = WordCount!Occurrences(lines, w) \cup ({m} \X {j \in 1..Len(line) : line[j] = w})
    BY DEF UpToWord
  <2>. HIDE DEF O, U, longer, m
  <2>. QED BY <1>3, <1>6, <1>7, <2>1
<1>. QED BY <1>2, <1>8


(* The states that counting a line goes through. *)
CountSteps(line, s, p) ==
  /\ p \in [0..Len(line) -> CountStates] /\ p[0] = s
  /\ \A i \in 1..Len(line) : p[i] = WordCount!CountOne(p[i - 1], line[i])

(* The fold that counts a line goes through such states. *)
LEMMA CountsLine ==
  ASSUME NEW line \in Seq(Words), NEW s0 \in CountStates
  PROVE  \E p : /\ CountSteps(line, s0, p)
                /\ WordCount!FoldLeft(WordCount!CountOne, s0, line) = p[Len(line)]
<1>. DEFINE n == Len(line)
            X(s) == ElasticsearchSink!Max(s)
            folded(it) == it = [s \in SUBSET (1..n) |->
              IF s = {} THEN s0 ELSE WordCount!CountOne(it[s \ {X(s)}], line[X(s)])]
            f == CHOOSE it : folded(it)
            g == [x \in CountStates \X (1..n) |-> WordCount!CountOne(x[1], line[x[2]])]
<1>0. n \in Nat /\ DOMAIN line = 1..n /\ \A i \in 1..n : line[i] \in Words OBVIOUS
<1>1. WordCount!FoldLeft(WordCount!CountOne, s0, line) = f[1..n]
  <2>. DEFINE real(it) == it = [s \in SUBSET DOMAIN line |->
                IF s = {} THEN s0
                ELSE WordCount!CountOne(it[s \ {WordCount!Max(s)}], line[WordCount!Max(s)])]
  <2>1. WordCount!FoldLeft(WordCount!CountOne, s0, line) = (CHOOSE it : real(it))[DOMAIN line]
    BY DEF WordCount!FoldLeft, WordCount!MapThenFoldSet
  <2>2. \A S : WordCount!Max(S) = ElasticsearchSink!Max(S)
    BY DEF WordCount!Max, ElasticsearchSink!Max
  <2>. HIDE DEF n
  <2>3. \A it : real(it) <=> folded(it) BY <1>0, <2>2
  <2>. HIDE DEF real, folded
  <2>4. (CHOOSE it : real(it)) = f BY <2>3
  <2>. QED BY <1>0, <2>1, <2>4
<1>. HIDE DEF n
<1>2. g \in [CountStates \X (1..n) -> CountStates]
  <2>1. \A x \in CountStates, y \in Words : WordCount!CountOne(x, y) \in CountStates
    BY CountOneKeeps
  <2>2. \A x \in CountStates \X (1..n) : WordCount!CountOne(x[1], line[x[2]]) \in CountStates
    BY <1>0, <2>1
  <2>. QED BY <2>2
<1>3. \A x \in CountStates, i \in 1..n : g[<<x, i>>] = WordCount!CountOne(x, line[i]) OBVIOUS
<1>4. PICK h : Folds(g, s0, 1..n, h) /\ \A s \in SUBSET (1..n) : h[s] \in CountStates
  <2>. HIDE DEF g
  <2>. QED BY <1>0, <1>2, TypedFold
<1>5. \A s \in SUBSET (1..n) : s # {} => X(s) \in s /\ X(s) \in 1..n /\ s \ {X(s)} \in SUBSET (1..n)
  BY <1>0, LastPlace
<1>. HIDE DEF g, X
<1>6. folded(h)
  <2>1. h = [s \in SUBSET (1..n) |-> IF s = {} THEN s0 ELSE g[<<h[s \ {X(s)}], X(s)>>]]
    BY <1>4 DEF Folds, X
  <2>. QED BY <1>3, <1>4, <1>5, <2>1
<1>7. folded(f)
  <2>. HIDE DEF folded
  <2>. QED BY <1>6
<1>8. f = [s \in SUBSET (1..n) |->
             IF s = {} THEN s0 ELSE WordCount!CountOne(f[s \ {X(s)}], line[X(s)])]
  <2>1. \A it : folded(it) => it = [s \in SUBSET (1..n) |->
             IF s = {} THEN s0 ELSE WordCount!CountOne(it[s \ {X(s)}], line[X(s)])]
    OBVIOUS
  <2>. HIDE DEF folded, f
  <2>. QED BY <1>7, <2>1
<1>. HIDE DEF f
<1>9. f[{}] = s0 BY <1>8
<1>10. \A s \in SUBSET (1..n) :
         s # {} /\ f[s \ {X(s)}] \in CountStates => f[s] = g[<<f[s \ {X(s)}], X(s)>>]
  BY <1>3, <1>5, <1>8
<1>. DEFINE p == [i \in 0..n |-> f[1..i]]
<1>11. /\ p \in [0..n -> CountStates] /\ f[1..0] = s0
       /\ \A i \in 1..n : f[1..i] = g[<<f[1..(i - 1)], i>>]
  <2>. HIDE DEF p
  <2>1. [i \in 0..n |-> f[1..i]] \in [0..n -> CountStates] /\ f[1..0] = s0
        /\ \A i \in 1..n : f[1..i] = g[<<f[1..(i - 1)], i>>]
    <3>1. Follows(n, CountStates, g, s0, f) BY <1>9, <1>10 DEF X, Follows
    <3>2. GoesThrough(n, CountStates, g, s0, f) BY <1>0, <1>2, <3>1, FoldSteps
    <3>. QED BY <3>2 DEF GoesThrough
  <2>. QED BY <2>1 DEF p
<1>12. CountSteps(line, s0, p)
  <2>1. p[0] = s0 BY <1>0, <1>11
  <2>2. \A i \in 1..n : p[i] = WordCount!CountOne(p[i - 1], line[i])
    <3>. SUFFICES ASSUME NEW i \in 1..n PROVE p[i] = WordCount!CountOne(p[i - 1], line[i])
      OBVIOUS
    <3>1. i \in 0..n /\ i - 1 \in 0..n BY <1>0
    <3>2. p[i] = f[1..i] /\ p[i - 1] = f[1..(i - 1)] BY <3>1
    <3>3. f[1..(i - 1)] \in CountStates BY <1>11, <3>1
    <3>. QED BY <1>3, <1>11, <3>2, <3>3
  <2>. QED BY <1>11, <2>1, <2>2 DEF CountSteps, n
<1>13. p[n] = f[1..n] BY <1>0
<1>. QED BY <1>1, <1>12, <1>13 DEF n

(* The counters are the tallies of the lines. *)
Tallied(lines, tallies) ==
  \A w \in Words : tallies[w] = Cardinality(WordCount!Occurrences(lines, w))

(* Counting a line goes from what stands for the lines before it to what   *)
(* stands for them and the line.                                           *)
LEMMA LineCounted ==
  ASSUME NEW lines \in Lines, NEW line \in Seq(Words), NEW s0 \in CountStates,
         Tallied(lines, s0.counts)
  PROVE  LET s == WordCount!FoldLeft(WordCount!CountOne, s0, line) IN
         /\ s \in CountStates
         /\ Tallied(Append(lines, line), s.counts)
         /\ WordCount!Batch => s.out = s0.out
         /\ ~WordCount!Batch /\ AllListed(s0.out, s0.counts) => AllListed(s.out, s.counts)
<1>. DEFINE n == Len(line)
            Through(i, s) ==
              /\ \A w \in Words : s.counts[w] = Cardinality(UpToWord(lines, line, i, w))
              /\ WordCount!Batch => s.out = s0.out
              /\ ~WordCount!Batch /\ AllListed(s0.out, s0.counts) => AllListed(s.out, s.counts)
<1>0. n \in Nat /\ \A i \in 1..n : line[i] \in Words OBVIOUS
<1>1. PICK p : CountSteps(line, s0, p)
               /\ WordCount!FoldLeft(WordCount!CountOne, s0, line) = p[n]
  BY CountsLine
<1>2. /\ p \in [0..n -> CountStates] /\ p[0] = s0
      /\ \A i \in 1..n : p[i] = WordCount!CountOne(p[i - 1], line[i])
  BY <1>1 DEF CountSteps
<1>. HIDE DEF n
<1>3. \A i \in 0..n : Through(i, p[i])
  <2>. DEFINE bad == {i \in 0..n : ~Through(i, p[i])}
  <2>. SUFFICES ASSUME bad # {} PROVE FALSE OBVIOUS
  <2>1. bad \subseteq Nat OBVIOUS
  <2>2. PICK m \in bad : \A i \in bad : m =< i
    <3>. HIDE DEF bad
    <3>. QED BY <2>1, LeastNumber
  <2>3. m \in 0..n /\ ~Through(m, p[m]) OBVIOUS
  <2>4. m # 0
    <3>1. Through(0, p[0]) BY <1>2, WholeLine DEF Tallied
    <3>. QED BY <2>3, <3>1
  <2>5. m \in 1..n /\ m - 1 \in 0..n BY <1>0, <2>3, <2>4
  <2>6. Through(m - 1, p[m - 1])
    <3>1. m - 1 \notin bad
      <4>. HIDE DEF bad
      <4>. QED BY <2>2, <2>5
    <3>. HIDE DEF Through
    <3>. QED BY <2>5, <3>1
  <2>. DEFINE b == p[m - 1]
              w == line[m]
              s == p[m]
  <2>7. b \in CountStates /\ w \in Words /\ s = WordCount!CountOne(b, w) /\ Through(m - 1, b)
    BY <1>0, <1>2, <2>5, <2>6
  <2>. HIDE DEF b, s, w
  <2>8. /\ s.counts = [b.counts EXCEPT ![w] = @ + 1] /\ b.counts \in [Words -> Nat]
        /\ WordCount!Batch => s.out = b.out
        /\ ~WordCount!Batch /\ AllListed(b.out, b.counts) => AllListed(s.out, s.counts)
    <3>1. b.counts \in [Words -> Nat] BY <2>7 DEF CountStates, Counters
    <3>. HIDE DEF Through
    <3>. QED BY <2>7, <3>1, CountOneKeeps
  <2>9. \A v \in Words : s.counts[v] = Cardinality(UpToWord(lines, line, m, v))
    <3>. SUFFICES ASSUME NEW v \in Words
         PROVE s.counts[v] = Cardinality(UpToWord(lines, line, m, v))
      OBVIOUS
    <3>1. b.counts[v] = Cardinality(UpToWord(lines, line, m - 1, v)) BY <2>7
    <3>2. Cardinality(UpToWord(lines, line, m, v)) =
            Cardinality(UpToWord(lines, line, m - 1, v)) + (IF line[m] = v THEN 1 ELSE 0)
      BY <2>5, OneMoreWord DEF n
    <3>3. s.counts[v] = b.counts[v] + (IF w = v THEN 1 ELSE 0) BY <2>7, <2>8
    <3>. QED BY <3>1, <3>2, <3>3 DEF w
  <2>10. Through(m, s) BY <2>7, <2>8, <2>9
  <2>. QED BY <2>3, <2>10 DEF s
<1>4. n \in 0..n /\ p[n] \in CountStates BY <1>0, <1>2
<1>5. Through(n, p[n]) BY <1>3, <1>4
<1>6. Tallied(Append(lines, line), p[n].counts)
  <2>1. \A w \in Words : p[n].counts[w] = Cardinality(UpToWord(lines, line, n, w)) BY <1>5
  <2>. QED BY <2>1, WholeLine DEF Tallied, n
<1>. QED BY <1>1, <1>4, <1>5, <1>6


(* The one row of a word in batch mode. *)
Totals(w) == [r \in Nat |-> WordCount!Row("+I", w, counts[w])]

(* What a word count has counted, reported and would come back to: the     *)
(* counters are the tallies of the lines read, and in files are the        *)
(* reports of them.  A batch job has no checkpoint before it ends.         *)
WordsTyped ==
  /\ program \in WordCount!Programs
  /\ input \in Lines /\ read \in Lines /\ reported \subseteq Words
  /\ counts \in Counters /\ out \in Seq(WordRows)
  /\ ckpt \in [read : Lines, counts : Counters, out : Seq(WordRows)]

WordsCounted == Tallied(read, counts) /\ Tallied(ckpt.read, ckpt.counts)

StreamListed ==
  ~WordCount!Batch /\ sink = "file" =>
    AllListed(out, counts) /\ AllListed(ckpt.out, ckpt.counts)

BatchListed ==
  WordCount!Batch =>
    /\ reported # {} => read = input
    /\ \A w \in reported : counts[w] > 0
    /\ sink = "file" =>
         \A w \in Words : Listed(out, w, IF w \in reported THEN 1 ELSE 0, Totals(w))
    /\ ~ended => ckpt = [read |-> <<>>, counts |-> WordCount!Nothing, out |-> <<>>]
    /\ ended => read = input /\ WordCount!FilesExact

WordsInv == WordsTyped /\ WordsCounted /\ StreamListed /\ BatchListed

(* Nothing is listed of nothing. *)
LEMMA NothingListed ==
  ASSUME NEW w, NEW g PROVE Listed(<<>>, w, 0, g)
<1>1. WordPlaces(<<>>, w, Len(<<>>)) = {} BY DEF WordPlaces
<1>. QED BY <1>1, FS_EmptySet DEF Listed, WordRank

(* Before a line is read all counters are zero, and nothing is reported. *)
LEMMA NothingCounted ==
  /\ Tallied(<<>>, WordCount!Nothing)
  /\ AllListed(<<>>, WordCount!Nothing)
  /\ WordCount!Nothing \in Counters /\ <<>> \in Lines /\ <<>> \in Seq(WordRows)
<1>1. \A w \in Words : WordCount!Nothing[w] = 0 BY DEF WordCount!Nothing
<1>2. \A w : WordCount!Occurrences(<<>>, w) = {} BY DEF WordCount!Occurrences
<1>3. Tallied(<<>>, WordCount!Nothing) BY <1>1, <1>2, FS_EmptySet DEF Tallied
<1>4. AllListed(<<>>, WordCount!Nothing)
  <2>1. Reported(0) = 0 BY DEF Reported
  <2>. QED BY <1>1, <2>1, NothingListed DEF AllListed
<1>5. WordCount!Nothing \in Counters BY DEF WordCount!Nothing, Counters
<1>6. <<>> \in Lines /\ <<>> \in Seq(WordRows) BY DEF Lines
<1>. QED BY <1>3, <1>4, <1>5, <1>6

(* In the beginning nothing is counted, in memory or in the checkpoint. *)
LEMMA WordsInit == ASSUME WordCount!Init PROVE WordsInv
<1>1. /\ program \in WordCount!Programs
      /\ read = <<>> /\ counts = WordCount!Nothing /\ out = <<>>
      /\ ckpt = [read |-> <<>>, counts |-> WordCount!Nothing, out |-> <<>>]
      /\ reported = {} /\ ended = FALSE
  BY DEF WordCount!Init
<1>2. input \in Lines
  <2>1. input = <<>> \/ input \in Files BY DEF WordCount!Init
  <2>. QED BY <2>1, FilesAssumption, NothingCounted DEF FilesAssumption, Lines
<1>3. ckpt.read = <<>> /\ ckpt.counts = WordCount!Nothing /\ ckpt.out = <<>> BY <1>1
<1>4. WordsTyped
  <2>1. ckpt \in [read : Lines, counts : Counters, out : Seq(WordRows)]
    <3>. DEFINE L == Lines
                C == Counters
                R == Seq(WordRows)
                z == WordCount!Nothing
    <3>1. ckpt = [read |-> <<>>, counts |-> z, out |-> <<>>] /\ <<>> \in L /\ z \in C /\ <<>> \in R
      BY <1>1, NothingCounted
    <3>. HIDE DEF L, C, R, z
    <3>2. ckpt \in [read : L, counts : C, out : R] BY <3>1
    <3>. QED BY <3>2 DEF L, C, R
  <2>. QED BY <1>1, <1>2, <2>1, NothingCounted DEF WordsTyped
<1>5. WordsCounted BY <1>1, <1>3, NothingCounted DEF WordsCounted
<1>6. StreamListed BY <1>1, <1>3, NothingCounted DEF StreamListed
<1>7. BatchListed BY <1>1, NothingListed DEF BatchListed
<1>. QED BY <1>4, <1>5, <1>6, <1>7 DEF WordsInv

(* The three parts of a checkpoint. *)
LEMMA CheckpointParts ==
  ASSUME WordsTyped
  PROVE  ckpt.read \in Lines /\ ckpt.counts \in Counters /\ ckpt.out \in Seq(WordRows)
<1>. DEFINE L == Lines
            C == Counters
            R == Seq(WordRows)
<1>1. ckpt \in [read : L, counts : C, out : R] BY DEF WordsTyped
<1>. HIDE DEF L, C, R
<1>2. ckpt.read \in L /\ ckpt.counts \in C /\ ckpt.out \in R BY <1>1
<1>. QED BY <1>2 DEF L, C, R

(* Listings are the same before and after a step. *)
LEMMA SameListing ==
  ASSUME program' = program
  PROVE  (WordCount!Batch' <=> WordCount!Batch)
         /\ \A w, t : Reports(w)' = Reports(w) /\ Reported(t)' = Reported(t)
<1>1. (WordCount!Batch' <=> WordCount!Batch) /\ (WordCount!Changelog' <=> WordCount!Changelog)
  BY DEF WordCount!Batch, WordCount!Changelog
<1>. QED BY <1>1 DEF Reports, Reported, WordCount!Row

(* Of no rows it does not matter what they are. *)
LEMMA NoneListed ==
  ASSUME NEW S, NEW rows \in Seq(S), NEW w, NEW g, NEW h, Listed(rows, w, 0, g)
  PROVE  Listed(rows, w, 0, h)
<1>1. Len(rows) \in Nat /\ WordRank(rows, w, Len(rows)) = 0 BY DEF Listed
<1>2. IsFiniteSet(WordPlaces(rows, w, Len(rows)))
  <2>1. WordPlaces(rows, w, Len(rows)) \subseteq 1..Len(rows) BY DEF WordPlaces
  <2>2. IsFiniteSet(1..Len(rows)) BY <1>1, FS_Interval
  <2>. QED BY <2>1, <2>2, FS_Subset
<1>3. WordPlaces(rows, w, Len(rows)) = {} BY <1>1, <1>2, FS_EmptySet DEF WordRank
<1>. QED BY <1>1, <1>3 DEF Listed

(* Counting a line keeps the invariant when a batch job has not begun to   *)
(* report.                                                                 *)
LEMMA LineKeeps ==
  ASSUME WordsInv, NEW line \in Seq(Words), WordCount!CountLine(line),
         WordCount!Batch => reported = {} /\ ~ended,
         UNCHANGED <<program, sink, input, ckpt, reported, failures, ended>>
  PROVE  WordsInv'
<1>. DEFINE s0 == [counts |-> counts, out |-> out]
            s == WordCount!FoldLeft(WordCount!CountOne, s0, line)
<1>1. /\ program \in WordCount!Programs
      /\ input \in Lines /\ read \in Lines /\ reported \subseteq Words
      /\ counts \in Counters /\ out \in Seq(WordRows)
  BY DEF WordsInv, WordsTyped
<1>2. s0 \in CountStates /\ s0.counts = counts /\ s0.out = out
  <2>. DEFINE C == Counters
              R == Seq(WordRows)
  <2>1. counts \in C /\ out \in R BY <1>1
  <2>. HIDE DEF C, R
  <2>2. s0 \in [counts : C, out : R] /\ s0.counts = counts /\ s0.out = out BY <2>1
  <2>. QED BY <2>2 DEF C, R, CountStates
<1>3. /\ read' = Append(read, line) /\ counts' = s.counts /\ out' = s.out
      /\ program' = program /\ sink' = sink /\ input' = input /\ ckpt' = ckpt
      /\ reported' = reported /\ ended' = ended
  BY DEF WordCount!CountLine
<1>4. (WordCount!Batch' <=> WordCount!Batch) /\ (WordCount!Changelog' <=> WordCount!Changelog)
  BY <1>3 DEF WordCount!Batch, WordCount!Changelog
<1>. HIDE DEF s0
<1>5. /\ s \in CountStates
      /\ Tallied(Append(read, line), s.counts)
      /\ WordCount!Batch => s.out = out
      /\ ~WordCount!Batch /\ AllListed(out, counts) => AllListed(s.out, s.counts)
  <2>1. Tallied(read, s0.counts) BY <1>2 DEF WordsInv, WordsCounted
  <2>. QED BY <1>1, <1>2, <2>1, LineCounted
<1>. HIDE DEF s
<1>6. s.counts \in Counters /\ s.out \in Seq(WordRows) /\ Append(read, line) \in Lines
  <2>1. \A q \in Lines : Append(q, line) \in Lines BY DEF Lines
  <2>2. s.counts \in Counters /\ s.out \in Seq(WordRows) BY <1>5 DEF CountStates
  <2>. QED BY <1>1, <2>1, <2>2
<1>7. WordsTyped' BY <1>1, <1>3, <1>6 DEF WordsInv, WordsTyped
<1>8. WordsCounted' BY <1>3, <1>5 DEF WordsInv, WordsCounted
<1>9. StreamListed'
  <2>. SUFFICES ASSUME ~WordCount!Batch, sink = "file"
       PROVE AllListed(out, counts)' /\ AllListed(ckpt.out, ckpt.counts)'
    BY <1>3, <1>4 DEF StreamListed
  <2>1. AllListed(out, counts) /\ AllListed(ckpt.out, ckpt.counts)
    BY DEF WordsInv, StreamListed
  <2>2. AllListed(s.out, s.counts) BY <1>5, <2>1
  <2>3. \A w \in Words : Listed(s.out, w, Reported(s.counts[w]), Reports(w))
    BY <2>2 DEF AllListed
  <2>4. \A w, t : Reports(w)' = Reports(w) /\ Reported(t)' = Reported(t)
    BY <1>3, SameListing
  <2>5. AllListed(out, counts)' BY <1>3, <2>3, <2>4 DEF AllListed
  <2>6. AllListed(ckpt.out, ckpt.counts)' BY <1>3, <2>1, <2>4 DEF AllListed
  <2>. QED BY <2>5, <2>6
<1>10. BatchListed'
  <2>. SUFFICES ASSUME WordCount!Batch PROVE BatchListed' BY <1>4 DEF BatchListed
  <2>1. reported = {} /\ ~ended /\ out' = out BY <1>3, <1>5
  <2>2. /\ ckpt = [read |-> <<>>, counts |-> WordCount!Nothing, out |-> <<>>]
        /\ sink = "file" => \A w \in Words : Listed(out, w, 0, Totals(w))
    BY <2>1 DEF WordsInv, BatchListed
  <2>3. sink = "file" => \A w \in Words : Listed(out, w, 0, Totals(w)')
    BY <1>1, <2>2, NoneListed
  <2>4. sink = "file" => \A w \in Words : Listed(out, w, 0, Totals(w))'
    BY <2>1, <2>3 DEF Listed, WordRank, WordPlaces
  <2>5. WordCount!Nothing' = WordCount!Nothing BY DEF WordCount!Nothing
  <2>. QED BY <1>3, <2>1, <2>2, <2>4, <2>5 DEF BatchListed
<1>. QED BY <1>7, <1>8, <1>9, <1>10 DEF WordsInv


(* A tally is what is counted. *)
LEMMA TallyIs ==
  \A lines, w : WordCount!Tally(lines, w) = Cardinality(WordCount!Occurrences(lines, w))
<1>1. \A S : WordCount!Cardinality(S) = Cardinality(S)
  BY Zenon DEF WordCount!Cardinality, Cardinality
<1>. QED BY <1>1 DEF WordCount!Tally

(* The rows of a word in batch mode, when it has been reported or does not *)
(* occur.                                                                  *)
LEMMA BatchExact ==
  ASSUME WordCount!Batch, NEW rows \in Seq(WordRows), NEW w \in Words, NEW t \in Nat,
         NEW done, done => t > 0, t > 0 => done, NEW g, g = [r \in Nat |-> WordCount!Row("+I", w, t)],
         Listed(rows, w, IF done THEN 1 ELSE 0, g)
  PROVE  WordCount!Exact(rows, w, WordCount!Called(w, t))
<1>1. CASE t = 0
  <2>1. WordCount!Called(w, t) = <<>> /\ Listed(rows, w, 0, g) BY <1>1 DEF WordCount!Called
  <2>. DEFINE c == WordCount!Called(w, t)
  <2>2. Len(c) = 0 /\ \A r \in 1..0 : c[r] = g[r] BY <2>1
  <2>. HIDE DEF c
  <2>3. WordCount!Exact(rows, w, c) BY <2>1, <2>2, ListedExact
  <2>. QED BY <2>3 DEF c
<1>2. CASE t > 0
  <2>1. WordCount!Called(w, t) = <<WordCount!Row("+I", w, t)>> /\ Listed(rows, w, 1, g)
    BY <1>2 DEF WordCount!Called
  <2>. DEFINE c == WordCount!Called(w, t)
  <2>2. Len(c) = 1 /\ \A r \in 1..1 : c[r] = g[r] BY <2>1
  <2>. HIDE DEF c
  <2>3. WordCount!Exact(rows, w, c) BY <2>1, <2>2, ListedExact
  <2>. QED BY <2>3 DEF c
<1>. QED BY <1>1, <1>2

(* When a word is reported, that is its row. *)
LEMMA ReportKeeps == ASSUME WordsInv, WordCount!ReportWord PROVE WordsInv'
<1>1. PICK w \in Words \ reported :
        counts[w] > 0 /\ out' = Append(out, WordCount!Row("+I", w, counts[w]))
        /\ reported' = reported \cup {w}
  BY DEF WordCount!ReportWord
<1>2. /\ program' = program /\ sink' = sink /\ input' = input /\ read' = read
      /\ counts' = counts /\ ckpt' = ckpt /\ ended' = ended
      /\ WordCount!Batch /\ read = input /\ ~ended
  BY DEF WordCount!ReportWord, WordCount!Counted
<1>3. counts \in Counters /\ counts[w] \in Nat /\ out \in Seq(WordRows)
  BY <1>1 DEF WordsInv, WordsTyped, Counters
<1>. DEFINE row == WordCount!Row("+I", w, counts[w])
<1>4. row \in WordRows /\ row.word = w /\ row = Totals(w)[0 + 1]
  BY <1>1, <1>3 DEF WordRows, WordCount!Row, Totals
<1>. HIDE DEF row
<1>5. out' = Append(out, row) /\ out' \in Seq(WordRows)
  <2>1. \A q \in Seq(WordRows), x \in WordRows : Append(q, x) \in Seq(WordRows) OBVIOUS
  <2>. QED BY <1>1, <1>3, <1>4, <2>1 DEF row
<1>6. WordsTyped' BY <1>1, <1>2, <1>5 DEF WordsInv, WordsTyped
<1>7. WordsCounted' BY <1>2 DEF WordsInv, WordsCounted
<1>8. WordCount!Batch' /\ \A v : Totals(v)' = Totals(v)
  BY <1>2 DEF WordCount!Batch, Totals, WordCount!Row
<1>9. StreamListed' BY <1>8 DEF StreamListed
<1>10. ASSUME sink = "file", NEW v \in Words
       PROVE  Listed(out', v, IF v \in reported' THEN 1 ELSE 0, Totals(v))
  <2>. DEFINE m == IF v \in reported THEN 1 ELSE 0
              g == Totals(v)
  <2>1. m \in Nat /\ Listed(out, v, m, g) BY <1>2, <1>10 DEF WordsInv, BatchListed
  <2>2. CASE v = w
    <3>1. m = 0 /\ v \in reported' /\ row = g[m + 1] BY <1>1, <1>4, <2>2
    <3>. HIDE DEF m, g
    <3>2. Listed(Append(out, row), v, m + 1, g) BY <1>3, <1>4, <2>1, <2>2, <3>1, ListedAppend
    <3>3. m + 1 = 1 BY <3>1
    <3>. QED BY <1>5, <3>1, <3>2, <3>3 DEF g
  <2>3. CASE v # w
    <3>1. (v \in reported' <=> v \in reported) /\ row.word # v BY <1>1, <1>4, <2>3
    <3>. HIDE DEF m, g
    <3>2. Listed(Append(out, row), v, m, g) BY <1>3, <1>4, <2>1, <3>1, ListedAppend
    <3>. QED BY <1>5, <3>1, <3>2 DEF m, g
  <2>. QED BY <2>2, <2>3
<1>11. BatchListed'
  <2>1. sink' = "file" => \A v \in Words :
          Listed(out, v, IF v \in reported THEN 1 ELSE 0, Totals(v))'
    BY <1>2, <1>8, <1>10 DEF Listed, WordRank, WordPlaces
  <2>2. \A v \in reported' : counts'[v] > 0
    BY <1>1, <1>2 DEF WordsInv, BatchListed
  <2>3. ckpt' = [read |-> <<>>, counts |-> WordCount!Nothing', out |-> <<>>]
    BY <1>2 DEF WordsInv, BatchListed, WordCount!Nothing
  <2>. QED BY <1>2, <2>1, <2>2, <2>3 DEF BatchListed
<1>. QED BY <1>6, <1>7, <1>9, <1>11 DEF WordsInv

(* What is saved by a checkpoint. *)
LEMMA CheckpointIs ==
  ASSUME WordsTyped, NEW c, c = [read |-> read, counts |-> counts, out |-> out]
  PROVE  /\ c \in [read : Lines, counts : Counters, out : Seq(WordRows)]
         /\ c.read = read /\ c.counts = counts /\ c.out = out
<1>. DEFINE L == Lines
            C == Counters
            R == Seq(WordRows)
<1>1. read \in L /\ counts \in C /\ out \in R BY DEF WordsTyped
<1>. HIDE DEF L, C, R
<1>2. c \in [read : L, counts : C, out : R] /\ c.read = read /\ c.counts = counts /\ c.out = out
  BY <1>1
<1>. QED BY <1>2 DEF L, C, R

(* A checkpoint, and the end of a job, save what is listed.                *)
LEMMA CheckpointKeeps ==
  ASSUME WordsInv, WordCount!Checkpoint \/ WordCount!End PROVE WordsInv'
<1>1. /\ program' = program /\ sink' = sink /\ input' = input /\ read' = read
      /\ counts' = counts /\ out' = out /\ reported' = reported
      /\ ckpt' = [read |-> read, counts |-> counts, out |-> out]
      /\ WordCount!Batch => /\ ended' = TRUE /\ read = input
                            /\ \A w \in Words : counts[w] > 0 => w \in reported
  BY DEF WordCount!Checkpoint, WordCount!End, WordCount!Counted
<1>2. /\ ckpt' \in [read : Lines, counts : Counters, out : Seq(WordRows)]
      /\ ckpt'.read = read /\ ckpt'.counts = counts /\ ckpt'.out = out
  BY <1>1, CheckpointIs DEF WordsInv
<1>3. WordsTyped' BY <1>1, <1>2 DEF WordsInv, WordsTyped
<1>4. WordsCounted' BY <1>1, <1>2 DEF WordsInv, WordsCounted
<1>5. (WordCount!Batch' <=> WordCount!Batch) /\ (\A v : Totals(v)' = Totals(v))
      /\ \A w, t : Reports(w)' = Reports(w) /\ Reported(t)' = Reported(t)
  BY <1>1, SameListing DEF Totals, WordCount!Row
<1>6. StreamListed'
  <2>. SUFFICES ASSUME ~WordCount!Batch, sink = "file"
       PROVE AllListed(out, counts)' /\ AllListed(ckpt.out, ckpt.counts)'
    BY <1>1, <1>5 DEF StreamListed
  <2>1. AllListed(out, counts) BY DEF WordsInv, StreamListed
  <2>2. AllListed(out, counts)' BY <1>1, <1>5, <2>1 DEF AllListed
  <2>3. AllListed(ckpt.out, ckpt.counts)' BY <1>2, <1>5, <2>1 DEF AllListed
  <2>. QED BY <2>2, <2>3
<1>7. BatchListed'
  <2>. SUFFICES ASSUME WordCount!Batch PROVE BatchListed' BY <1>5 DEF BatchListed
  <2>0. BatchListed /\ WordsTyped /\ WordsCounted BY DEF WordsInv
  <2>1. sink = "file" => \A v \in Words :
          Listed(out, v, IF v \in reported THEN 1 ELSE 0, Totals(v))'
    <3>1. sink = "file" => \A v \in Words :
            Listed(out, v, IF v \in reported THEN 1 ELSE 0, Totals(v))
      BY <2>0 DEF BatchListed
    <3>. SUFFICES ASSUME sink = "file", NEW v \in Words
         PROVE Listed(out, v, IF v \in reported THEN 1 ELSE 0, Totals(v))'
      OBVIOUS
    <3>2. Listed(out, v, IF v \in reported THEN 1 ELSE 0, Totals(v)) BY <3>1
    <3>3. \A i : WordPlaces(out, v, i)' = WordPlaces(out, v, i) BY <1>1 DEF WordPlaces
    <3>4. \A i : WordRank(out, v, i)' = WordRank(out, v, i) BY <3>3 DEF WordRank
    <3>5. Totals(v)' = Totals(v) BY <1>5
    <3>. QED BY <1>1, <3>2, <3>3, <3>4, <3>5 DEF Listed
  <2>2. ASSUME sink = "file", NEW w \in Words
        PROVE  WordCount!Exact(out, w, WordCount!Called(w, WordCount!Tally(read, w)))
    <3>. DEFINE t == counts[w]
                g == Totals(w)
                done == w \in reported
    <3>1. t \in Nat /\ out \in Seq(WordRows) BY <2>0 DEF WordsTyped, Counters
    <3>2. (done => t > 0) /\ (t > 0 => done) BY <1>1, <2>0 DEF BatchListed
    <3>3. Listed(out, w, IF done THEN 1 ELSE 0, g) BY <2>0, <2>2 DEF BatchListed
    <3>4. g = [r \in Nat |-> WordCount!Row("+I", w, t)] BY DEF Totals
    <3>. HIDE DEF t, g, done
    <3>5. WordCount!Exact(out, w, WordCount!Called(w, t))
      BY <3>1, <3>2, <3>3, <3>4, BatchExact
    <3>6. WordCount!Tally(read, w) = t BY <2>0, TallyIs DEF WordsCounted, Tallied, t
    <3>. QED BY <3>5, <3>6
  <2>3. WordCount!FilesExact'
    <3>1. \A w, t : WordCount!Called(w, t)' = WordCount!Called(w, t)
      BY <1>1 DEF WordCount!Called, WordCount!Batch, WordCount!Changelog, WordCount!Row
    <3>2. \A w : WordCount!Tally(ckpt.read, w)' = WordCount!Tally(read, w)
      BY <1>2 DEF WordCount!Tally, WordCount!Occurrences
    <3>3. ASSUME NEW w
          PROVE  WordCount!Exact(ckpt.out, w, WordCount!Called(w, WordCount!Tally(ckpt.read, w)))'
                   <=> WordCount!Exact(out, w, WordCount!Called(w, WordCount!Tally(read, w)))
      <4>1. WordCount!Called(w, WordCount!Tally(ckpt.read, w))'
              = WordCount!Called(w, WordCount!Tally(read, w))
        BY <3>1, <3>2
      <4>. QED BY <1>2, <4>1 DEF WordCount!Exact, WordCount!Places
    <3>. QED BY <1>1, <2>2, <3>3 DEF WordCount!FilesExact
  <2>. QED BY <1>1, <2>0, <2>1, <2>3 DEF BatchListed
<1>. QED BY <1>3, <1>4, <1>6, <1>7 DEF WordsInv


(* A failure goes back to what the checkpoint has, or to nothing.          *)
LEMMA FailKeeps == ASSUME WordsInv, WordCount!Fail PROVE WordsInv'
<1>1. /\ program' = program /\ sink' = sink /\ input' = input /\ ckpt' = ckpt
      /\ read' = ckpt.read /\ counts' = ckpt.counts /\ reported' = {}
      /\ ended' = ended /\ ~ended
      /\ out' = IF sink = "file" THEN ckpt.out ELSE out
  BY DEF WordCount!Fail
<1>2. /\ ckpt.read \in Lines /\ ckpt.counts \in Counters /\ ckpt.out \in Seq(WordRows)
      /\ out \in Seq(WordRows)
  BY CheckpointParts DEF WordsInv, WordsTyped
<1>3. WordsTyped' BY <1>1, <1>2 DEF WordsInv, WordsTyped
<1>4. WordsCounted' BY <1>1 DEF WordsInv, WordsCounted
<1>5. (WordCount!Batch' <=> WordCount!Batch)
      /\ \A w, t : Reports(w)' = Reports(w) /\ Reported(t)' = Reported(t)
  BY <1>1, SameListing
<1>6. StreamListed'
  <2>. SUFFICES ASSUME ~WordCount!Batch, sink = "file"
       PROVE AllListed(out, counts)' /\ AllListed(ckpt.out, ckpt.counts)'
    BY <1>1, <1>5 DEF StreamListed
  <2>1. AllListed(ckpt.out, ckpt.counts) BY DEF WordsInv, StreamListed
  <2>2. AllListed(out, counts)' BY <1>1, <1>5, <2>1 DEF AllListed
  <2>3. AllListed(ckpt.out, ckpt.counts)' BY <1>1, <1>5, <2>1 DEF AllListed
  <2>. QED BY <2>2, <2>3
<1>7. BatchListed'
  <2>. SUFFICES ASSUME WordCount!Batch PROVE BatchListed' BY <1>5 DEF BatchListed
  <2>1. ckpt = [read |-> <<>>, counts |-> WordCount!Nothing, out |-> <<>>]
    BY <1>1 DEF WordsInv, BatchListed
  <2>2. ckpt.out = <<>> BY <2>1
  <2>3. sink = "file" => \A v \in Words : Listed(<<>>, v, 0, Totals(v)') BY NothingListed
  <2>4. sink' = "file" => \A v \in Words :
          Listed(out, v, IF v \in reported THEN 1 ELSE 0, Totals(v))'
    BY <1>1, <2>2, <2>3 DEF Listed, WordRank, WordPlaces
  <2>5. WordCount!Nothing' = WordCount!Nothing BY DEF WordCount!Nothing
  <2>. QED BY <1>1, <2>1, <2>4, <2>5 DEF BatchListed
<1>. QED BY <1>3, <1>4, <1>6, <1>7 DEF WordsInv

(* Any step keeps it. *)
LEMMA WordsKeep == ASSUME WordsInv, WordCount!Next PROVE WordsInv'
<1>1. CASE WordCount!ReadLine
  <2>1. /\ WordCount!CountLine(input[Len(read) + 1]) /\ Len(read) < Len(input)
        /\ UNCHANGED <<program, sink, input, ckpt, reported, failures, ended>>
    BY <1>1 DEF WordCount!ReadLine
  <2>2. read \in Lines /\ input \in Lines BY DEF WordsInv, WordsTyped
  <2>3. input[Len(read) + 1] \in Seq(Words)
    <3>1. Len(read) \in Nat /\ Len(input) \in Nat BY <2>2 DEF Lines
    <3>2. Len(read) + 1 \in 1..Len(input) BY <2>1, <3>1
    <3>. QED BY <2>2, <3>2, ElementIn DEF Lines
  <2>4. WordCount!Batch => reported = {} /\ ~ended
    <3>1. WordCount!Batch /\ (reported # {} \/ ended) => read = input
      BY DEF WordsInv, BatchListed
    <3>2. Len(read) \in Nat /\ Len(input) \in Nat BY <2>2 DEF Lines
    <3>3. read # input BY <2>1, <3>2
    <3>. QED BY <3>1, <3>3
  <2>. QED BY <2>1, <2>3, <2>4, LineKeeps
<1>2. CASE WordCount!DrawWord
  <2>1. PICK w \in Words : WordCount!CountLine(<<w>>) BY <1>2 DEF WordCount!DrawWord
  <2>2. <<w>> \in Seq(Words) BY <2>1
  <2>3. ~WordCount!Batch
    BY <1>2 DEF WordCount!DrawWord, WordsInv, WordsTyped, WordCount!Programs, WordCount!Batch,
       WordCount!word_count, WordCount!table_word_count, WordCount!streaming_word_count,
       WordCount!table_streaming_word_count
  <2>4. UNCHANGED <<program, sink, input, ckpt, reported, failures, ended>>
    BY <1>2 DEF WordCount!DrawWord
  <2>. QED BY <2>1, <2>2, <2>3, <2>4, LineKeeps
<1>. QED
  BY <1>1, <1>2, ReportKeeps, CheckpointKeeps, FailKeeps DEF WordCount!Next

(* The counters of a word count are always the tallies of the lines read,  *)
(* and those of its checkpoint of the lines up to there; out and the files *)
(* hold the reports of just these, for any files and failures and with     *)
(* checkpoints at any moment.                                              *)
THEOREM WordsInvariance == Spec => [](which = "words" => WordsInv)
<1>1. ASSUME Init, which = "words" PROVE WordsInv
  <2>1. WordCount!Init BY <1>1 DEF Init
  <2>. QED BY <2>1, WordsInit
<1>2. ASSUME which = "words" => WordsInv, [Next]_vars PROVE (which = "words" => WordsInv)'
  <2>1. which' = which BY <1>2, WhichStep
  <2>. SUFFICES ASSUME which = "words", WordsInv PROVE WordsInv' BY <1>2, <2>1
  <2>2. CASE UNCHANGED vars
    <3>1. UNCHANGED <<program, sink, input, read, counts, out, ckpt, reported, failures, ended>>
      BY <2>2 DEF vars, wordVars
    <3>2. (WordCount!Batch' <=> WordCount!Batch) /\ (\A w : Totals(w)' = Totals(w))
          /\ \A w, t : Reports(w)' = Reports(w) /\ Reported(t)' = Reported(t)
      BY <3>1, SameListing DEF Totals, WordCount!Row
    <3>3. WordsTyped'
      BY <3>1 DEF WordsInv, WordsTyped
    <3>4. WordsCounted' BY <3>1 DEF WordsInv, WordsCounted
    <3>5. StreamListed'
      <4>1. /\ AllListed(out, counts)' <=> AllListed(out, counts)
            /\ AllListed(ckpt.out, ckpt.counts)' <=> AllListed(ckpt.out, ckpt.counts)
        BY <3>1, <3>2 DEF AllListed
      <4>. QED BY <3>1, <3>2, <4>1 DEF WordsInv, StreamListed
    <3>6. BatchListed'
      <4>1. \A w : Listed(out, w, IF w \in reported THEN 1 ELSE 0, Totals(w))'
                     <=> Listed(out, w, IF w \in reported THEN 1 ELSE 0, Totals(w))
        BY <3>1, <3>2 DEF Listed, WordRank, WordPlaces
      <4>2. WordCount!Nothing' = WordCount!Nothing BY DEF WordCount!Nothing
      <4>3. WordCount!FilesExact' <=> WordCount!FilesExact
        BY <3>1 DEF WordCount!FilesExact, WordCount!Exact, WordCount!Called, WordCount!Tally,
           WordCount!Occurrences, WordCount!Places, WordCount!Batch, WordCount!Changelog,
           WordCount!Row
      <4>. QED BY <3>1, <3>2, <4>1, <4>2, <4>3 DEF WordsInv, BatchListed
    <3>. QED BY <3>3, <3>4, <3>5, <3>6 DEF WordsInv
  <2>3. CASE Next
    <3>1. WordCount!Next BY <2>3 DEF Next, InGroups, InTables, InTopic, InBulks
    <3>. QED BY <3>1, WordsKeep
  <2>. QED BY <1>2, <2>2, <2>3
<1>. QED BY <1>1, <1>2, PTL DEF Spec

(* The files that survive a failure hold for every word exactly the rows   *)
(* of what was read up to the checkpoint, in their order: none is twice,   *)
(* none missing, and every update takes back the row it replaces.          *)
THEOREM AlwaysFilesExact == Spec => []FilesExact
<1>1. ASSUME WordsInv PROVE WordCount!FilesExact
  <2>. SUFFICES ASSUME sink = "file", NEW w \in Words
       PROVE  WordCount!Exact(ckpt.out, w, WordCount!Called(w, WordCount!Tally(ckpt.read, w)))
    BY DEF WordCount!FilesExact
  <2>1. /\ ckpt.counts \in [Words -> Nat] /\ ckpt.out \in Seq(WordRows)
        /\ ckpt.counts[w] = WordCount!Tally(ckpt.read, w)
    BY <1>1, CheckpointParts, TallyIs DEF WordsInv, WordsCounted, Tallied, Counters
  <2>. DEFINE t == WordCount!Tally(ckpt.read, w)
  <2>2. t \in Nat /\ ckpt.counts[w] = t BY <2>1
  <2>3. CASE ~WordCount!Batch
    <3>. DEFINE c == WordCount!Called(w, t)
                m == Reported(t)
                g == Reports(w)
    <3>1. Listed(ckpt.out, w, Reported(ckpt.counts[w]), g)
      BY <1>1, <2>3 DEF WordsInv, StreamListed, AllListed
    <3>2. Listed(ckpt.out, w, m, g) BY <2>2, <3>1
    <3>3. Len(c) = m /\ \A r \in 1..m : c[r] = g[r] BY <2>2, <2>3, CalledReports
    <3>. HIDE DEF c, m, g
    <3>4. WordCount!Exact(ckpt.out, w, c) BY <2>1, <3>2, <3>3, ListedExact
    <3>. QED BY <3>4 DEF c
  <2>4. CASE WordCount!Batch /\ ~ended
    <3>1. ckpt = [read |-> <<>>, counts |-> WordCount!Nothing, out |-> <<>>]
      BY <1>1, <2>4 DEF WordsInv, BatchListed
    <3>2. ckpt.out = <<>> /\ ckpt.counts = WordCount!Nothing BY <3>1
    <3>3. t = 0 BY <2>2, <3>2 DEF WordCount!Nothing
    <3>. DEFINE c == WordCount!Called(w, t)
                g == [r \in Nat |-> r]
    <3>4. c = <<>> BY <3>3 DEF WordCount!Called
    <3>5. Len(c) = 0 /\ \A r \in 1..0 : c[r] = g[r] BY <3>4
    <3>. HIDE DEF c, g
    <3>6. Listed(ckpt.out, w, 0, g) BY <3>2, NothingListed
    <3>7. WordCount!Exact(ckpt.out, w, c) BY <2>1, <3>5, <3>6, ListedExact
    <3>. QED BY <3>7 DEF c
  <2>5. CASE WordCount!Batch /\ ended
    <3>1. WordCount!FilesExact BY <1>1, <2>5 DEF WordsInv, BatchListed
    <3>. QED BY <3>1 DEF WordCount!FilesExact
  <2>. QED BY <2>3, <2>4, <2>5
<1>2. (which = "words" => WordsInv) => FilesExact BY <1>1 DEF FilesExact
<1>. QED BY <1>2, WordsInvariance, PTL


-------------------------------------------------------------------------------
(* The changelogs of the aggregations. *)

GroupValues == Int \cup (Int \X Int) \cup {"row"}
Entry == [op : {"+I", "+U", "-D", "-U"}, country : GroupedTable!Countries, value : GroupValues]

(* The places up to n where a row v of c is given, or taken back.          *)
Given(o, c, v, n) ==
  {i \in 1..n : o[i].country = c /\ o[i].value = v /\ o[i].op \in {"+I", "+U"}}
TakenBack(o, c, v, n) ==
  {i \in 1..n : o[i].country = c /\ o[i].value = v /\ o[i].op \in {"-D", "-U"}}

(* How often that leaves v. *)
Net(o, c, v, n) == Cardinality(Given(o, c, v, n)) - Cardinality(TakenBack(o, c, v, n))

(* Where the keyed sum has sent v last. *)
SentLast(o, c, v, n) ==
  {i \in 1..n : /\ o[i].country = c /\ o[i].value = v /\ o[i].op \in {"+I"}
                /\ \A j \in (i + 1)..n : o[j].country # c}

(* How often v is in s. *)
In(s, v) == Cardinality({i \in DOMAIN s : s[i] = v})

(* What o leaves of country c are the values s, and it never takes back    *)
(* what is not there.                                                      *)
StandsFor(o, c, s) ==
  \A v : /\ \A n \in 1..Len(o) : Net(o, c, v, n) >= 0
         /\ Net(o, c, v, Len(o)) = In(s, v)

(* The last sum that was sent. *)
SumStands(o, c, s) ==
  \A v : SentLast(o, c, v, Len(o)) # {} <=> \E i \in DOMAIN s : s[i] = v

(* Short sequences. *)
LEMMA InShort ==
  ASSUME NEW v
  PROVE  /\ In(<<>>, v) = 0
         /\ \A x : In(<<x>>, v) = IF x = v THEN 1 ELSE 0
         /\ \A x, y : In(<<x, y>>, v) = (IF x = v THEN 1 ELSE 0) + (IF y = v THEN 1 ELSE 0)
<1>1. In(<<>>, v) = 0
  <2>1. {i \in DOMAIN <<>> : <<>>[i] = v} = {} OBVIOUS
  <2>. QED BY <2>1, FS_EmptySet DEF In
<1>2. \A x : In(<<x>>, v) = IF x = v THEN 1 ELSE 0
  <2>. SUFFICES ASSUME NEW x PROVE In(<<x>>, v) = IF x = v THEN 1 ELSE 0 OBVIOUS
  <2>. DEFINE T == {i \in DOMAIN <<x>> : <<x>>[i] = v}
  <2>1. CASE x = v
    <3>1. T = {1} BY <2>1
    <3>. QED BY <2>1, <3>1, FS_Singleton DEF In
  <2>2. CASE x # v
    <3>1. T = {} BY <2>2
    <3>. QED BY <2>2, <3>1, FS_EmptySet DEF In
  <2>. QED BY <2>1, <2>2
<1>3. \A x, y : In(<<x, y>>, v) = (IF x = v THEN 1 ELSE 0) + (IF y = v THEN 1 ELSE 0)
  <2>. SUFFICES ASSUME NEW x, NEW y
       PROVE In(<<x, y>>, v) = (IF x = v THEN 1 ELSE 0) + (IF y = v THEN 1 ELSE 0)
    OBVIOUS
  <2>. DEFINE T == {i \in DOMAIN <<x, y>> : <<x, y>>[i] = v}
  <2>0. \A i : i \in T <=> (i = 1 /\ x = v) \/ (i = 2 /\ y = v) OBVIOUS
  <2>. HIDE DEF T
  <2>1. CASE x = v /\ y = v
    <3>1. T = {1} \cup {2} BY <2>0, <2>1
    <3>2. IsFiniteSet({1}) /\ Cardinality({1}) = 1 BY FS_Singleton
    <3>3. 2 \notin {1} OBVIOUS
    <3>4. Cardinality({1} \cup {2}) = 1 + 1 BY <3>2, <3>3, FS_AddElement
    <3>5. Cardinality(T) = 2 BY <3>1, <3>4
    <3>. QED BY <2>1, <3>5 DEF In, T
  <2>2. CASE x = v /\ y # v
    <3>1. T = {1} BY <2>0, <2>2
    <3>. QED BY <2>2, <3>1, FS_Singleton DEF In, T
  <2>3. CASE x # v /\ y = v
    <3>1. T = {2} BY <2>0, <2>3
    <3>. QED BY <2>3, <3>1, FS_Singleton DEF In, T
  <2>4. CASE x # v /\ y # v
    <3>1. T = {} BY <2>0, <2>4
    <3>. QED BY <2>4, <3>1, FS_EmptySet DEF In, T
  <2>. QED BY <2>1, <2>2, <2>3, <2>4
<1>. QED BY <1>1, <1>2, <1>3

(* Given and taken back are finitely many, and as the entries say.         *)
LEMMA NetGrows ==
  ASSUME NEW o, NEW c, NEW v, NEW n \in Nat
  PROVE  /\ Net(o, c, v, n) \in Int
         /\ o[n + 1].country # c \/ o[n + 1].value # v => Net(o, c, v, n + 1) = Net(o, c, v, n)
         /\ o[n + 1].country = c /\ o[n + 1].value = v /\ o[n + 1].op \in {"+I", "+U"}
              => Net(o, c, v, n + 1) = Net(o, c, v, n) + 1
         /\ o[n + 1].country = c /\ o[n + 1].value = v /\ o[n + 1].op \in {"-D", "-U"}
              => Net(o, c, v, n + 1) = Net(o, c, v, n) - 1
<1>. DEFINE G == Given(o, c, v, n)
            T == TakenBack(o, c, v, n)
            H == Given(o, c, v, n + 1)
            U == TakenBack(o, c, v, n + 1)
<1>1. IsFiniteSet(1..n) BY FS_Interval
<1>2. G \subseteq 1..n /\ T \subseteq 1..n BY DEF Given, TakenBack
<1>3. /\ IsFiniteSet(G) /\ Cardinality(G) \in Nat
      /\ IsFiniteSet(T) /\ Cardinality(T) \in Nat
  <2>. HIDE DEF G, T
  <2>. QED BY <1>1, <1>2, FS_Subset, FS_CardinalityType
<1>4. 1..(n + 1) = 1..n \cup {n + 1} /\ n + 1 \notin 1..n OBVIOUS
<1>5. n + 1 \notin G /\ n + 1 \notin T BY <1>2, <1>4
<1>6. ASSUME o[n + 1].country # c \/ o[n + 1].value # v
      PROVE  Net(o, c, v, n + 1) = Net(o, c, v, n)
  <2>1. H = G /\ U = T BY <1>4, <1>6 DEF Given, TakenBack
  <2>. QED BY <2>1 DEF Net
<1>7. ASSUME o[n + 1].country = c, o[n + 1].value = v, o[n + 1].op \in {"+I", "+U"}
      PROVE  Net(o, c, v, n + 1) = Net(o, c, v, n) + 1
  <2>1. o[n + 1].op \notin {"-D", "-U"} BY <1>7
  <2>2. H = G \cup {n + 1} BY <1>4, <1>7 DEF Given
  <2>3. U = T BY <1>4, <2>1 DEF TakenBack
  <2>4. Cardinality(H) = Cardinality(G) + 1 BY <1>3, <1>5, <2>2, FS_AddElement
  <2>. QED BY <1>3, <2>3, <2>4 DEF Net
<1>8. ASSUME o[n + 1].country = c, o[n + 1].value = v, o[n + 1].op \in {"-D", "-U"}
      PROVE  Net(o, c, v, n + 1) = Net(o, c, v, n) - 1
  <2>1. o[n + 1].op \notin {"+I", "+U"} BY <1>8
  <2>2. U = T \cup {n + 1} BY <1>4, <1>8 DEF TakenBack
  <2>3. H = G BY <1>4, <2>1 DEF Given
  <2>4. Cardinality(U) = Cardinality(T) + 1 BY <1>3, <1>5, <2>2, FS_AddElement
  <2>. QED BY <1>3, <2>3, <2>4 DEF Net
<1>. QED BY <1>3, <1>6, <1>7, <1>8 DEF Net

(* Appending an entry leaves what the entries before it leave.             *)
LEMMA NetAgrees ==
  ASSUME NEW S, NEW o \in Seq(S), NEW e \in S, NEW c, NEW v, NEW n \in 0..Len(o)
  PROVE  Net(Append(o, e), c, v, n) = Net(o, c, v, n)
<1>. DEFINE longer == Append(o, e)
<1>1. \A i \in 1..n : longer[i] = o[i] OBVIOUS
<1>. HIDE DEF longer
<1>2. Given(longer, c, v, n) = Given(o, c, v, n) BY <1>1 DEF Given
<1>3. TakenBack(longer, c, v, n) = TakenBack(o, c, v, n) BY <1>1 DEF TakenBack
<1>. QED BY <1>2, <1>3 DEF Net, longer

(* An entry turns what stands for s into what stands for z, when z has its *)
(* value once more, or once less.                                          *)
LEMMA EntryStands ==
  ASSUME NEW S, NEW o \in Seq(S), NEW e \in S, NEW c, NEW s, NEW z, StandsFor(o, c, s),
         \A v : In(z, v) \in Nat,
         \/ e.country # c /\ z = s
         \/ /\ e.country = c /\ e.op \in {"+I", "+U"}
            /\ \A v : In(z, v) = In(s, v) + (IF e.value = v THEN 1 ELSE 0)
         \/ /\ e.country = c /\ e.op \in {"-D", "-U"}
            /\ \A v : In(s, v) = In(z, v) + (IF e.value = v THEN 1 ELSE 0)
  PROVE  StandsFor(Append(o, e), c, z)
<1>. DEFINE longer == Append(o, e)
            m == Len(o)
<1>1. m \in Nat /\ Len(longer) = m + 1 /\ longer[m + 1] = e OBVIOUS
<1>2. \A v : \A n \in 0..m : Net(longer, c, v, n) = Net(o, c, v, n) BY NetAgrees
<1>. HIDE DEF longer, m
<1>3. \A v : Net(o, c, v, m) = In(s, v) BY DEF StandsFor, m
<1>4. \A v : Net(longer, c, v, m + 1) = In(z, v)
  <2>. SUFFICES ASSUME NEW v PROVE Net(longer, c, v, m + 1) = In(z, v) OBVIOUS
  <2>1. Net(longer, c, v, m) = In(s, v) /\ In(s, v) \in Int
    <3>1. m \in 0..m BY <1>1
    <3>. QED BY <1>1, <1>2, <1>3, <3>1, NetGrows
  <2>2. CASE e.country # c /\ z = s BY <1>1, <2>1, <2>2, NetGrows
  <2>3. CASE /\ e.country = c /\ e.op \in {"+I", "+U"}
             /\ \A u : In(z, u) = In(s, u) + (IF e.value = u THEN 1 ELSE 0)
    <3>1. CASE e.value = v
      <4>1. Net(longer, c, v, m + 1) = Net(longer, c, v, m) + 1 BY <1>1, <2>3, <3>1, NetGrows
      <4>. QED BY <2>1, <2>3, <3>1, <4>1
    <3>2. CASE e.value # v
      <4>1. Net(longer, c, v, m + 1) = Net(longer, c, v, m) BY <1>1, <2>3, <3>2, NetGrows
      <4>. QED BY <2>1, <2>3, <3>2, <4>1
    <3>. QED BY <3>1, <3>2
  <2>4. CASE /\ e.country = c /\ e.op \in {"-D", "-U"}
             /\ \A u : In(s, u) = In(z, u) + (IF e.value = u THEN 1 ELSE 0)
    <3>1. CASE e.value = v
      <4>1. Net(longer, c, v, m + 1) = Net(longer, c, v, m) - 1 BY <1>1, <2>4, <3>1, NetGrows
      <4>2. In(s, v) = In(z, v) + 1 BY <2>4, <3>1
      <4>. QED BY <2>1, <4>1, <4>2
    <3>2. CASE e.value # v
      <4>1. Net(longer, c, v, m + 1) = Net(longer, c, v, m) BY <1>1, <2>4, <3>2, NetGrows
      <4>2. In(s, v) = In(z, v) + 0 BY <2>4, <3>2
      <4>. QED BY <2>1, <4>1, <4>2
    <3>. QED BY <3>1, <3>2
  <2>. QED BY <2>2, <2>3, <2>4
<1>5. ASSUME NEW v, NEW n \in 1..(m + 1) PROVE Net(longer, c, v, n) >= 0
  <2>1. CASE n \in 1..m
    <3>1. n \in 0..m BY <1>1, <2>1
    <3>2. Net(o, c, v, n) >= 0 BY <2>1 DEF StandsFor, m
    <3>. QED BY <1>2, <3>1, <3>2
  <2>2. CASE n = m + 1
    <3>1. In(z, v) \in Nat OBVIOUS
    <3>2. Net(longer, c, v, n) = In(z, v) BY <1>4, <2>2
    <3>. QED BY <3>1, <3>2
  <2>. QED BY <1>1, <2>1, <2>2
<1>. QED BY <1>1, <1>4, <1>5 DEF StandsFor, longer

(* The keyed sum's entry replaces what stood for its country.              *)
LEMMA SumSent ==
  ASSUME NEW S, NEW o \in Seq(S), NEW e \in S, NEW c, NEW s, NEW z, SumStands(o, c, s),
         \/ e.country # c /\ z = s
         \/ e.country = c /\ e.op \in {"+I"} /\ z = <<e.value>>
  PROVE  SumStands(Append(o, e), c, z)
<1>. DEFINE longer == Append(o, e)
            m == Len(o)
<1>1. /\ m \in Nat /\ Len(longer) = m + 1 /\ longer[m + 1] = e
      /\ \A i \in 1..m : longer[i] = o[i]
  OBVIOUS
<1>. HIDE DEF longer, m
<1>2. 1..(m + 1) = 1..m \cup {m + 1} /\ (m + 2)..(m + 1) = {} BY <1>1
<1>3. \A i \in 1..m : (i + 1)..(m + 1) = (i + 1)..m \cup {m + 1} /\ (i + 1)..m \subseteq 1..m
  BY <1>1
<1>4. CASE e.country # c /\ z = s
  <2>1. \A v : SentLast(longer, c, v, m + 1) = SentLast(o, c, v, m)
    BY <1>1, <1>2, <1>3, <1>4 DEF SentLast
  <2>. QED BY <1>1, <1>4, <2>1 DEF SumStands, longer, m
<1>5. CASE e.country = c /\ e.op \in {"+I"} /\ z = <<e.value>>
  <2>1. \A v : SentLast(longer, c, v, m + 1) = IF e.value = v THEN {m + 1} ELSE {}
    <3>. SUFFICES ASSUME NEW v, NEW i
         PROVE i \in SentLast(longer, c, v, m + 1) <=> i = m + 1 /\ e.value = v
      OBVIOUS
    <3>1. CASE i \in 1..m
      <4>1. m + 1 \in (i + 1)..(m + 1) /\ i # m + 1 BY <1>1, <3>1
      <4>. QED BY <1>1, <1>5, <4>1 DEF SentLast
    <3>2. CASE i = m + 1
      <4>1. (i + 1)..(m + 1) = {} /\ i \in 1..(m + 1) BY <1>1, <3>2
      <4>. QED BY <1>1, <1>5, <3>2, <4>1 DEF SentLast
    <3>3. CASE i \notin 1..(m + 1) BY <1>1, <3>3 DEF SentLast
    <3>. QED BY <1>2, <3>1, <3>2, <3>3
  <2>2. \A v : (\E i \in DOMAIN z : z[i] = v) <=> e.value = v BY <1>5
  <2>. QED BY <1>1, <2>1, <2>2 DEF SumStands, longer
<1>. QED BY <1>4, <1>5


(* A country's values in the result: at most one, or two of the Top2.      *)
ShortValues(s) ==
  \/ s = <<>>
  \/ \E x \in GroupValues : s = <<x>>
  \/ job = "top2" /\ \E x, y \in GroupValues : s = <<x, y>>

(* The entries of at most two values. *)
LEMMA EntriesAre ==
  ASSUME NEW op \in {"+I", "+U", "-D", "-U"}, NEW c \in GroupedTable!Countries, NEW s,
         NEW o \in Seq(Entry)
  PROVE  LET e(x) == [op |-> op, country |-> c, value |-> x] IN
         /\ \A x \in GroupValues : e(x) \in Entry
         /\ s = <<>> => o \o GroupedTable!Entries(op, c, s) = o
         /\ \A x \in GroupValues : s = <<x>> =>
              o \o GroupedTable!Entries(op, c, s) = Append(o, e(x))
         /\ \A x, y \in GroupValues : s = <<x, y>> =>
              o \o GroupedTable!Entries(op, c, s) = Append(Append(o, e(x)), e(y))
<1>. DEFINE e(x) == [op |-> op, country |-> c, value |-> x]
<1>1. \A x \in GroupValues : e(x) \in Entry BY DEF Entry
<1>2. ASSUME s = <<>> PROVE o \o GroupedTable!Entries(op, c, s) = o
  <2>1. GroupedTable!Entries(op, c, s) = <<>> BY <1>2 DEF GroupedTable!Entries
  <2>. QED BY <2>1
<1>3. ASSUME NEW x \in GroupValues, s = <<x>>
      PROVE  o \o GroupedTable!Entries(op, c, s) = Append(o, e(x))
  <2>. DEFINE a == e(x)
              f == GroupedTable!Entries(op, c, s)
  <2>1. f = <<a>>
    <3>1. DOMAIN s = {1} /\ s[1] = x BY <1>3
    <3>2. f = [i \in {1} |-> a] BY <3>1 DEF GroupedTable!Entries
    <3>. HIDE DEF a, f
    <3>. QED BY <3>2
  <2>2. a \in Entry BY <1>1
  <2>. HIDE DEF a, f
  <2>3. o \o f = Append(o, a) BY <2>1, <2>2
  <2>. QED BY <2>3 DEF a, f
<1>4. ASSUME NEW x \in GroupValues, NEW y \in GroupValues, s = <<x, y>>
      PROVE  o \o GroupedTable!Entries(op, c, s) = Append(Append(o, e(x)), e(y))
  <2>. DEFINE a == e(x)
              b == e(y)
              f == GroupedTable!Entries(op, c, s)
  <2>1. f = <<a, b>>
    <3>1. DOMAIN s = {1, 2} /\ s[1] = x /\ s[2] = y BY <1>4
    <3>2. DOMAIN f = {1, 2} /\ f = [i \in {1, 2} |-> IF i = 1 THEN a ELSE b]
      BY <3>1 DEF GroupedTable!Entries
    <3>. HIDE DEF a, b, f
    <3>. QED BY <3>2
  <2>2. a \in Entry /\ b \in Entry BY <1>1
  <2>. HIDE DEF a, b, f
  <2>3. o \o f = Append(Append(o, a), b) BY <2>1, <2>2
  <2>. QED BY <2>3 DEF a, b, f
<1>. QED BY <1>1, <1>2, <1>3, <1>4

(* Values of a country that are given leave it with them. *)
LEMMA GivenAll ==
  ASSUME NEW op \in {"+I", "+U"}, NEW c \in GroupedTable!Countries, NEW s, ShortValues(s),
         NEW o \in Seq(Entry), StandsFor(o, c, <<>>)
  PROVE  /\ o \o GroupedTable!Entries(op, c, s) \in Seq(Entry)
         /\ StandsFor(o \o GroupedTable!Entries(op, c, s), c, s)
<1>. DEFINE e(x) == [op |-> op, country |-> c, value |-> x]
<1>0. op \in {"+I", "+U", "-D", "-U"} OBVIOUS
<1>1. CASE s = <<>>
  <2>1. o \o GroupedTable!Entries(op, c, s) = o BY <1>0, <1>1, EntriesAre
  <2>. QED BY <1>1, <2>1
<1>2. ASSUME NEW x \in GroupValues
      PROVE  /\ e(x) \in Entry /\ Append(o, e(x)) \in Seq(Entry)
             /\ StandsFor(Append(o, e(x)), c, <<x>>)
  <2>. DEFINE a == e(x)
  <2>1. a \in Entry /\ a.country = c /\ a.op \in {"+I", "+U"} /\ a.value = x
    BY <1>0 DEF Entry
  <2>. HIDE DEF a
  <2>2. \A v : In(<<x>>, v) \in Nat /\ In(<<x>>, v) = In(<<>>, v) + (IF a.value = v THEN 1 ELSE 0)
    <3>. SUFFICES ASSUME NEW v
         PROVE  /\ In(<<x>>, v) \in Nat
                /\ In(<<x>>, v) = In(<<>>, v) + (IF a.value = v THEN 1 ELSE 0)
      OBVIOUS
    <3>1. In(<<>>, v) = 0 /\ In(<<x>>, v) = IF x = v THEN 1 ELSE 0 BY InShort
    <3>. QED BY <2>1, <3>1
  <2>3. StandsFor(Append(o, a), c, <<x>>) BY <2>1, <2>2, EntryStands
  <2>. QED BY <2>1, <2>3 DEF a
<1>3. ASSUME NEW x \in GroupValues, NEW y \in GroupValues
      PROVE  /\ Append(Append(o, e(x)), e(y)) \in Seq(Entry)
             /\ StandsFor(Append(Append(o, e(x)), e(y)), c, <<x, y>>)
  <2>. DEFINE a == e(y)
              p == Append(o, e(x))
  <2>1. a \in Entry /\ a.country = c /\ a.op \in {"+I", "+U"} /\ a.value = y
    BY <1>0 DEF Entry
  <2>2. p \in Seq(Entry) /\ StandsFor(p, c, <<x>>) BY <1>2
  <2>. HIDE DEF a, p
  <2>3. \A v : /\ In(<<x, y>>, v) \in Nat
               /\ In(<<x, y>>, v) = In(<<x>>, v) + (IF a.value = v THEN 1 ELSE 0)
    <3>. SUFFICES ASSUME NEW v
         PROVE  /\ In(<<x, y>>, v) \in Nat
                /\ In(<<x, y>>, v) = In(<<x>>, v) + (IF a.value = v THEN 1 ELSE 0)
      OBVIOUS
    <3>1. /\ In(<<x>>, v) = IF x = v THEN 1 ELSE 0
          /\ In(<<x, y>>, v) = (IF x = v THEN 1 ELSE 0) + (IF y = v THEN 1 ELSE 0)
      BY InShort
    <3>. QED BY <2>1, <3>1
  <2>4. StandsFor(Append(p, a), c, <<x, y>>) BY <2>1, <2>2, <2>3, EntryStands
  <2>. QED BY <2>1, <2>2, <2>4 DEF a, p
<1>4. CASE \E x \in GroupValues : s = <<x>>
  <2>1. PICK x \in GroupValues : s = <<x>> BY <1>4
  <2>2. o \o GroupedTable!Entries(op, c, s) = Append(o, e(x)) BY <1>0, <2>1, EntriesAre
  <2>. QED BY <1>2, <2>1, <2>2
<1>5. CASE \E x, y \in GroupValues : s = <<x, y>>
  <2>1. PICK x \in GroupValues, y \in GroupValues : s = <<x, y>> BY <1>5
  <2>2. o \o GroupedTable!Entries(op, c, s) = Append(Append(o, e(x)), e(y))
    BY <1>0, <2>1, EntriesAre
  <2>. QED BY <1>3, <2>1, <2>2
<1>. QED BY <1>1, <1>4, <1>5 DEF ShortValues

(* Those that are taken back leave it with none. *)
LEMMA TakenAll ==
  ASSUME NEW op \in {"-D", "-U"}, NEW c \in GroupedTable!Countries, NEW s, ShortValues(s),
         NEW o \in Seq(Entry), StandsFor(o, c, s)
  PROVE  /\ o \o GroupedTable!Entries(op, c, s) \in Seq(Entry)
         /\ StandsFor(o \o GroupedTable!Entries(op, c, s), c, <<>>)
<1>. DEFINE e(x) == [op |-> op, country |-> c, value |-> x]
<1>0. op \in {"+I", "+U", "-D", "-U"} OBVIOUS
<1>1. CASE s = <<>>
  <2>1. o \o GroupedTable!Entries(op, c, s) = o BY <1>0, <1>1, EntriesAre
  <2>. QED BY <1>1, <2>1
<1>2. ASSUME NEW x \in GroupValues, NEW q \in Seq(Entry), StandsFor(q, c, <<x>>)
      PROVE  /\ Append(q, e(x)) \in Seq(Entry)
             /\ StandsFor(Append(q, e(x)), c, <<>>)
  <2>. DEFINE a == e(x)
  <2>1. a \in Entry /\ a.country = c /\ a.op \in {"-D", "-U"} /\ a.value = x
    BY <1>0 DEF Entry
  <2>. HIDE DEF a
  <2>2. \A v : In(<<>>, v) \in Nat /\ In(<<x>>, v) = In(<<>>, v) + (IF a.value = v THEN 1 ELSE 0)
    BY <2>1, InShort
  <2>3. StandsFor(Append(q, a), c, <<>>) BY <1>2, <2>1, <2>2, EntryStands
  <2>. QED BY <2>1, <2>3 DEF a
<1>3. ASSUME NEW x \in GroupValues, NEW y \in GroupValues, s = <<x, y>>
      PROVE  /\ Append(o, e(x)) \in Seq(Entry)
             /\ StandsFor(Append(o, e(x)), c, <<y>>)
  <2>. DEFINE a == e(x)
  <2>1. a \in Entry /\ a.country = c /\ a.op \in {"-D", "-U"} /\ a.value = x
    BY <1>0 DEF Entry
  <2>. HIDE DEF a
  <2>2. \A v : /\ In(<<y>>, v) \in Nat
               /\ In(<<x, y>>, v) = In(<<y>>, v) + (IF a.value = v THEN 1 ELSE 0)
    <3>. SUFFICES ASSUME NEW v
         PROVE  /\ In(<<y>>, v) \in Nat
                /\ In(<<x, y>>, v) = In(<<y>>, v) + (IF a.value = v THEN 1 ELSE 0)
      OBVIOUS
    <3>1. /\ In(<<y>>, v) = IF y = v THEN 1 ELSE 0
          /\ In(<<x, y>>, v) = (IF x = v THEN 1 ELSE 0) + (IF y = v THEN 1 ELSE 0)
      BY InShort
    <3>. QED BY <2>1, <3>1
  <2>3. StandsFor(Append(o, a), c, <<y>>) BY <1>3, <2>1, <2>2, EntryStands
  <2>. QED BY <2>1, <2>3 DEF a
<1>4. CASE \E x \in GroupValues : s = <<x>>
  <2>1. PICK x \in GroupValues : s = <<x>> BY <1>4
  <2>2. o \o GroupedTable!Entries(op, c, s) = Append(o, e(x)) BY <1>0, <2>1, EntriesAre
  <2>3. StandsFor(o, c, <<x>>) BY <2>1
  <2>. QED BY <1>2, <2>2, <2>3
<1>5. CASE \E x, y \in GroupValues : s = <<x, y>>
  <2>1. PICK x \in GroupValues, y \in GroupValues : s = <<x, y>> BY <1>5
  <2>2. o \o GroupedTable!Entries(op, c, s) = Append(Append(o, e(x)), e(y))
    BY <1>0, <2>1, EntriesAre
  <2>3. Append(o, e(x)) \in Seq(Entry) /\ StandsFor(Append(o, e(x)), c, <<y>>) BY <1>3, <2>1
  <2>. HIDE DEF e
  <2>4. /\ Append(Append(o, e(x)), e(y)) \in Seq(Entry)
        /\ StandsFor(Append(Append(o, e(x)), e(y)), c, <<>>) BY <1>2, <2>3
  <2>. QED BY <2>2, <2>4
<1>. QED BY <1>1, <1>4, <1>5 DEF ShortValues

(* Neither does anything to other countries. *)
LEMMA OthersStand ==
  ASSUME NEW op \in {"+I", "+U", "-D", "-U"}, NEW c \in GroupedTable!Countries, NEW s,
         ShortValues(s), NEW o \in Seq(Entry), NEW b, b # c, NEW z, \A v : In(z, v) \in Nat
  PROVE  /\ o \o GroupedTable!Entries(op, c, s) \in Seq(Entry)
         /\ StandsFor(o, b, z) => StandsFor(o \o GroupedTable!Entries(op, c, s), b, z)
         /\ SumStands(o, b, z) => SumStands(o \o GroupedTable!Entries(op, c, s), b, z)
<1>. DEFINE e(x) == [op |-> op, country |-> c, value |-> x]
<1>1. CASE s = <<>>
  <2>1. o \o GroupedTable!Entries(op, c, s) = o BY <1>1, EntriesAre
  <2>. QED BY <2>1
<1>2. ASSUME NEW x \in GroupValues, NEW q \in Seq(Entry)
      PROVE  /\ Append(q, e(x)) \in Seq(Entry)
             /\ StandsFor(q, b, z) => StandsFor(Append(q, e(x)), b, z)
             /\ SumStands(q, b, z) => SumStands(Append(q, e(x)), b, z)
  <2>. DEFINE a == e(x)
  <2>1. a \in Entry /\ a.country # b BY DEF Entry
  <2>. HIDE DEF a
  <2>2. StandsFor(q, b, z) => StandsFor(Append(q, a), b, z) BY <2>1, EntryStands
  <2>3. SumStands(q, b, z) => SumStands(Append(q, a), b, z) BY <2>1, SumSent
  <2>. QED BY <2>1, <2>2, <2>3 DEF a
<1>4. CASE \E x \in GroupValues : s = <<x>>
  <2>1. PICK x \in GroupValues : s = <<x>> BY <1>4
  <2>2. o \o GroupedTable!Entries(op, c, s) = Append(o, e(x)) BY <2>1, EntriesAre
  <2>. QED BY <1>2, <2>2
<1>5. CASE \E x, y \in GroupValues : s = <<x, y>>
  <2>1. PICK x \in GroupValues, y \in GroupValues : s = <<x, y>> BY <1>5
  <2>2. o \o GroupedTable!Entries(op, c, s) = Append(Append(o, e(x)), e(y))
    BY <2>1, EntriesAre
  <2>3. Append(o, e(x)) \in Seq(Entry) BY <1>2
  <2>4. /\ StandsFor(o, b, z) => StandsFor(Append(o, e(x)), b, z)
        /\ SumStands(o, b, z) => SumStands(Append(o, e(x)), b, z)
    BY <1>2
  <2>. HIDE DEF e
  <2>5. /\ Append(Append(o, e(x)), e(y)) \in Seq(Entry)
        /\ StandsFor(Append(o, e(x)), b, z) => StandsFor(Append(Append(o, e(x)), e(y)), b, z)
        /\ SumStands(Append(o, e(x)), b, z) => SumStands(Append(Append(o, e(x)), e(y)), b, z)
    BY <1>2, <2>3
  <2>. QED BY <2>2, <2>4, <2>5
<1>. QED BY <1>1, <1>4, <1>5 DEF ShortValues


(* They are entries. *)
LEMMA EntriesTyped ==
  ASSUME NEW op \in {"+I", "+U", "-D", "-U"}, NEW c \in GroupedTable!Countries, NEW s,
         ShortValues(s)
  PROVE  GroupedTable!Entries(op, c, s) \in Seq(Entry)
<1>1. s \in Seq(GroupValues)
  <2>1. CASE s = <<>> BY <2>1
  <2>2. CASE \E x \in GroupValues : s = <<x>> BY <2>2
  <2>3. CASE \E x, y \in GroupValues : s = <<x, y>> BY <2>3
  <2>. QED BY <2>1, <2>2, <2>3 DEF ShortValues
<1>. DEFINE f == GroupedTable!Entries(op, c, s)
<1>2. Len(s) \in Nat /\ DOMAIN s = 1..Len(s) /\ \A i \in 1..Len(s) : s[i] \in GroupValues
  BY <1>1, ElementIn
<1>3. DOMAIN f = 1..Len(s) /\ \A i \in 1..Len(s) : f[i] \in Entry
  BY <1>2 DEF GroupedTable!Entries, Entry
<1>4. f = [i \in DOMAIN s |-> f[i]] BY DEF GroupedTable!Entries
<1>. HIDE DEF f
<1>5. f \in [1..Len(s) -> Entry] BY <1>2, <1>3, <1>4
<1>6. f \in Seq(Entry) BY <1>2, <1>5, IsSequence
<1>. QED BY <1>6 DEF f

(* What o leaves of country c. *)
Stands(o, c, s) == IF job = "sum" THEN SumStands(o, c, s) ELSE StandsFor(o, c, s)

(* A report of a group turns what stands for its old values into what      *)
(* stands for the new ones.                                                *)
LEMMA ChangesStand ==
  ASSUME NEW c \in GroupedTable!Countries, NEW old, NEW new, ShortValues(old), ShortValues(new),
         job = "sum" => \E x \in GroupValues : new = <<x>>,
         NEW o \in Seq(Entry), Stands(o, c, old)
  PROVE  /\ o \o GroupedTable!Changes(c, old, new) \in Seq(Entry)
         /\ Stands(o \o GroupedTable!Changes(c, old, new), c, new)
<1>. DEFINE E(op, s) == GroupedTable!Entries(op, c, s)
<1>1. CASE job = "sum"
  <2>1. PICK x \in GroupValues : new = <<x>> BY <1>1
  <2>. DEFINE a == [op |-> "+I", country |-> c, value |-> x]
  <2>2. o \o E("+I", new) = Append(o, a) /\ a \in Entry BY <2>1, EntriesAre
  <2>3. GroupedTable!Changes(c, old, new) = E("+I", new) BY <1>1 DEF GroupedTable!Changes
  <2>4. a.country = c /\ a.op \in {"+I"} /\ a.value = x OBVIOUS
  <2>5. SumStands(o, c, old) BY <1>1 DEF Stands
  <2>. HIDE DEF a, E
  <2>6. SumStands(Append(o, a), c, new) BY <2>1, <2>2, <2>4, <2>5, SumSent
  <2>7. o \o GroupedTable!Changes(c, old, new) = Append(o, a) BY <2>2, <2>3
  <2>8. Append(o, a) \in Seq(Entry) BY <2>2
  <2>9. Stands(Append(o, a), c, new) BY <1>1, <2>6 DEF Stands
  <2>. QED BY <2>7, <2>8, <2>9
<1>2. ASSUME job # "sum", NEW less \in {"-D", "-U"}, NEW more \in {"+I", "+U"},
             GroupedTable!Changes(c, old, new) = E(less, old) \o E(more, new)
      PROVE  /\ o \o GroupedTable!Changes(c, old, new) \in Seq(Entry)
             /\ Stands(o \o GroupedTable!Changes(c, old, new), c, new)
  <2>1. E(less, old) \in Seq(Entry) /\ E(more, new) \in Seq(Entry) BY EntriesTyped
  <2>2. StandsFor(o, c, old) BY <1>2 DEF Stands
  <2>3. o \o E(less, old) \in Seq(Entry) /\ StandsFor(o \o E(less, old), c, <<>>)
    BY <2>2, TakenAll
  <2>4. /\ (o \o E(less, old)) \o E(more, new) \in Seq(Entry)
        /\ StandsFor((o \o E(less, old)) \o E(more, new), c, new)
    <3>. DEFINE q == o \o E(less, old)
    <3>1. q \in Seq(Entry) /\ StandsFor(q, c, <<>>) BY <2>3
    <3>. HIDE DEF q
    <3>2. q \o E(more, new) \in Seq(Entry) /\ StandsFor(q \o E(more, new), c, new)
      BY <3>1, GivenAll
    <3>. QED BY <3>2 DEF q
  <2>. HIDE DEF E
  <2>5. o \o (E(less, old) \o E(more, new)) = (o \o E(less, old)) \o E(more, new) BY <2>1
  <2>. QED BY <1>2, <2>4, <2>5 DEF Stands
<1>3. CASE job = "top2"
  <2>1. GroupedTable!Changes(c, old, new) = E("-D", old) \o E("+I", new)
    BY <1>3 DEF GroupedTable!Changes
  <2>2. job # "sum" BY <1>3
  <2>. HIDE DEF E
  <2>. QED BY <1>2, <2>1, <2>2
<1>4. CASE job \notin {"sum", "top2"} /\ old = new
  <2>1. GroupedTable!Changes(c, old, new) = <<>>
    BY <1>4 DEF GroupedTable!Changes
  <2>2. o \o <<>> = o OBVIOUS
  <2>. QED BY <1>4, <2>1, <2>2
<1>5. CASE job \notin {"sum", "top2"} /\ old # new /\ old = <<>>
  <2>1. GroupedTable!Changes(c, old, new) = E("+I", new)
    BY <1>5 DEF GroupedTable!Changes, GroupedTable!Replaced
  <2>2. StandsFor(o, c, <<>>) BY <1>5 DEF Stands
  <2>3. o \o E("+I", new) \in Seq(Entry) /\ StandsFor(o \o E("+I", new), c, new)
    BY <2>2, GivenAll
  <2>. QED BY <1>5, <2>1, <2>3 DEF Stands
<1>6. CASE job \notin {"sum", "top2"} /\ old # new /\ old # <<>>
  <2>1. GroupedTable!Changes(c, old, new) = E("-U", old) \o E("+U", new)
    BY <1>6 DEF GroupedTable!Changes, GroupedTable!Replaced
  <2>2. job # "sum" BY <1>6
  <2>. HIDE DEF E
  <2>. QED BY <1>2, <2>1, <2>2
<1>. QED BY <1>1, <1>3, <1>4, <1>5, <1>6

(* It leaves other countries alone. *)
LEMMA ChangesLeave ==
  ASSUME NEW c \in GroupedTable!Countries, NEW old, NEW new, ShortValues(old), ShortValues(new),
         NEW o \in Seq(Entry), NEW b, b # c, NEW z, ShortValues(z), Stands(o, b, z)
  PROVE  Stands(o \o GroupedTable!Changes(c, old, new), b, z)
<1>. DEFINE E(op, s) == GroupedTable!Entries(op, c, s)
<1>1. \A v : In(z, v) \in Nat
  <2>1. CASE z = <<>> BY <2>1, InShort
  <2>2. CASE \E x \in GroupValues : z = <<x>>
    <3>1. PICK x : z = <<x>> BY <2>2
    <3>. SUFFICES ASSUME NEW v PROVE In(z, v) \in Nat OBVIOUS
    <3>2. In(<<x>>, v) = IF x = v THEN 1 ELSE 0 BY InShort
    <3>. QED BY <3>1, <3>2
  <2>3. CASE \E x, y \in GroupValues : z = <<x, y>>
    <3>1. PICK x, y : z = <<x, y>> BY <2>3
    <3>. SUFFICES ASSUME NEW v PROVE In(z, v) \in Nat OBVIOUS
    <3>2. In(<<x, y>>, v) = (IF x = v THEN 1 ELSE 0) + (IF y = v THEN 1 ELSE 0) BY InShort
    <3>. QED BY <3>1, <3>2
  <2>. QED BY <2>1, <2>2, <2>3 DEF ShortValues
<1>2. ASSUME NEW op \in {"+I", "+U", "-D", "-U"}, NEW s, ShortValues(s), NEW q \in Seq(Entry),
             Stands(q, b, z)
      PROVE  q \o E(op, s) \in Seq(Entry) /\ Stands(q \o E(op, s), b, z)
  <2>1. /\ q \o E(op, s) \in Seq(Entry)
        /\ StandsFor(q, b, z) => StandsFor(q \o E(op, s), b, z)
        /\ SumStands(q, b, z) => SumStands(q \o E(op, s), b, z)
    BY <1>1, <1>2, OthersStand
  <2>. HIDE DEF E
  <2>. QED BY <1>2, <2>1 DEF Stands
<1>3. ASSUME NEW less \in {"-D", "-U"}, NEW more \in {"+I", "+U"}
      PROVE  Stands(o \o (E(less, old) \o E(more, new)), b, z)
  <2>1. E(less, old) \in Seq(Entry) /\ E(more, new) \in Seq(Entry) BY EntriesTyped
  <2>. HIDE DEF E
  <2>2. o \o E(less, old) \in Seq(Entry) /\ Stands(o \o E(less, old), b, z) BY <1>2
  <2>3. Stands((o \o E(less, old)) \o E(more, new), b, z) BY <1>2, <2>2
  <2>4. o \o (E(less, old) \o E(more, new)) = (o \o E(less, old)) \o E(more, new) BY <2>1
  <2>. QED BY <2>3, <2>4
<1>4. Stands(o \o E("+I", new), b, z)
  <2>. HIDE DEF E
  <2>. QED BY <1>2
<1>5. o \o <<>> = o OBVIOUS
<1>6. \/ GroupedTable!Changes(c, old, new) = <<>>
      \/ GroupedTable!Changes(c, old, new) = E("+I", new)
      \/ GroupedTable!Changes(c, old, new) = E("-D", old) \o E("+I", new)
      \/ GroupedTable!Changes(c, old, new) = E("-U", old) \o E("+U", new)
  BY DEF GroupedTable!Changes, GroupedTable!Replaced
<1>. HIDE DEF E
<1>. QED BY <1>3, <1>4, <1>5, <1>6

(* The rows of the input, and what one adds to the sum of c. *)
InputRows == [country : GroupedTable!Countries, tel : Nat]
Amount(c, i) == IF input[i].country = c THEN input[i].tel ELSE 0

(* The sum after each of n rows. *)
Sums(n, c, p) ==
  /\ p \in [0..n -> Int] /\ p[0] = 0
  /\ \A i \in 1..n : p[i] = p[i - 1] + Amount(c, i)

(* The fold that adds up goes through such sums. *)
LEMMA SumsAll ==
  ASSUME input \in Seq(InputRows), NEW n \in 0..Len(input), NEW c
  PROVE  \E p : Sums(n, c, p) /\ GroupedTable!SumOf(c, n) = p[n]
<1>. DEFINE X(s) == ElasticsearchSink!Max(s)
            t == SubSeq(input, 1, n)
            folded(it) == it = [s \in SUBSET (1..n) |->
              IF s = {} THEN 0 ELSE it[s \ {X(s)}] + Amount(c, X(s))]
            f == CHOOSE it : folded(it)
            g == [x \in Int \X (1..n) |-> x[1] + Amount(c, x[2])]
<1>0. /\ n \in Nat /\ DOMAIN t = 1..n
      /\ \A i \in 1..n : t[i] = input[i] /\ Amount(c, i) \in Int
  <2>1. Len(input) \in Nat /\ n \in Nat /\ n =< Len(input) OBVIOUS
  <2>2. t = [i \in 1..n |-> input[i]]
    <3>. HIDE DEF t
    <3>1. t = SubSeq(input, 1, n) BY DEF t
    <3>. QED BY <2>1, <3>1
  <2>3. \A i \in 1..n : input[i] \in InputRows
    <3>. SUFFICES ASSUME NEW i \in 1..n PROVE input[i] \in InputRows OBVIOUS
    <3>1. i \in 1..Len(input) BY <2>1
    <3>. QED BY <3>1, ElementIn
  <2>. HIDE DEF t
  <2>. QED BY <2>1, <2>2, <2>3 DEF Amount, InputRows
<1>5. \A s \in SUBSET (1..n) : s # {} => X(s) \in s /\ X(s) \in 1..n /\ s \ {X(s)} \in SUBSET (1..n)
  BY <1>0, LastPlace
<1>1. GroupedTable!SumOf(c, n) = f[1..n]
  <2>. DEFINE real(it) == it = [s \in SUBSET DOMAIN t |->
                IF s = {} THEN 0
                ELSE it[s \ {GroupedTable!Max(s)}]
                       + (IF t[GroupedTable!Max(s)].country = c
                          THEN t[GroupedTable!Max(s)].tel ELSE 0)]
  <2>1. GroupedTable!SumOf(c, n) = (CHOOSE it : real(it))[DOMAIN t]
    BY DEF GroupedTable!SumOf, GroupedTable!FoldLeft, GroupedTable!MapThenFoldSet
  <2>2. ASSUME NEW it PROVE real(it) <=> folded(it)
    <3>. HIDE DEF t, X
    <3>1. \A s \in SUBSET (1..n) : s # {} =>
            /\ GroupedTable!Max(s) = X(s)
            /\ (IF t[GroupedTable!Max(s)].country = c THEN t[GroupedTable!Max(s)].tel ELSE 0)
                 = Amount(c, X(s))
      <4>1. \A s : GroupedTable!Max(s) = X(s) BY SameMax DEF X
      <4>. QED BY <1>0, <1>5, <4>1 DEF Amount
    <3>. QED BY <1>0, <3>1
  <2>. HIDE DEF real, folded
  <2>3. (CHOOSE it : real(it)) = f BY <2>2
  <2>. QED BY <1>0, <2>1, <2>3
<1>. HIDE DEF t
<1>2. g \in [Int \X (1..n) -> Int] /\ 0 \in Int BY <1>0
<1>3. \A x \in Int, i \in 1..n : g[<<x, i>>] = x + Amount(c, i) OBVIOUS
<1>4. PICK h : Folds(g, 0, 1..n, h) /\ \A s \in SUBSET (1..n) : h[s] \in Int
  <2>. HIDE DEF g
  <2>. QED BY <1>0, <1>2, TypedFold
<1>. HIDE DEF g, X
<1>6. folded(h)
  <2>1. h = [s \in SUBSET (1..n) |-> IF s = {} THEN 0 ELSE g[<<h[s \ {X(s)}], X(s)>>]]
    BY <1>4 DEF Folds, X
  <2>. QED BY <1>3, <1>4, <1>5, <2>1
<1>7. folded(f)
  <2>. HIDE DEF folded
  <2>. QED BY <1>6
<1>8. f = [s \in SUBSET (1..n) |->
             IF s = {} THEN 0 ELSE f[s \ {X(s)}] + Amount(c, X(s))]
  <2>1. \A it : folded(it) => it = [s \in SUBSET (1..n) |->
             IF s = {} THEN 0 ELSE it[s \ {X(s)}] + Amount(c, X(s))]
    OBVIOUS
  <2>. HIDE DEF folded, f
  <2>. QED BY <1>7, <2>1
<1>. HIDE DEF f
<1>9. f[{}] = 0 BY <1>8
<1>10. \A s \in SUBSET (1..n) :
         s # {} /\ f[s \ {X(s)}] \in Int => f[s] = g[<<f[s \ {X(s)}], X(s)>>]
  BY <1>3, <1>5, <1>8
<1>. DEFINE p == [i \in 0..n |-> f[1..i]]
<1>11. p \in [0..n -> Int] /\ f[1..0] = 0 /\ \A i \in 1..n : f[1..i] = g[<<f[1..(i - 1)], i>>]
  <2>. HIDE DEF p
  <2>1. [i \in 0..n |-> f[1..i]] \in [0..n -> Int] /\ f[1..0] = 0
        /\ \A i \in 1..n : f[1..i] = g[<<f[1..(i - 1)], i>>]
    <3>1. Follows(n, Int, g, 0, f) BY <1>9, <1>10 DEF X, Follows
    <3>2. GoesThrough(n, Int, g, 0, f) BY <1>0, <1>2, <3>1, FoldSteps
    <3>. QED BY <3>2 DEF GoesThrough
  <2>. QED BY <2>1 DEF p
<1>12. Sums(n, c, p)
  <2>1. p[0] = 0 BY <1>0, <1>11
  <2>2. \A i \in 1..n : p[i] = p[i - 1] + Amount(c, i)
    <3>. SUFFICES ASSUME NEW i \in 1..n PROVE p[i] = p[i - 1] + Amount(c, i)
      OBVIOUS
    <3>1. i \in 0..n /\ i - 1 \in 0..n BY <1>0
    <3>2. p[i] = f[1..i] /\ p[i - 1] = f[1..(i - 1)] BY <3>1
    <3>3. f[1..(i - 1)] \in Int BY <1>11, <3>1
    <3>. QED BY <1>3, <1>11, <3>2, <3>3
  <2>. QED BY <1>11, <2>1, <2>2 DEF Sums
<1>13. p[n] = f[1..n] BY <1>0
<1>. QED BY <1>1, <1>12, <1>13

(* A row adds its amount to the sum. *)
LEMMA SumGrows ==
  ASSUME input \in Seq(InputRows), NEW n \in 0..Len(input), NEW c
  PROVE  /\ GroupedTable!SumOf(c, n) \in Int
         /\ GroupedTable!SumOf(c, 0) = 0
         /\ n < Len(input) =>
              GroupedTable!SumOf(c, n + 1) = GroupedTable!SumOf(c, n) + Amount(c, n + 1)
<1>0. Len(input) \in Nat /\ n \in Nat OBVIOUS
<1>1. PICK p : Sums(n, c, p) /\ GroupedTable!SumOf(c, n) = p[n] BY SumsAll
<1>2. 0 \in 0..Len(input) BY <1>0
<1>3. PICK z : Sums(0, c, z) /\ GroupedTable!SumOf(c, 0) = z[0] BY <1>2, SumsAll
<1>4. ASSUME n < Len(input)
      PROVE  GroupedTable!SumOf(c, n + 1) = GroupedTable!SumOf(c, n) + Amount(c, n + 1)
  <2>1. n + 1 \in 0..Len(input) BY <1>0, <1>4
  <2>2. PICK q : Sums(n + 1, c, q) /\ GroupedTable!SumOf(c, n + 1) = q[n + 1] BY <2>1, SumsAll
  <2>3. \A i \in 0..n : p[i] = q[i]
    <3>. DEFINE bad == {i \in 0..n : p[i] # q[i]}
    <3>. SUFFICES ASSUME bad # {} PROVE FALSE OBVIOUS
    <3>1. bad \subseteq Nat OBVIOUS
    <3>2. PICK m \in bad : \A i \in bad : m =< i
      <4>. HIDE DEF bad
      <4>. QED BY <3>1, LeastNumber
    <3>3. m \in 0..n /\ p[m] # q[m] OBVIOUS
    <3>4. m # 0 BY <1>1, <2>2, <3>3 DEF Sums
    <3>5. m \in 1..n /\ m \in 1..(n + 1) /\ m - 1 \in 0..n BY <1>0, <3>3, <3>4
    <3>6. p[m - 1] = q[m - 1]
      <4>1. m - 1 \notin bad
        <5>. HIDE DEF bad
        <5>. QED BY <3>2, <3>5
      <4>. QED BY <3>5, <4>1
    <3>. QED BY <1>1, <2>2, <3>3, <3>5, <3>6 DEF Sums
  <2>4. n + 1 \in 1..(n + 1) /\ (n + 1) - 1 = n BY <1>0
  <2>5. q[n + 1] = q[(n + 1) - 1] + Amount(c, n + 1) BY <2>2, <2>4 DEF Sums
  <2>6. q[n] = p[n] BY <1>0, <2>3
  <2>. QED BY <1>1, <2>2, <2>4, <2>5, <2>6
<1>. QED BY <1>0, <1>1, <1>3, <1>4 DEF Sums

(* The rows of country c up to n, and those among P with the largest number.*)
RowsTo(c, n) == {i \in 1..n : input[i].country = c}
IsLargest(P, m) == m \in P /\ \A i \in P : input[i].tel =< input[m].tel

(* The largest number and the largest of the other rows; None where there  *)
(* is no row.                                                              *)
MaxIs(P, x) == IF P = {} THEN x = GroupedTable!None
                         ELSE \E m \in P : IsLargest(P, m) /\ x = input[m].tel
Top2Is(P, x, y) ==
  IF P = {} THEN x = GroupedTable!None /\ y = GroupedTable!None
  ELSE \E m \in P : IsLargest(P, m) /\ x = input[m].tel /\ MaxIs(P \ {m}, y)

(* The accumulator of country c over the first n rows. *)
AccIs(c, n, a) ==
  CASE job = "count_max" -> \E x : a = <<Cardinality(RowsTo(c, n)), x>> /\ MaxIs(RowsTo(c, n), x)
    [] job = "top2" -> \E x, y : a = <<x, y>> /\ Top2Is(RowsTo(c, n), x, y)
    [] OTHER -> a = <<Cardinality(RowsTo(c, n)), GroupedTable!SumOf(c, n)>>

(* The next row is one more, or of another country. *)
LEMMA RowsGrow ==
  ASSUME input \in Seq(InputRows), NEW n \in Nat, n < Len(input), NEW c
  PROVE  /\ IsFiniteSet(RowsTo(c, n)) /\ Cardinality(RowsTo(c, n)) \in Nat
         /\ n + 1 \notin RowsTo(c, n)
         /\ \A i \in RowsTo(c, n) \cup {n + 1} : input[i].tel \in Nat
         /\ input[n + 1].country # c => RowsTo(c, n + 1) = RowsTo(c, n)
         /\ input[n + 1].country = c =>
              /\ RowsTo(c, n + 1) = RowsTo(c, n) \cup {n + 1}
              /\ Cardinality(RowsTo(c, n + 1)) = Cardinality(RowsTo(c, n)) + 1
<1>. DEFINE P == RowsTo(c, n)
<1>1. IsFiniteSet(1..n) BY FS_Interval
<1>2. P \subseteq 1..n BY DEF RowsTo
<1>3. IsFiniteSet(P) /\ Cardinality(P) \in Nat
  <2>. DEFINE D == 1..n
  <2>. HIDE DEF P, D
  <2>. QED BY <1>1, <1>2, FS_Subset, FS_CardinalityType DEF D
<1>4. 1..(n + 1) = 1..n \cup {n + 1} /\ n + 1 \notin 1..n OBVIOUS
<1>5. \A i \in P \cup {n + 1} : input[i].tel \in Nat
  <2>. SUFFICES ASSUME NEW i \in P \cup {n + 1} PROVE input[i].tel \in Nat OBVIOUS
  <2>1. Len(input) \in Nat /\ i \in 1..Len(input) BY <1>2
  <2>2. input[i] \in InputRows BY <2>1, ElementIn
  <2>. QED BY <2>2 DEF InputRows
<1>6. input[n + 1].country # c => RowsTo(c, n + 1) = P BY <1>4 DEF RowsTo
<1>7. input[n + 1].country = c => RowsTo(c, n + 1) = P \cup {n + 1} BY <1>4 DEF RowsTo
<1>8. n + 1 \notin P BY <1>2, <1>4
<1>9. Cardinality(P \cup {n + 1}) = Cardinality(P) + 1
  <2>. HIDE DEF P
  <2>. QED BY <1>3, <1>8, FS_AddElement
<1>. QED BY <1>3, <1>5, <1>6, <1>7, <1>8, <1>9

(* The largest number of one more row. *)
LEMMA MaxGrows ==
  ASSUME NEW P, NEW x, NEW p, p \notin P, \A i \in P \cup {p} : input[i].tel \in Nat, MaxIs(P, x)
  PROVE  /\ x \in Int
         /\ P = {} <=> x = GroupedTable!None
         /\ P # {} => x \in Nat
         /\ MaxIs(P \cup {p}, IF input[p].tel > x THEN input[p].tel ELSE x)
<1>1. CASE P = {}
  <2>1. x = -1 BY <1>1 DEF MaxIs, GroupedTable!None
  <2>2. IsLargest(P \cup {p}, p) BY <1>1 DEF IsLargest
  <2>3. input[p].tel > x BY <2>1
  <2>. QED BY <1>1, <2>1, <2>2, <2>3 DEF MaxIs, GroupedTable!None
<1>2. CASE P # {}
  <2>1. PICK m \in P : IsLargest(P, m) /\ x = input[m].tel BY <1>2 DEF MaxIs
  <2>2. x \in Nat /\ x # -1 BY <2>1
  <2>3. CASE input[p].tel > x
    <3>1. \A i \in P : input[i].tel =< input[p].tel
      <4>. SUFFICES ASSUME NEW i \in P PROVE input[i].tel =< input[p].tel OBVIOUS
      <4>1. input[i].tel =< x /\ input[i].tel \in Nat /\ input[p].tel \in Nat
        BY <2>1 DEF IsLargest
      <4>. QED BY <2>2, <2>3, <4>1
    <3>2. IsLargest(P \cup {p}, p) BY <3>1 DEF IsLargest
    <3>. QED BY <1>2, <2>2, <2>3, <3>2 DEF MaxIs, GroupedTable!None
  <2>4. CASE ~(input[p].tel > x)
    <3>1. IsLargest(P \cup {p}, m) BY <2>1, <2>2, <2>4 DEF IsLargest
    <3>. QED BY <1>2, <2>1, <2>2, <2>4, <3>1 DEF MaxIs, GroupedTable!None
  <2>. QED BY <2>2, <2>3, <2>4
<1>. QED BY <1>1, <1>2

(* Top2 keeps the two largest. *)
LEMMA Top2Grows ==
  ASSUME NEW P, NEW x, NEW y, NEW p, p \notin P, \A i \in P \cup {p} : input[i].tel \in Nat,
         Top2Is(P, x, y)
  PROVE  \E u, v : /\ GroupedTable!Top2(<<x, y>>, input[p].tel) = <<u, v>>
                   /\ Top2Is(P \cup {p}, u, v)
<1>. DEFINE t == input[p].tel
<1>0. t \in Nat OBVIOUS
<1>1. CASE P = {}
  <2>1. x = -1 BY <1>1 DEF Top2Is, GroupedTable!None
  <2>2. GroupedTable!Top2(<<x, y>>, t) = <<t, x>> BY <2>1 DEF GroupedTable!Top2, GroupedTable!None
  <2>3. IsLargest(P \cup {p}, p) BY <1>1 DEF IsLargest
  <2>4. (P \cup {p}) \ {p} = {} BY <1>1
  <2>5. MaxIs((P \cup {p}) \ {p}, x) BY <2>1, <2>4 DEF MaxIs, GroupedTable!None
  <2>. QED BY <2>2, <2>3, <2>5 DEF Top2Is
<1>2. CASE P # {}
  <2>1. PICK m \in P : IsLargest(P, m) /\ x = input[m].tel /\ MaxIs(P \ {m}, y)
    BY <1>2 DEF Top2Is
  <2>2. x \in Nat /\ x # GroupedTable!None BY <2>1 DEF GroupedTable!None
  <2>3. CASE t > x
    <3>1. GroupedTable!Top2(<<x, y>>, t) = <<t, x>> BY <2>3 DEF GroupedTable!Top2
    <3>2. (P \cup {p}) \ {p} = P OBVIOUS
    <3>3. MaxIs((P \cup {p}) \ {p}, x) BY <1>2, <2>1, <3>2 DEF MaxIs
    <3>4. \A i \in P : input[i].tel =< t
      <4>. SUFFICES ASSUME NEW i \in P PROVE input[i].tel =< t OBVIOUS
      <4>1. input[i].tel =< x /\ input[i].tel \in Nat BY <2>1 DEF IsLargest
      <4>. HIDE DEF t
      <4>. QED BY <1>0, <2>2, <2>3, <4>1
    <3>5. IsLargest(P \cup {p}, p) BY <3>4 DEF IsLargest
    <3>. QED BY <3>1, <3>3, <3>5 DEF Top2Is
  <2>4. CASE ~(t > x)
    <3>. DEFINE R == P \ {m}
                z == IF t > y THEN t ELSE y
    <3>1. p \notin R /\ \A i \in R \cup {p} : input[i].tel \in Nat OBVIOUS
    <3>2. /\ y \in Int /\ (R = {} <=> y = GroupedTable!None) /\ (R # {} => y \in Nat)
          /\ MaxIs(R \cup {p}, z)
      <4>1. MaxIs(R, y) BY <2>1
      <4>. HIDE DEF R
      <4>. QED BY <3>1, <4>1, MaxGrows
    <3>3. (P \cup {p}) \ {m} = R \cup {p} BY <2>1
    <3>4. GroupedTable!Top2(<<x, y>>, t) = <<x, z>>
      <4>1. y = GroupedTable!None => t > y BY <1>0 DEF GroupedTable!None
      <4>. HIDE DEF t
      <4>. QED BY <1>0, <2>2, <2>4, <4>1 DEF GroupedTable!Top2
    <3>5. IsLargest(P \cup {p}, m) BY <1>0, <2>1, <2>2, <2>4 DEF IsLargest
    <3>6. MaxIs((P \cup {p}) \ {m}, z) BY <3>2, <3>3
    <3>. HIDE DEF z
    <3>. QED BY <2>1, <3>4, <3>5, <3>6 DEF Top2Is
  <2>. QED BY <2>3, <2>4
<1>. QED BY <1>1, <1>2

(* Before the first row every accumulator is empty. *)
LEMMA AccEmpty ==
  ASSUME job \in GroupedTable!Jobs, input \in Seq(InputRows), NEW c
  PROVE  AccIs(c, 0, GroupedTable!Empty)
<1>1. RowsTo(c, 0) = {} BY DEF RowsTo
<1>2. Cardinality(RowsTo(c, 0)) = 0 BY <1>1, FS_EmptySet
<1>3. GroupedTable!SumOf(c, 0) = 0
  <2>1. 0 \in 0..Len(input) OBVIOUS
  <2>. QED BY <2>1, SumGrows
<1>. QED BY <1>1, <1>2, <1>3 DEF AccIs, GroupedTable!Empty, MaxIs, Top2Is

(* The next row of the country goes into its accumulator, and a row of     *)
(* another leaves it.                                                      *)
LEMMA AccGrows ==
  ASSUME input \in Seq(InputRows), NEW n \in Nat, n < Len(input), NEW c, NEW a, AccIs(c, n, a)
  PROVE  AccIs(c, n + 1, IF input[n + 1].country = c
                         THEN GroupedTable!Accumulate(a, input[n + 1].tel) ELSE a)
<1>. DEFINE p == n + 1
            P == RowsTo(c, n)
<1>1. /\ Cardinality(P) \in Nat /\ p \notin P /\ \A i \in P \cup {p} : input[i].tel \in Nat
      /\ input[p].country # c => RowsTo(c, p) = P
      /\ input[p].country = c => /\ RowsTo(c, p) = P \cup {p}
                                 /\ Cardinality(RowsTo(c, p)) = Cardinality(P) + 1
  BY RowsGrow
<1>2. n \in 0..Len(input) /\ Len(input) \in Nat OBVIOUS
<1>3. GroupedTable!SumOf(c, n) \in Int /\ GroupedTable!SumOf(c, p) = GroupedTable!SumOf(c, n) + Amount(c, p)
  BY <1>2, SumGrows
<1>. HIDE DEF p, P
<1>4. CASE input[p].country # c
  <2>1. Amount(c, p) = 0 BY <1>4 DEF Amount
  <2>2. GroupedTable!SumOf(c, p) = GroupedTable!SumOf(c, n) BY <1>3, <2>1
  <2>. QED BY <1>1, <1>4, <2>2 DEF AccIs, p, P
<1>5. CASE input[p].country = c
  <2>0. Amount(c, p) = input[p].tel /\ input[p].tel \in Nat BY <1>1, <1>5 DEF Amount
  <2>1. CASE job = "count_max"
    <3>1. PICK x : a = <<Cardinality(P), x>> /\ MaxIs(P, x) BY <2>1 DEF AccIs, P
    <3>. DEFINE y == IF input[p].tel > x THEN input[p].tel ELSE x
    <3>2. MaxIs(P \cup {p}, y) BY <1>1, <3>1, MaxGrows
    <3>3. GroupedTable!Accumulate(a, input[p].tel) = <<Cardinality(P) + 1, y>>
      BY <2>1, <3>1 DEF GroupedTable!Accumulate
    <3>. HIDE DEF y
    <3>4. MaxIs(RowsTo(c, p), y) BY <1>1, <1>5, <3>2
    <3>5. GroupedTable!Accumulate(a, input[p].tel) = <<Cardinality(RowsTo(c, p)), y>>
      BY <1>1, <1>5, <3>3
    <3>. QED BY <1>5, <2>1, <3>4, <3>5 DEF AccIs, p
  <2>2. CASE job = "top2"
    <3>1. PICK x, y : a = <<x, y>> /\ Top2Is(P, x, y) BY <2>2 DEF AccIs, P
    <3>2. PICK u, v : /\ GroupedTable!Top2(<<x, y>>, input[p].tel) = <<u, v>>
                      /\ Top2Is(P \cup {p}, u, v)
      BY <1>1, <3>1, Top2Grows
    <3>3. GroupedTable!Accumulate(a, input[p].tel) = <<u, v>>
      BY <2>2, <3>1, <3>2 DEF GroupedTable!Accumulate
    <3>4. Top2Is(RowsTo(c, p), u, v) BY <1>1, <1>5, <3>2
    <3>. QED BY <1>5, <2>2, <3>3, <3>4 DEF AccIs, p
  <2>3. CASE job \notin {"count_max", "top2"}
    <3>1. a = <<Cardinality(P), GroupedTable!SumOf(c, n)>> BY <2>3 DEF AccIs, P
    <3>2. GroupedTable!Accumulate(a, input[p].tel)
            = <<Cardinality(P) + 1, GroupedTable!SumOf(c, n) + input[p].tel>>
      BY <2>3, <3>1 DEF GroupedTable!Accumulate, GroupedTable!CountAndSum
    <3>3. GroupedTable!Accumulate(a, input[p].tel)
            = <<Cardinality(RowsTo(c, p)), GroupedTable!SumOf(c, p)>>
      BY <1>1, <1>3, <1>5, <2>0, <3>2
    <3>. QED BY <1>5, <2>3, <3>3 DEF AccIs, p
  <2>. QED BY <2>1, <2>2, <2>3
<1>. QED BY <1>4, <1>5 DEF p

(* A largest number is that of the row that is chosen. *)
LEMMA LargestOne ==
  ASSUME NEW P, NEW x, P # {}, MaxIs(P, x), \A i \in P : input[i].tel \in Nat
  PROVE  /\ IsLargest(P, GroupedTable!Largest(P)) /\ x = input[GroupedTable!Largest(P)].tel
         /\ GroupedTable!Emitted(x) = GroupedTable!Shown(GroupedTable!Largest(P))
<1>. DEFINE l == GroupedTable!Largest(P)
<1>1. PICK m \in P : IsLargest(P, m) /\ x = input[m].tel BY DEF MaxIs
<1>2. IsLargest(P, l)
  <2>1. l = CHOOSE k \in P : \A i \in P : input[i].tel =< input[k].tel
    BY DEF GroupedTable!Largest
  <2>2. \E k \in P : \A i \in P : input[i].tel =< input[k].tel BY <1>1 DEF IsLargest
  <2>. HIDE DEF l
  <2>. QED BY <2>1, <2>2 DEF IsLargest
<1>. HIDE DEF l
<1>3. x = input[l].tel
  <2>1. input[m].tel =< input[l].tel /\ input[l].tel =< input[m].tel BY <1>1, <1>2 DEF IsLargest
  <2>2. input[m].tel \in Nat /\ input[l].tel \in Nat BY <1>2 DEF IsLargest
  <2>. QED BY <1>1, <2>1, <2>2
<1>4. x \in Nat BY <1>1
<1>5. GroupedTable!Emitted(x) = GroupedTable!Shown(l)
  BY <1>3, <1>4 DEF GroupedTable!Emitted, GroupedTable!Shown, GroupedTable!None
<1>. QED BY <1>2, <1>3, <1>5 DEF l

(* So are the two largest. *)
LEMMA LargestTwo ==
  ASSUME NEW P, NEW x, NEW y, P # {}, Top2Is(P, x, y), \A i \in P : input[i].tel \in Nat
  PROVE  MaxIs(P, x) /\ MaxIs(P \ {GroupedTable!Largest(P)}, y)
<1>1. PICK m \in P : IsLargest(P, m) /\ x = input[m].tel /\ MaxIs(P \ {m}, y) BY DEF Top2Is
<1>2. MaxIs(P, x) BY <1>1 DEF MaxIs
<1>. DEFINE l == GroupedTable!Largest(P)
<1>3. IsLargest(P, l) /\ x = input[l].tel BY <1>2, LargestOne
<1>. HIDE DEF l
<1>4. CASE l = m BY <1>1, <1>2, <1>4 DEF l
<1>5. CASE l # m
  <2>1. l \in P \ {m} BY <1>3, <1>5 DEF IsLargest
  <2>2. PICK k \in P \ {m} : IsLargest(P \ {m}, k) /\ y = input[k].tel BY <1>1, <2>1 DEF MaxIs
  <2>3. x =< y /\ y =< x BY <1>1, <1>3, <2>1, <2>2 DEF IsLargest
  <2>4. x = y
    <3>1. x \in Nat /\ y \in Nat BY <1>1, <2>2
    <3>. QED BY <2>3, <3>1
  <2>5. m \in P \ {l} /\ IsLargest(P \ {l}, m) BY <1>1, <1>5 DEF IsLargest
  <2>6. MaxIs(P \ {l}, y) BY <1>1, <2>4, <2>5 DEF MaxIs
  <2>. QED BY <1>2, <2>6 DEF l
<1>. QED BY <1>4, <1>5

(* The rows up to pos are those read. *)
LEMMA RowsRead ==
  ASSUME input \in Seq(InputRows), NEW n \in 0..Len(input), NEW c
  PROVE  /\ n = pos => GroupedTable!Members(c) = RowsTo(c, n)
         /\ IsFiniteSet(RowsTo(c, n)) /\ Cardinality(RowsTo(c, n)) \in Nat
         /\ \A i \in RowsTo(c, n) : input[i].tel \in Nat
<1>1. n = pos => GroupedTable!Members(c) = RowsTo(c, n) BY DEF GroupedTable!Members, RowsTo
<1>2. IsFiniteSet(RowsTo(c, n)) /\ Cardinality(RowsTo(c, n)) \in Nat
  <2>. DEFINE D == 1..n
              P == RowsTo(c, n)
  <2>1. IsFiniteSet(D) BY FS_Interval
  <2>2. P \subseteq D BY DEF RowsTo
  <2>3. IsFiniteSet(P) /\ Cardinality(P) \in Nat
    <3>. HIDE DEF P, D
    <3>. QED BY <2>1, <2>2, FS_Subset, FS_CardinalityType
  <2>. QED BY <2>3
<1>3. \A i \in RowsTo(c, n) : input[i].tel \in Nat
  <2>. SUFFICES ASSUME NEW i \in RowsTo(c, n) PROVE input[i].tel \in Nat OBVIOUS
  <2>1. Len(input) \in Nat /\ i \in 1..Len(input) BY DEF RowsTo
  <2>2. input[i] \in InputRows BY <2>1, ElementIn
  <2>. QED BY <2>2 DEF InputRows
<1>. QED BY <1>1, <1>2, <1>3

(* The cardinality of GroupedTable is that of the library. *)
LEMMA SameCard == \A S : GroupedTable!Cardinality(S) = Cardinality(S)
BY Zenon DEF GroupedTable!Cardinality, Cardinality

(* A sequence of two elements is the pair of them. *)
LEMMA PairOf ==
  \A x, y, t : (DOMAIN t = 1..2 /\ t = [i \in 1..2 |-> t[i]] /\ t[1] = x /\ t[2] = y)
               => t = <<x, y>>
<1>. SUFFICES ASSUME NEW x, NEW y, NEW t, DOMAIN t = 1..2, t = [i \in 1..2 |-> t[i]],
                     t[1] = x, t[2] = y
              PROVE  t = <<x, y>>
  OBVIOUS
<1>. DEFINE u == <<x, y>>
<1>1. DOMAIN u = 1..2 OBVIOUS
<1>2. u[1] = x /\ u[2] = y OBVIOUS
<1>3. u = [i \in 1..2 |-> u[i]] OBVIOUS
<1>. HIDE DEF u
<1>4. \A i \in 1..2 : t[i] = u[i]
  <2>1. \A i \in 1..2 : i = 1 \/ i = 2 OBVIOUS
  <2>. QED BY <1>2, <2>1
<1>5. [i \in 1..2 |-> t[i]] = [i \in 1..2 |-> u[i]] BY <1>4
<1>6. t = u BY <1>3, <1>5
<1>. QED BY <1>6 DEF u

(* A second element makes a pair. *)
LEMMA Appended == \A x, y : Append(<<x>>, y) = <<x, y>>
<1>. SUFFICES ASSUME NEW x, NEW y
              PROVE  Append(<<x>>, y) = <<x, y>>
  OBVIOUS
<1>. DEFINE S == {x, y}
            f == <<x>>
            t == Append(f, y)
<1>1. f \in Seq(S) /\ Len(f) = 1 /\ f[1] = x /\ y \in S OBVIOUS
<1>. HIDE DEF S, f
<1>2. t \in Seq(S) /\ Len(t) = 2
  <2>1. t \in Seq(S) /\ Len(t) = Len(f) + 1 BY <1>1
  <2>. QED BY <1>1, <2>1
<1>3. t[1] = x BY <1>1
<1>4. t[2] = y
  <2>1. \A q \in Seq(S), e \in S : Append(q, e)[Len(q) + 1] = e OBVIOUS
  <2>2. Append(f, y)[Len(f) + 1] = y BY <1>1, <2>1
  <2>3. Len(f) + 1 = 2 BY <1>1
  <2>. QED BY <2>2, <2>3
<1>. HIDE DEF t
<1>5. DOMAIN t = 1..2 /\ t = [i \in 1..2 |-> t[i]] BY <1>2
<1>6. t = <<x, y>> BY <1>3, <1>4, <1>5, PairOf
<1>. QED BY <1>6 DEF t, f

(* Joining sequences of at most one element. *)
LEMMA ShortJoined ==
  \A x, y : /\ <<>> \o <<>> = <<>> /\ <<x>> \o <<>> = <<x>>
            /\ <<>> \o <<y>> = <<y>> /\ <<x>> \o <<y>> = <<x, y>>
<1>. SUFFICES ASSUME NEW x, NEW y
     PROVE  /\ <<>> \o <<>> = <<>> /\ <<x>> \o <<>> = <<x>>
            /\ <<>> \o <<y>> = <<y>> /\ <<x>> \o <<y>> = <<x, y>>
  OBVIOUS
<1>. DEFINE S == {x, y}
<1>1. <<x>> \in Seq(S) /\ <<y>> \in Seq(S) /\ <<>> \in Seq(S) /\ x \in S /\ y \in S OBVIOUS
<1>. HIDE DEF S
<1>2. \A s \in Seq(S) : s \o <<>> = s OBVIOUS
<1>3. \A s \in Seq(S) : <<>> \o s = s OBVIOUS
<1>4. \A s \in Seq(S) : s \o <<y>> = Append(s, y) BY <1>1
<1>5. Append(<<x>>, y) = <<x, y>> BY Appended
<1>. QED BY <1>1, <1>2, <1>3, <1>4, <1>5

(* The values of an accumulator are one or two. *)
LEMMA ValuesShort ==
  ASSUME input \in Seq(InputRows), NEW n \in 0..Len(input), NEW c, NEW a, AccIs(c, n, a)
  PROVE  /\ ShortValues(GroupedTable!Values(a))
         /\ job = "sum" => \E x \in GroupValues : GroupedTable!Values(a) = <<x>>
<1>. DEFINE P == RowsTo(c, n)
            k == Cardinality(P)
            s == GroupedTable!SumOf(c, n)
<1>1. k \in Nat /\ s \in Int /\ \A i \in P : input[i].tel \in Nat BY RowsRead, SumGrows
<1>. HIDE DEF P, k, s
<1>2. \A m : m \in GroupValues <=> m \in Int \/ m \in Int \X Int \/ m = "row"
  BY DEF GroupValues
<1>3. ASSUME NEW x, MaxIs(P, x) PROVE x \in Int
  <2>1. CASE P = {} BY <1>3, <2>1 DEF MaxIs, GroupedTable!None
  <2>2. CASE P # {} BY <1>1, <1>3, <2>2 DEF MaxIs
  <2>. QED BY <2>1, <2>2
<1>4. CASE job = "count_max"
  <2>1. PICK x : a = <<k, x>> /\ MaxIs(P, x) BY <1>4 DEF AccIs, P, k
  <2>2. x \in Int BY <1>3, <2>1
  <2>3. a \in GroupValues BY <1>1, <1>2, <2>1, <2>2
  <2>. QED BY <1>4, <2>3 DEF ShortValues, GroupedTable!Values
<1>5. CASE job = "distinct"
  <2>1. "row" \in GroupValues BY <1>2
  <2>. QED BY <1>5, <2>1 DEF ShortValues, GroupedTable!Values
<1>6. CASE job = "top2"
  <2>1. PICK x, y : a = <<x, y>> /\ Top2Is(P, x, y) BY <1>6 DEF AccIs, P
  <2>2. GroupedTable!Values(a) = GroupedTable!Emitted(x) \o GroupedTable!Emitted(y)
    BY <1>6, <2>1 DEF GroupedTable!Values, GroupedTable!EmitTop2
  <2>3. x \in Int /\ y \in Int
    <3>1. CASE P = {} BY <2>1, <3>1 DEF Top2Is, GroupedTable!None
    <3>2. CASE P # {}
      <4>1. PICK m \in P : x = input[m].tel /\ MaxIs(P \ {m}, y) BY <2>1, <3>2 DEF Top2Is
      <4>2. CASE P \ {m} = {} BY <1>1, <4>1, <4>2 DEF MaxIs, GroupedTable!None
      <4>3. CASE P \ {m} # {}
        <5>1. PICK i \in P \ {m} : y = input[i].tel BY <4>1, <4>3 DEF MaxIs
        <5>. QED BY <1>1, <4>1, <5>1
      <4>. QED BY <4>2, <4>3
    <3>. QED BY <3>1, <3>2
  <2>4. x \in GroupValues /\ y \in GroupValues BY <1>2, <2>3
  <2>5. /\ <<>> \o <<>> = <<>> /\ <<x>> \o <<>> = <<x>>
        /\ <<>> \o <<y>> = <<y>> /\ <<x>> \o <<y>> = <<x, y>>
    BY ShortJoined
  <2>6. GroupedTable!Emitted(x) = <<>> \/ GroupedTable!Emitted(x) = <<x>>
    BY DEF GroupedTable!Emitted
  <2>7. GroupedTable!Emitted(y) = <<>> \/ GroupedTable!Emitted(y) = <<y>>
    BY DEF GroupedTable!Emitted
  <2>. QED BY <1>6, <2>2, <2>4, <2>5, <2>6, <2>7 DEF ShortValues
<1>7. CASE job \notin {"count_max", "distinct", "top2"}
  <2>1. a = <<k, s>> BY <1>7 DEF AccIs, P, k, s
  <2>2. GroupedTable!Values(a) = <<s>> \/ (job # "sum" /\ GroupedTable!Values(a) = <<a>>)
    BY <1>7, <2>1 DEF GroupedTable!Values
  <2>3. a \in GroupValues /\ s \in GroupValues BY <1>1, <1>2, <2>1
  <2>. QED BY <2>2, <2>3 DEF ShortValues
<1>. QED BY <1>4, <1>5, <1>6, <1>7

(* The result has the values of the accumulator. *)
LEMMA ReferenceIs ==
  ASSUME job \in GroupedTable!Jobs, input \in Seq(InputRows), pos \in 0..Len(input),
         NEW c, NEW a, AccIs(c, pos, a)
  PROVE  GroupedTable!Reference(c) = IF RowsTo(c, pos) = {} THEN <<>>
                                     ELSE GroupedTable!Values(a)
<1>. DEFINE P == RowsTo(c, pos)
            n == Cardinality(P)
            s == GroupedTable!SumOf(c, pos)
<1>1. /\ GroupedTable!Members(c) = P /\ GroupedTable!Cardinality(P) = n
      /\ \A i \in P : input[i].tel \in Nat
  BY RowsRead, SameCard
<1>. HIDE DEF P, n, s
<1>2. CASE P = {} BY <1>1, <1>2 DEF GroupedTable!Reference, P
<1>. SUFFICES ASSUME P # {} PROVE GroupedTable!Reference(c) = GroupedTable!Values(a)
  BY <1>2 DEF P
<1>3. CASE job = "count_max"
  <2>1. PICK x : a = <<n, x>> /\ MaxIs(P, x) BY <1>3 DEF AccIs, P, n
  <2>2. x = input[GroupedTable!Largest(P)].tel BY <1>1, <2>1, LargestOne
  <2>. QED BY <1>1, <1>3, <2>1, <2>2 DEF GroupedTable!Reference, GroupedTable!Values
<1>4. CASE job = "distinct"
  BY <1>1, <1>4 DEF GroupedTable!Reference, GroupedTable!Values
<1>5. CASE job \in {"sum", "count_sum"}
  <2>1. a = <<n, s>> BY <1>5 DEF AccIs, P, n, s
  <2>. QED BY <1>1, <1>5, <2>1 DEF GroupedTable!Reference, GroupedTable!Values, s
<1>6. CASE job = "top2"
  <2>1. PICK x, y : a = <<x, y>> /\ Top2Is(P, x, y) BY <1>6 DEF AccIs, P
  <2>. DEFINE l == GroupedTable!Largest(P)
              R == P \ {l}
  <2>2. MaxIs(P, x) /\ MaxIs(R, y) BY <1>1, <2>1, LargestTwo
  <2>3. GroupedTable!Emitted(x) = GroupedTable!Shown(l) BY <1>1, <2>2, LargestOne
  <2>4. GroupedTable!Emitted(y) = IF R = {} THEN <<>>
                                  ELSE GroupedTable!Shown(GroupedTable!Largest(R))
    <3>1. CASE R = {} BY <2>2, <3>1 DEF MaxIs, GroupedTable!Emitted, GroupedTable!None
    <3>2. CASE R # {}
      <4>1. \A i \in R : input[i].tel \in Nat BY <1>1
      <4>. HIDE DEF R
      <4>. QED BY <2>2, <3>2, <4>1, LargestOne
    <3>. QED BY <3>1, <3>2
  <2>. QED
    BY <1>1, <1>6, <2>1, <2>3, <2>4
    DEF GroupedTable!Reference, GroupedTable!Values, GroupedTable!EmitTop2
<1>. QED BY <1>3, <1>4, <1>5, <1>6 DEF GroupedTable!Jobs

(* Where a country that waits for no bundle to end has reported. *)
Current(c) == IF RowsTo(c, pos) = {} THEN <<>> ELSE GroupedTable!Values(acc[c])

(* The groups and their countries.  A bundle's countries are each there    *)
(* once, and with a row.                                                   *)
TableTyped ==
  /\ job \in GroupedTable!Jobs /\ input \in Seq(InputRows) /\ pos \in 0..Len(input)
  /\ DOMAIN acc = GroupedTable!Countries /\ DOMAIN sent = GroupedTable!Countries
  /\ out \in Seq(Entry)

BundleTyped ==
  /\ dirty \in Seq(GroupedTable!Countries)
  /\ \A i, j \in DOMAIN dirty : dirty[i] = dirty[j] => i = j
  /\ job \notin GroupedTable!InPython => dirty = <<>>
  /\ \A i \in DOMAIN dirty : RowsTo(dirty[i], pos) # {}

(* Accumulators are over the rows read, the changelog leaves what was      *)
(* reported, and countries outside the bundle have reported.               *)
AccsRight == \A c \in GroupedTable!Countries : AccIs(c, pos, acc[c])

ReportsStand ==
  \A c \in GroupedTable!Countries : ShortValues(sent[c]) /\ Stands(out, c, sent[c])

OthersReported ==
  \A c \in GroupedTable!Countries : c \notin Elements(dirty) => sent[c] = Current(c)

TableInv == TableTyped /\ BundleTyped /\ AccsRight /\ ReportsStand /\ OthersReported

(* The sums of the same rows are the same. *)
LEMMA SumSame ==
  ASSUME input' = input
  PROVE  /\ \A c, n : GroupedTable!SumOf(c, n)' = GroupedTable!SumOf(c, n)
         /\ \A c : GroupedTable!SumOf(c, pos)' = GroupedTable!SumOf(c, pos')
<1>1. ASSUME NEW c, NEW n PROVE GroupedTable!SumOf(c, n)' = GroupedTable!SumOf(c, n)
  BY DEF GroupedTable!SumOf, GroupedTable!FoldLeft, GroupedTable!MapThenFoldSet
<1>2. ASSUME NEW c PROVE GroupedTable!SumOf(c, pos)' = GroupedTable!SumOf(c, pos')
  BY DEF GroupedTable!SumOf, GroupedTable!FoldLeft, GroupedTable!MapThenFoldSet
<1>. QED BY <1>1, <1>2

(* For the same program and rows, what the invariant says is about the new *)
(* values of the other variables.                                          *)
LEMMA TablePrimed ==
  ASSUME job' = job, input' = input
  PROVE  /\ GroupedTable!Countries' = GroupedTable!Countries
         /\ Entry' = Entry /\ InputRows' = InputRows
         /\ \A c : (RowsTo(c, pos)' = RowsTo(c, pos'))
         /\ \A c : (Current(c)' = IF RowsTo(c, pos') = {} THEN <<>>
                                  ELSE GroupedTable!Values(acc'[c]))
         /\ \A c : (AccIs(c, pos, acc[c])' <=> AccIs(c, pos', acc'[c]))
         /\ \A c : (ShortValues(sent[c])' <=> ShortValues(sent'[c]))
         /\ \A c : (Stands(out, c, sent[c])' <=> Stands(out', c, sent'[c]))
<1>1. GroupedTable!Countries' = GroupedTable!Countries BY DEF GroupedTable!Countries
<1>2. Entry' = Entry /\ InputRows' = InputRows BY <1>1 DEF Entry, InputRows, GroupValues
<1>3. \A c : (RowsTo(c, pos)' = RowsTo(c, pos')) BY DEF RowsTo
<1>4. \A c : (Current(c)' = IF RowsTo(c, pos') = {} THEN <<>> ELSE GroupedTable!Values(acc'[c]))
  BY <1>3 DEF Current, GroupedTable!Values, GroupedTable!EmitTop2, GroupedTable!Emitted,
     GroupedTable!None
<1>5. \A c : (AccIs(c, pos, acc[c])' <=> AccIs(c, pos', acc'[c]))
  <2>. SUFFICES ASSUME NEW c PROVE AccIs(c, pos, acc[c])' <=> AccIs(c, pos', acc'[c]) OBVIOUS
  <2>1. GroupedTable!SumOf(c, pos)' = GroupedTable!SumOf(c, pos') BY SumSame
  <2>2. \A x : (MaxIs(RowsTo(c, pos), x)' <=> MaxIs(RowsTo(c, pos'), x))
    BY <1>3 DEF MaxIs, IsLargest, GroupedTable!None
  <2>3. \A x, y : (Top2Is(RowsTo(c, pos), x, y)' <=> Top2Is(RowsTo(c, pos'), x, y))
    BY <1>3 DEF Top2Is, MaxIs, IsLargest, GroupedTable!None
  <2>. QED BY <1>3, <2>1, <2>2, <2>3 DEF AccIs
<1>6. \A c : (ShortValues(sent[c])' <=> ShortValues(sent'[c]))
  BY DEF ShortValues, GroupValues
<1>7. \A c : (Stands(out, c, sent[c])' <=> Stands(out', c, sent'[c]))
  BY DEF Stands, SumStands, StandsFor, SentLast, Net, Given, TakenBack, In
<1>. QED BY <1>1, <1>2, <1>3, <1>4, <1>5, <1>6, <1>7

(* What a report adds are entries. *)
LEMMA ChangesTyped ==
  ASSUME NEW c \in GroupedTable!Countries, NEW old, NEW new, ShortValues(old), ShortValues(new),
         NEW o \in Seq(Entry)
  PROVE  o \o GroupedTable!Changes(c, old, new) \in Seq(Entry)
<1>. DEFINE E(op, s) == GroupedTable!Entries(op, c, s)
<1>1. \A op \in {"+I", "+U", "-D", "-U"} : E(op, old) \in Seq(Entry) /\ E(op, new) \in Seq(Entry)
  BY EntriesTyped
<1>2. \/ GroupedTable!Changes(c, old, new) = <<>>
      \/ GroupedTable!Changes(c, old, new) = E("+I", new)
      \/ GroupedTable!Changes(c, old, new) = E("-D", old) \o E("+I", new)
      \/ GroupedTable!Changes(c, old, new) = E("-U", old) \o E("+U", new)
  BY DEF GroupedTable!Changes, GroupedTable!Replaced
<1>3. \A x, y \in Seq(Entry) : x \o y \in Seq(Entry) OBVIOUS
<1>4. <<>> \in Seq(Entry) OBVIOUS
<1>. HIDE DEF E
<1>5. GroupedTable!Changes(c, old, new) \in Seq(Entry) BY <1>1, <1>2, <1>3, <1>4
<1>. QED BY <1>3, <1>5

(* The changelog after each of the bundle's reports, from o on. *)
Bundle(o, p) ==
  /\ p \in [0..Len(dirty) -> Seq(Entry)] /\ p[0] = o
  /\ \A i \in 1..Len(dirty) :
       p[i] = p[i - 1] \o GroupedTable!Changes(dirty[i], sent[dirty[i]],
                                              GroupedTable!Values(acc[dirty[i]]))

(* The end of a bundle goes through them. *)
LEMMA BundleSteps ==
  ASSUME TableInv
  PROVE  \E p : /\ Bundle(out, p)
                /\ GroupedTable!FoldLeft(LAMBDA s, c : s \o GroupedTable!Changes(c, sent[c],
                                                         GroupedTable!Values(acc[c])),
                                         out, dirty) = p[Len(dirty)]
<1>. DEFINE X(s) == ElasticsearchSink!Max(s)
            n == Len(dirty)
            S == Seq(Entry)
            C(c) == GroupedTable!Changes(c, sent[c], GroupedTable!Values(acc[c]))
            folded(it) == it = [s \in SUBSET (1..n) |->
              IF s = {} THEN out ELSE it[s \ {X(s)}] \o C(dirty[X(s)])]
            f == CHOOSE it : folded(it)
            g == [x \in S \X (1..n) |-> x[1] \o C(dirty[x[2]])]
<1>0. n \in Nat /\ DOMAIN dirty = 1..n /\ out \in S BY DEF TableInv, TableTyped, BundleTyped
<1>1. GroupedTable!FoldLeft(LAMBDA s, c : s \o GroupedTable!Changes(c, sent[c],
                              GroupedTable!Values(acc[c])), out, dirty) = f[1..n]
  <2>. DEFINE real(it) == it = [s \in SUBSET DOMAIN dirty |->
                IF s = {} THEN out
                ELSE it[s \ {GroupedTable!Max(s)}] \o C(dirty[GroupedTable!Max(s)])]
  <2>1. GroupedTable!FoldLeft(LAMBDA s, c : s \o GroupedTable!Changes(c, sent[c],
                              GroupedTable!Values(acc[c])), out, dirty)
          = (CHOOSE it : real(it))[DOMAIN dirty]
    BY DEF GroupedTable!FoldLeft, GroupedTable!MapThenFoldSet
  <2>2. \A it : real(it) <=> folded(it)
    <3>. HIDE DEF C
    <3>. QED BY <1>0, SameMax
  <2>. HIDE DEF real, folded
  <2>3. (CHOOSE it : real(it)) = f BY <2>2
  <2>. QED BY <1>0, <2>1, <2>3
<1>2. g \in [S \X (1..n) -> S]
  <2>1. ASSUME NEW o \in S, NEW i \in 1..n PROVE o \o C(dirty[i]) \in S
    <3>. DEFINE c == dirty[i]
                v == GroupedTable!Values(acc[c])
    <3>1. c \in GroupedTable!Countries BY ElementIn DEF TableInv, BundleTyped
    <3>2. ShortValues(sent[c]) /\ AccIs(c, pos, acc[c])
      BY <3>1 DEF TableInv, ReportsStand, AccsRight
    <3>3. ShortValues(v) BY <3>2, ValuesShort DEF TableInv, TableTyped
    <3>. HIDE DEF c, v
    <3>4. o \o GroupedTable!Changes(c, sent[c], v) \in S BY <3>1, <3>2, <3>3, ChangesTyped
    <3>. QED BY <3>4 DEF c, v
  <2>2. \A x \in S \X (1..n) : x[1] \o C(dirty[x[2]]) \in S
    <3>. HIDE DEF C, S
    <3>. QED BY <2>1
  <2>. HIDE DEF C, S
  <2>. QED BY <2>2
<1>. HIDE DEF C
<1>3. \A x \in S, i \in 1..n : g[<<x, i>>] = x \o C(dirty[i]) OBVIOUS
<1>4. PICK h : Folds(g, out, 1..n, h) /\ \A s \in SUBSET (1..n) : h[s] \in S
  <2>. HIDE DEF g, S, n
  <2>. QED BY <1>0, <1>2, TypedFold
<1>5. \A s \in SUBSET (1..n) : s # {} => X(s) \in s /\ X(s) \in 1..n /\ s \ {X(s)} \in SUBSET (1..n)
  BY <1>0, LastPlace
<1>. HIDE DEF g, S, X, n
<1>6. folded(h)
  <2>1. h = [s \in SUBSET (1..n) |-> IF s = {} THEN out ELSE g[<<h[s \ {X(s)}], X(s)>>]]
    BY <1>4 DEF Folds, X
  <2>. QED BY <1>3, <1>4, <1>5, <2>1
<1>7. folded(f)
  <2>. HIDE DEF folded
  <2>. QED BY <1>6
<1>8. f = [s \in SUBSET (1..n) |-> IF s = {} THEN out ELSE f[s \ {X(s)}] \o C(dirty[X(s)])]
  <2>1. \A it : folded(it) => it = [s \in SUBSET (1..n) |->
             IF s = {} THEN out ELSE it[s \ {X(s)}] \o C(dirty[X(s)])]
    OBVIOUS
  <2>. HIDE DEF folded, f
  <2>. QED BY <1>7, <2>1
<1>. HIDE DEF f
<1>9. f[{}] = out BY <1>8
<1>10. \A s \in SUBSET (1..n) :
         s # {} /\ f[s \ {X(s)}] \in S => f[s] = g[<<f[s \ {X(s)}], X(s)>>]
  BY <1>3, <1>5, <1>8
<1>. DEFINE p == [i \in 0..n |-> f[1..i]]
<1>11. p \in [0..n -> S] /\ f[1..0] = out /\ \A i \in 1..n : f[1..i] = g[<<f[1..(i - 1)], i>>]
  <2>. HIDE DEF p
  <2>1. [i \in 0..n |-> f[1..i]] \in [0..n -> S] /\ f[1..0] = out
        /\ \A i \in 1..n : f[1..i] = g[<<f[1..(i - 1)], i>>]
    <3>1. Follows(n, S, g, out, f) BY <1>9, <1>10 DEF X, Follows
    <3>2. GoesThrough(n, S, g, out, f) BY <1>0, <1>2, <3>1, FoldSteps
    <3>. QED BY <3>2 DEF GoesThrough
  <2>. QED BY <2>1 DEF p
<1>12. Bundle(out, p)
  <2>1. p[0] = out BY <1>0, <1>11
  <2>2. \A i \in 1..n : p[i] = p[i - 1] \o C(dirty[i])
    <3>. SUFFICES ASSUME NEW i \in 1..n PROVE p[i] = p[i - 1] \o C(dirty[i]) OBVIOUS
    <3>1. i \in 0..n /\ i - 1 \in 0..n BY <1>0
    <3>2. p[i] = f[1..i] /\ p[i - 1] = f[1..(i - 1)] BY <3>1
    <3>3. f[1..(i - 1)] \in S BY <1>11, <3>1
    <3>. QED BY <1>3, <1>11, <3>2, <3>3
  <2>. HIDE DEF p
  <2>. QED BY <1>11, <2>1, <2>2 DEF Bundle, S, n, C
<1>13. p[n] = f[1..n] BY <1>0
<1>. HIDE DEF p
<1>. QED BY <1>1, <1>12, <1>13 DEF n

(* What a country has after i of the bundle's reports. *)
SentUpTo(c, i) ==
  IF \E j \in 1..i : dirty[j] = c THEN GroupedTable!Values(acc[c]) ELSE sent[c]

(* The changelog stands for it. *)
LEMMA BundleStands ==
  ASSUME TableInv, NEW p, Bundle(out, p), NEW c \in GroupedTable!Countries
  PROVE  \A i \in 0..Len(dirty) : Stands(p[i], c, SentUpTo(c, i))
<1>. DEFINE n == Len(dirty)
<1>0. n \in Nat /\ DOMAIN dirty = 1..n BY DEF TableInv, BundleTyped
<1>1. ASSUME NEW b \in GroupedTable!Countries
      PROVE  /\ ShortValues(sent[b]) /\ Stands(out, b, sent[b])
             /\ ShortValues(GroupedTable!Values(acc[b]))
             /\ job = "sum" => \E x \in GroupValues : GroupedTable!Values(acc[b]) = <<x>>
  <2>1. ShortValues(sent[b]) /\ Stands(out, b, sent[b]) /\ AccIs(b, pos, acc[b])
    BY DEF TableInv, ReportsStand, AccsRight
  <2>. QED BY <2>1, ValuesShort DEF TableInv, TableTyped
<1>. DEFINE bad == {i \in 0..n : ~Stands(p[i], c, SentUpTo(c, i))}
<1>. SUFFICES ASSUME bad # {} PROVE FALSE OBVIOUS
<1>2. bad \subseteq Nat OBVIOUS
<1>3. PICK m \in bad : \A i \in bad : m =< i
  <2>. HIDE DEF bad
  <2>. QED BY <1>2, LeastNumber
<1>4. m \in 0..n /\ ~Stands(p[m], c, SentUpTo(c, m)) OBVIOUS
<1>5. m # 0
  <2>1. SentUpTo(c, 0) = sent[c] /\ p[0] = out BY DEF SentUpTo, Bundle
  <2>. QED BY <1>1, <1>4, <2>1
<1>6. m \in 1..n /\ m - 1 \in 0..n /\ m - 1 \in Nat BY <1>0, <1>4, <1>5
<1>7. Stands(p[m - 1], c, SentUpTo(c, m - 1))
  <2>1. m - 1 \notin bad
    <3>. HIDE DEF bad
    <3>. QED BY <1>3, <1>6
  <2>. QED BY <1>6, <2>1
<1>. DEFINE d == dirty[m]
            o == p[m - 1]
            new == GroupedTable!Values(acc[d])
<1>8. d \in GroupedTable!Countries BY <1>6, ElementIn DEF TableInv, BundleTyped
<1>9. o \in Seq(Entry) /\ p[m] = o \o GroupedTable!Changes(d, sent[d], new)
  BY <1>6 DEF Bundle
<1>10. ShortValues(sent[d]) /\ ShortValues(new)
       /\ (job = "sum" => \E x \in GroupValues : new = <<x>>)
  BY <1>1, <1>8
<1>11. 1..m = 1..(m - 1) \cup {m} /\ m \notin 1..(m - 1) BY <1>6
<1>. HIDE DEF bad, n
<1>12. CASE c = d
  <2>1. \A j \in 1..(m - 1) : dirty[j] # d
    <3>. SUFFICES ASSUME NEW j \in 1..(m - 1), dirty[j] = dirty[m] PROVE FALSE OBVIOUS
    <3>1. j \in 1..n /\ j # m BY <1>0, <1>6
    <3>. QED BY <1>0, <1>6, <3>1 DEF TableInv, BundleTyped
  <2>2. SentUpTo(c, m - 1) = sent[c] BY <1>12, <2>1 DEF SentUpTo
  <2>3. SentUpTo(c, m) = new BY <1>11, <1>12 DEF SentUpTo
  <2>4. Stands(o, d, sent[d]) BY <1>7, <1>12, <2>2
  <2>. HIDE DEF d, o, new
  <2>5. Stands(o \o GroupedTable!Changes(d, sent[d], new), d, new)
    BY <1>8, <1>9, <1>10, <2>4, ChangesStand
  <2>. QED BY <1>4, <1>9, <1>12, <2>3, <2>5
<1>13. CASE c # d
  <2>1. SentUpTo(c, m) = SentUpTo(c, m - 1) BY <1>11, <1>13 DEF SentUpTo
  <2>2. ShortValues(SentUpTo(c, m - 1)) BY <1>1 DEF SentUpTo
  <2>. DEFINE z == SentUpTo(c, m - 1)
  <2>3. Stands(o, c, z) /\ ShortValues(z) BY <1>7, <2>2
  <2>. HIDE DEF d, o, new, z
  <2>4. Stands(o \o GroupedTable!Changes(d, sent[d], new), c, z)
    BY <1>8, <1>9, <1>10, <1>13, <2>3, ChangesLeave
  <2>. QED BY <1>4, <1>9, <2>1, <2>4 DEF z
<1>. QED BY <1>12, <1>13

(* The invariant from its parts about the new values. *)
LEMMA TableFrom ==
  ASSUME job' = job, input' = input, TableTyped, pos' \in 0..Len(input),
         DOMAIN acc' = GroupedTable!Countries, DOMAIN sent' = GroupedTable!Countries,
         out' \in Seq(Entry), dirty' \in Seq(GroupedTable!Countries),
         \A i, j \in DOMAIN dirty' : dirty'[i] = dirty'[j] => i = j,
         job \notin GroupedTable!InPython => dirty' = <<>>,
         \A i \in DOMAIN dirty' : RowsTo(dirty'[i], pos') # {},
         \A c \in GroupedTable!Countries :
           /\ AccIs(c, pos', acc'[c]) /\ ShortValues(sent'[c]) /\ Stands(out', c, sent'[c])
           /\ c \notin Elements(dirty') =>
                sent'[c] = IF RowsTo(c, pos') = {} THEN <<>> ELSE GroupedTable!Values(acc'[c])
  PROVE  TableInv'
<1>1. TableTyped' BY TablePrimed DEF TableTyped, GroupedTable!Jobs
<1>2. BundleTyped'
  BY TablePrimed DEF BundleTyped, GroupedTable!InPython
<1>3. AccsRight' BY TablePrimed DEF AccsRight
<1>4. ReportsStand' BY TablePrimed DEF ReportsStand
<1>5. OthersReported' BY TablePrimed DEF OthersReported, Elements
<1>. QED BY <1>1, <1>2, <1>3, <1>4, <1>5 DEF TableInv

(* A sequence's rows have the countries of its rows. *)
LEMMA RowsTyped ==
  ASSUME \A i \in DOMAIN input : input[i].tel \in Nat, NEW S, input \in Seq(S),
         \A s \in S : s = [country |-> s.country, tel |-> s.tel]
  PROVE  input \in Seq(InputRows)
<1>1. Len(input) \in Nat /\ DOMAIN input = 1..Len(input) OBVIOUS
<1>2. ASSUME NEW i \in 1..Len(input) PROVE input[i] \in InputRows
  <2>1. input[i] \in S /\ input[i].tel \in Nat BY <1>1, ElementIn
  <2>2. input[i].country \in GroupedTable!Countries BY <1>1 DEF GroupedTable!Countries
  <2>3. input[i] = [country |-> input[i].country, tel |-> input[i].tel] BY <2>1
  <2>. QED BY <2>1, <2>2, <2>3 DEF InputRows
<1>3. input = [i \in 1..Len(input) |-> input[i]] OBVIOUS
<1>4. input \in [1..Len(input) -> InputRows] BY <1>2, <1>3
<1>. QED BY <1>1, <1>4, IsSequence

(* It holds in the beginning. *)
LEMMA TableInit == ASSUME GroupedTable!Init PROVE TableInv
<1>1. /\ job \in GroupedTable!Jobs /\ pos = 0 /\ dirty = <<>> /\ out = <<>>
      /\ input \in {GroupedTable!People, GroupedTable!RowPeople} \cup Tables
      /\ acc = [c \in GroupedTable!Countries |-> GroupedTable!Empty]
      /\ sent = [c \in GroupedTable!Countries |-> <<>>]
  BY DEF GroupedTable!Init
<1>2. input \in Seq(InputRows)
  <2>1. CASE input \in Tables
    <3>. DEFINE E == [country : STRING, tel : Nat]
    <3>1. input \in Seq(E) BY <2>1, TablesAssumption DEF TablesAssumption
    <3>2. \A e \in E : e.tel \in Nat /\ e = [country |-> e.country, tel |-> e.tel] OBVIOUS
    <3>. HIDE DEF E
    <3>3. \A i \in DOMAIN input : input[i].tel \in Nat
      <4>1. \A i \in DOMAIN input : input[i] \in E BY <3>1
      <4>. QED BY <3>2, <4>1
    <3>. QED BY <3>1, <3>2, <3>3, RowsTyped
  <2>2. ASSUME NEW a, NEW b, NEW c, NEW d, NEW k \in Nat, NEW l \in Nat, NEW m \in Nat, NEW q \in Nat,
               input = <<GroupedTable!R(a, k), GroupedTable!R(b, l), GroupedTable!R(c, m),
                         GroupedTable!R(d, q)>>
        PROVE  input \in Seq(InputRows)
    <3>. DEFINE S == [country : {a, b, c, d}, tel : Nat]
    <3>1. \A s \in S : s = [country |-> s.country, tel |-> s.tel] /\ s.tel \in Nat OBVIOUS
    <3>2. /\ GroupedTable!R(a, k) \in S /\ GroupedTable!R(b, l) \in S
          /\ GroupedTable!R(c, m) \in S /\ GroupedTable!R(d, q) \in S
      BY DEF GroupedTable!R
    <3>. HIDE DEF S
    <3>3. input \in Seq(S) BY <2>2, <3>2
    <3>4. \A i \in DOMAIN input : input[i].tel \in Nat
      <4>1. \A i \in DOMAIN input : input[i] \in S BY <3>3
      <4>. QED BY <3>1, <4>1
    <3>. QED BY <3>1, <3>3, <3>4, RowsTyped
  <2>3. CASE input = GroupedTable!People
    <3>1. input = <<GroupedTable!R("Germany", 123), GroupedTable!R("China", 135),
                    GroupedTable!R("USA", 124), GroupedTable!R("China", 32)>>
      BY <2>3 DEF GroupedTable!People
    <3>. QED BY <2>2, <3>1
  <2>4. CASE input = GroupedTable!RowPeople
    <3>1. input = <<GroupedTable!R("Germany", 123), GroupedTable!R("China", 135),
                    GroupedTable!R("China", 124), GroupedTable!R("China", 32)>>
      BY <2>4 DEF GroupedTable!RowPeople
    <3>. QED BY <2>2, <3>1
  <2>. QED BY <1>1, <2>1, <2>3, <2>4
<1>3. TableTyped BY <1>1, <1>2 DEF TableTyped
<1>4. BundleTyped BY <1>1 DEF BundleTyped
<1>5. AccsRight BY <1>1, <1>2, AccEmpty DEF AccsRight
<1>6. ReportsStand
  <2>. SUFFICES ASSUME NEW c \in GroupedTable!Countries
       PROVE ShortValues(<<>>) /\ Stands(<<>>, c, <<>>)
    BY <1>1 DEF ReportsStand
  <2>1. SumStands(<<>>, c, <<>>)
    <3>1. \A v : SentLast(<<>>, c, v, 0) = {} BY DEF SentLast
    <3>. QED BY <3>1 DEF SumStands
  <2>2. StandsFor(<<>>, c, <<>>)
    <3>. SUFFICES ASSUME NEW v PROVE Net(<<>>, c, v, 0) = In(<<>>, v) BY DEF StandsFor
    <3>1. Given(<<>>, c, v, 0) = {} /\ TakenBack(<<>>, c, v, 0) = {} BY DEF Given, TakenBack
    <3>2. Net(<<>>, c, v, 0) = 0 BY <3>1, FS_EmptySet DEF Net
    <3>. QED BY <3>2, InShort
  <2>. QED BY <2>1, <2>2 DEF ShortValues, Stands
<1>7. OthersReported
  <2>1. \A c : RowsTo(c, pos) = {} BY <1>1 DEF RowsTo
  <2>. QED BY <1>1, <2>1 DEF OthersReported, Current
<1>. QED BY <1>3, <1>4, <1>5, <1>6, <1>7 DEF TableInv

(* A row read keeps it. *)
LEMMA GroupReadKeeps == ASSUME TableInv, GroupedTable!Read PROVE TableInv'
<1>. DEFINE n == pos + 1
            c == input[n].country
            a == GroupedTable!Accumulate(acc[c], input[n].tel)
<1>1. /\ pos < Len(input) /\ pos' = n /\ job' = job /\ input' = input
      /\ acc' = [acc EXCEPT ![c] = a]
  BY DEF GroupedTable!Read
<1>2. /\ job \in GroupedTable!InPython =>
           /\ dirty' = IF c \in GroupedTable!ToSet(dirty) THEN dirty ELSE Append(dirty, c)
           /\ sent' = sent /\ out' = out
      /\ job \notin GroupedTable!InPython =>
           /\ sent' = [sent EXCEPT ![c] = GroupedTable!Values(a)]
           /\ out' = out \o GroupedTable!Changes(c, sent[c], GroupedTable!Values(a))
           /\ dirty' = dirty
  BY <1>1 DEF GroupedTable!Read
<1>3. /\ TableTyped /\ BundleTyped /\ pos \in Nat /\ Len(input) \in Nat
      /\ n \in 0..Len(input) /\ n \in 1..Len(input) /\ n \in Nat /\ input \in Seq(InputRows)
  BY <1>1 DEF TableInv, TableTyped
<1>4. c \in GroupedTable!Countries
  <2>1. input[n] \in InputRows BY <1>3, ElementIn
  <2>. QED BY <2>1 DEF InputRows
<1>5. DOMAIN acc' = GroupedTable!Countries BY <1>1 DEF TableInv, TableTyped
<1>6. ASSUME NEW b \in GroupedTable!Countries
      PROVE  /\ AccIs(b, n, acc'[b])
             /\ b # c => acc'[b] = acc[b] /\ RowsTo(b, n) = RowsTo(b, pos)
             /\ b = c => acc'[b] = a /\ RowsTo(b, n) # {}
             /\ RowsTo(b, pos) # {} => RowsTo(b, n) # {}
  <2>1. AccIs(b, pos, acc[b]) BY DEF TableInv, AccsRight
  <2>2. acc'[b] = IF b = c THEN a ELSE acc[b] BY <1>1 DEF TableInv, TableTyped
  <2>3. acc'[b] = IF input[pos + 1].country = b
                  THEN GroupedTable!Accumulate(acc[b], input[pos + 1].tel) ELSE acc[b]
    BY <2>2
  <2>4. /\ input[pos + 1].country # b => RowsTo(b, pos + 1) = RowsTo(b, pos)
        /\ input[pos + 1].country = b => RowsTo(b, pos + 1) = RowsTo(b, pos) \cup {pos + 1}
    BY <1>1, <1>3, RowsGrow
  <2>. DEFINE x == acc[b]
  <2>5. AccIs(b, pos + 1, IF input[pos + 1].country = b
                          THEN GroupedTable!Accumulate(x, input[pos + 1].tel) ELSE x)
    <3>1. AccIs(b, pos, x) BY <2>1
    <3>. HIDE DEF x
    <3>. QED BY <1>1, <1>3, <3>1, AccGrows
  <2>. QED BY <2>2, <2>3, <2>4, <2>5
<1>7. ASSUME NEW b \in GroupedTable!Countries
      PROVE  ShortValues(sent[b]) /\ Stands(out, b, sent[b]) /\ AccIs(b, pos, acc[b])
             /\ (b \notin Elements(dirty) => sent[b] = Current(b))
  BY DEF TableInv, ReportsStand, AccsRight, OthersReported
<1>8. CASE job \in GroupedTable!InPython
  <2>1. GroupedTable!ToSet(dirty) = Elements(dirty) BY DEF GroupedTable!ToSet, Elements
  <2>2. /\ dirty' \in Seq(GroupedTable!Countries)
        /\ \A i, j \in DOMAIN dirty' : dirty'[i] = dirty'[j] => i = j
        /\ Elements(dirty') = Elements(dirty) \cup {c}
    <3>1. CASE c \in Elements(dirty) BY <1>2, <1>3, <1>8, <2>1, <3>1 DEF BundleTyped, Elements
    <3>2. CASE c \notin Elements(dirty)
      <4>1. dirty' = Append(dirty, c) BY <1>2, <1>8, <2>1, <3>2
      <4>2. dirty \in Seq(GroupedTable!Countries) BY <1>3 DEF BundleTyped
      <4>. DEFINE m == Len(dirty)
      <4>. HIDE DEF c
      <4>3. /\ dirty' \in Seq(GroupedTable!Countries) /\ m \in Nat /\ DOMAIN dirty = 1..m
            /\ DOMAIN dirty' = 1..(m + 1) /\ dirty'[m + 1] = c
            /\ \A i \in 1..m : dirty'[i] = dirty[i]
        BY <1>4, <4>1, <4>2
      <4>. HIDE DEF m
      <4>4. 1..(m + 1) = 1..m \cup {m + 1} BY <4>3
      <4>5. Elements(dirty') = Elements(dirty) \cup {c} BY <4>3, <4>4 DEF Elements
      <4>6. \A i, j \in 1..m : dirty[i] = dirty[j] => i = j BY <1>3, <4>3 DEF BundleTyped
      <4>7. \A i \in 1..m : dirty[i] # c BY <3>2, <4>3 DEF Elements
      <4>8. \A i, j \in DOMAIN dirty' : dirty'[i] = dirty'[j] => i = j
        BY <4>3, <4>4, <4>6, <4>7
      <4>. QED BY <4>3, <4>5, <4>8
    <3>. QED BY <3>1, <3>2
  <2>3. \A i \in DOMAIN dirty' : RowsTo(dirty'[i], n) # {}
    <3>. SUFFICES ASSUME NEW i \in DOMAIN dirty' PROVE RowsTo(dirty'[i], n) # {} OBVIOUS
    <3>1. dirty'[i] \in Elements(dirty') BY DEF Elements
    <3>2. dirty'[i] = c \/ dirty'[i] \in Elements(dirty) BY <2>2, <3>1
    <3>3. CASE dirty'[i] = c BY <1>4, <1>6, <3>3
    <3>4. CASE dirty'[i] \in Elements(dirty)
      <4>1. PICK j \in DOMAIN dirty : dirty'[i] = dirty[j] BY <3>4 DEF Elements
      <4>2. RowsTo(dirty[j], pos) # {} BY <1>3 DEF BundleTyped
      <4>3. dirty[j] \in GroupedTable!Countries BY <1>3, ElementIn DEF BundleTyped
      <4>. QED BY <1>6, <4>1, <4>2, <4>3
    <3>. QED BY <3>2, <3>3, <3>4
  <2>4. ASSUME NEW b \in GroupedTable!Countries, b \notin Elements(dirty')
        PROVE  sent'[b] = IF RowsTo(b, n) = {} THEN <<>> ELSE GroupedTable!Values(acc'[b])
    <3>1. b # c /\ b \notin Elements(dirty) BY <2>2, <2>4
    <3>2. sent[b] = Current(b) BY <1>7, <3>1
    <3>. QED BY <1>2, <1>6, <1>8, <3>1, <3>2 DEF Current
  <2>5. /\ DOMAIN sent' = GroupedTable!Countries /\ out' \in Seq(Entry)
        /\ \A b \in GroupedTable!Countries : ShortValues(sent'[b]) /\ Stands(out', b, sent'[b])
    BY <1>2, <1>3, <1>7, <1>8 DEF TableTyped
  <2>6. \A b \in GroupedTable!Countries :
           /\ AccIs(b, pos', acc'[b]) /\ ShortValues(sent'[b]) /\ Stands(out', b, sent'[b])
           /\ b \notin Elements(dirty') =>
                sent'[b] = IF RowsTo(b, pos') = {} THEN <<>> ELSE GroupedTable!Values(acc'[b])
    BY <1>1, <1>6, <2>4, <2>5
  <2>7. pos' \in 0..Len(input) /\ \A i \in DOMAIN dirty' : RowsTo(dirty'[i], pos') # {}
    BY <1>1, <1>3, <2>3
  <2>. HIDE DEF n, c, a
  <2>. QED BY <1>1, <1>3, <1>5, <1>8, <2>2, <2>5, <2>6, <2>7, TableFrom
<1>9. CASE job \notin GroupedTable!InPython
  <2>1. dirty = <<>> /\ dirty' = <<>> BY <1>2, <1>3, <1>9 DEF BundleTyped
  <2>. DEFINE new == GroupedTable!Values(a)
  <2>2. /\ ShortValues(new) /\ (job = "sum" => \E x \in GroupValues : new = <<x>>)
    <3>1. AccIs(c, n, a) BY <1>4, <1>6
    <3>. HIDE DEF n, c, a
    <3>. QED BY <1>3, <3>1, ValuesShort
  <2>3. sent' = [sent EXCEPT ![c] = new] /\ out' = out \o GroupedTable!Changes(c, sent[c], new)
    BY <1>2, <1>9
  <2>4. out' \in Seq(Entry) /\ Stands(out', c, new)
    <3>1. ShortValues(sent[c]) /\ Stands(out, c, sent[c]) /\ out \in Seq(Entry)
      BY <1>3, <1>4, <1>7 DEF TableTyped
    <3>. HIDE DEF n, c, a, new
    <3>. QED BY <1>4, <2>2, <2>3, <3>1, ChangesStand
  <2>5. ASSUME NEW b \in GroupedTable!Countries, b # c PROVE Stands(out', b, sent[b])
    <3>1. ShortValues(sent[c]) /\ ShortValues(sent[b]) /\ Stands(out, b, sent[b])
          /\ out \in Seq(Entry)
      BY <1>3, <1>4, <1>7 DEF TableTyped
    <3>. DEFINE z == sent[b]
                old == sent[c]
    <3>. HIDE DEF n, c, a, new, z, old
    <3>2. Stands(out \o GroupedTable!Changes(c, old, new), b, z)
      BY <1>4, <2>2, <2>5, <3>1, ChangesLeave DEF z, old
    <3>. QED BY <2>3, <3>2 DEF z, old
  <2>6. /\ DOMAIN sent' = GroupedTable!Countries
        /\ \A b \in GroupedTable!Countries : sent'[b] = IF b = c THEN new ELSE sent[b]
    BY <1>3, <2>3 DEF TableTyped
  <2>7. ASSUME NEW b \in GroupedTable!Countries
        PROVE  sent'[b] = IF RowsTo(b, n) = {} THEN <<>> ELSE GroupedTable!Values(acc'[b])
    <3>1. CASE b = c BY <1>6, <2>6, <3>1
    <3>2. CASE b # c
      <4>1. sent[b] = Current(b) BY <1>7, <2>1 DEF Elements
      <4>. QED BY <1>6, <2>6, <3>2, <4>1 DEF Current
    <3>. QED BY <3>1, <3>2
  <2>8. \A b \in GroupedTable!Countries :
           /\ AccIs(b, pos', acc'[b]) /\ ShortValues(sent'[b]) /\ Stands(out', b, sent'[b])
           /\ b \notin Elements(dirty') =>
                sent'[b] = IF RowsTo(b, pos') = {} THEN <<>> ELSE GroupedTable!Values(acc'[b])
    <3>. SUFFICES ASSUME NEW b \in GroupedTable!Countries
         PROVE ShortValues(sent'[b]) /\ Stands(out', b, sent'[b])
      BY <1>1, <1>6, <2>7
    <3>. HIDE DEF n, c, a, new
    <3>1. CASE b = c BY <2>2, <2>4, <2>6, <3>1
    <3>2. CASE b # c BY <1>7, <2>5, <2>6, <3>2
    <3>. QED BY <3>1, <3>2
  <2>9. /\ pos' \in 0..Len(input) /\ dirty' \in Seq(GroupedTable!Countries)
        /\ \A i, j \in DOMAIN dirty' : dirty'[i] = dirty'[j] => i = j
        /\ \A i \in DOMAIN dirty' : RowsTo(dirty'[i], pos') # {}
    BY <1>1, <1>3, <2>1
  <2>. HIDE DEF n, c, a, new
  <2>. QED BY <1>1, <1>3, <1>5, <2>1, <2>4, <2>6, <2>8, <2>9, TableFrom
<1>. QED BY <1>8, <1>9

(* The end of a bundle keeps it. *)
LEMMA BundleKeeps == ASSUME TableInv, GroupedTable!EndBundle PROVE TableInv'
<1>1. /\ dirty' = <<>> /\ job' = job /\ input' = input /\ pos' = pos /\ acc' = acc
      /\ sent' = [c \in GroupedTable!Countries |->
                    IF c \in GroupedTable!ToSet(dirty) THEN GroupedTable!Values(acc[c])
                    ELSE sent[c]]
      /\ out' = GroupedTable!FoldLeft(LAMBDA s, c : s \o GroupedTable!Changes(c, sent[c],
                                                         GroupedTable!Values(acc[c])),
                                      out, dirty)
  BY DEF GroupedTable!EndBundle
<1>2. PICK p : Bundle(out, p) /\ out' = p[Len(dirty)] BY <1>1, BundleSteps
<1>. DEFINE n == Len(dirty)
<1>3. /\ TableTyped /\ n \in Nat /\ n \in 0..n /\ DOMAIN dirty = 1..n
      /\ dirty \in Seq(GroupedTable!Countries)
  BY DEF TableInv, TableTyped, BundleTyped
<1>4. out' \in Seq(Entry) BY <1>2, <1>3 DEF Bundle
<1>5. ASSUME NEW c \in GroupedTable!Countries
      PROVE  /\ c \in GroupedTable!ToSet(dirty) <=> \E j \in 1..n : dirty[j] = c
             /\ c \in Elements(dirty) <=> \E j \in 1..n : dirty[j] = c
  BY <1>3 DEF GroupedTable!ToSet, Elements
<1>6. ASSUME NEW c \in GroupedTable!Countries
      PROVE  sent'[c] = SentUpTo(c, n) /\ Stands(out', c, sent'[c])
  <2>1. sent'[c] = SentUpTo(c, n) BY <1>1, <1>5 DEF SentUpTo
  <2>2. Stands(p[n], c, SentUpTo(c, n)) BY <1>2, <1>3, BundleStands
  <2>. QED BY <1>2, <2>1, <2>2
<1>7. ASSUME NEW c \in GroupedTable!Countries
      PROVE  /\ AccIs(c, pos, acc[c]) /\ ShortValues(sent[c])
             /\ ShortValues(GroupedTable!Values(acc[c]))
             /\ c \notin Elements(dirty) => sent[c] = Current(c)
  <2>1. AccIs(c, pos, acc[c]) BY DEF TableInv, AccsRight
  <2>2. ShortValues(GroupedTable!Values(acc[c])) BY <1>3, <2>1, ValuesShort DEF TableTyped
  <2>. QED BY <2>1, <2>2 DEF TableInv, ReportsStand, OthersReported
<1>8. ASSUME NEW c \in GroupedTable!Countries
      PROVE  sent'[c] = IF RowsTo(c, pos) = {} THEN <<>> ELSE GroupedTable!Values(acc[c])
  <2>1. CASE c \in Elements(dirty)
    <3>1. PICK j \in 1..n : dirty[j] = c BY <1>5, <2>1
    <3>2. RowsTo(c, pos) # {} BY <1>3, <3>1 DEF TableInv, BundleTyped
    <3>. QED BY <1>6, <3>1, <3>2 DEF SentUpTo
  <2>2. CASE c \notin Elements(dirty)
    <3>1. sent'[c] = sent[c] BY <1>5, <1>6, <2>2 DEF SentUpTo
    <3>. QED BY <1>7, <2>2, <3>1 DEF Current
  <2>. QED BY <2>1, <2>2
<1>9. \A c \in GroupedTable!Countries : ShortValues(sent'[c]) BY <1>6, <1>7 DEF SentUpTo
<1>10. /\ DOMAIN sent' = GroupedTable!Countries /\ DOMAIN acc' = GroupedTable!Countries
       /\ pos' \in 0..Len(input) /\ dirty' \in Seq(GroupedTable!Countries)
       /\ \A i, j \in DOMAIN dirty' : dirty'[i] = dirty'[j] => i = j
       /\ \A i \in DOMAIN dirty' : RowsTo(dirty'[i], pos') # {}
  <2>1. DOMAIN sent' = GroupedTable!Countries BY <1>1
  <2>2. dirty' = <<>> /\ acc' = acc /\ pos' = pos BY <1>1
  <2>3. DOMAIN acc' = GroupedTable!Countries /\ pos' \in 0..Len(input)
    BY <1>3, <2>2 DEF TableTyped
  <2>. QED BY <2>1, <2>2, <2>3
<1>11. \A c \in GroupedTable!Countries :
           /\ AccIs(c, pos', acc'[c]) /\ ShortValues(sent'[c]) /\ Stands(out', c, sent'[c])
           /\ c \notin Elements(dirty') =>
                sent'[c] = IF RowsTo(c, pos') = {} THEN <<>> ELSE GroupedTable!Values(acc'[c])
  BY <1>1, <1>6, <1>7, <1>8, <1>9
<1>. QED BY <1>1, <1>3, <1>4, <1>10, <1>11, TableFrom

(* The accumulator of every country is always that of its rows read, the   *)
(* changelog leaves what the country reported last, and only countries of  *)
(* the bundle have not reported their latest: for any table and bundles.   *)
THEOREM TableInvariance == Spec => [](which = "groups" => TableInv)
<1>1. ASSUME Init, which = "groups" PROVE TableInv
  <2>1. GroupedTable!Init BY <1>1 DEF Init
  <2>. QED BY <2>1, TableInit
<1>2. ASSUME which = "groups" => TableInv, [Next]_vars PROVE (which = "groups" => TableInv)'
  <2>1. which' = which BY <1>2, WhichStep
  <2>. SUFFICES ASSUME which = "groups", TableInv PROVE TableInv' BY <1>2, <2>1
  <2>2. CASE UNCHANGED vars
    <3>1. UNCHANGED <<job, input, pos, acc, sent, dirty, out>> BY <2>2 DEF vars, groupVars
    <3>. QED BY <3>1, TableFrom
      DEF TableInv, TableTyped, BundleTyped, AccsRight, ReportsStand, OthersReported, Current
  <2>3. CASE Next
    <3>1. GroupedTable!Read \/ GroupedTable!EndBundle
      BY <2>3 DEF GroupedTable!Next, Next, InWords, InGroups, InTables, InTopic, InBulks
    <3>. QED BY <3>1, GroupReadKeeps, BundleKeeps
  <2>. QED BY <1>2, <2>2, <2>3
<1>. QED BY <1>1, <1>2, PTL DEF Spec

(* How often the model counts a value in the changelog. *)
LEMMA CopiesAre ==
  ASSUME NEW c, NEW v, NEW n
  PROVE  /\ job # "sum" => GroupedTable!Copies(c, v, n) = Net(out, c, v, n)
         /\ job = "sum" => GroupedTable!Copies(c, v, n) =
                             IF SentLast(out, c, v, n) # {} THEN 1 ELSE 0
<1>. DEFINE Of(ops) == {i \in 1..n : out[i].country = c /\ out[i].value = v /\ out[i].op \in ops}
<1>1. CASE job # "sum"
  <2>1. GroupedTable!Copies(c, v, n) =
          GroupedTable!Cardinality(Of({"+I", "+U"})) - GroupedTable!Cardinality(Of({"-D", "-U"}))
    BY <1>1 DEF GroupedTable!Copies
  <2>. QED BY <1>1, <2>1, SameCard DEF Net, Given, TakenBack
<1>2. CASE job = "sum"
  <2>1. GroupedTable!Copies(c, v, n) =
          IF \E i \in Of({"+I"}) : \A j \in (i + 1)..n : out[j].country # c THEN 1 ELSE 0
    BY <1>2 DEF GroupedTable!Copies
  <2>2. (\E i \in Of({"+I"}) : \A j \in (i + 1)..n : out[j].country # c)
          <=> SentLast(out, c, v, n) # {}
    BY DEF SentLast
  <2>. QED BY <1>2, <2>1, <2>2
<1>. QED BY <1>1, <1>2

(* Between bundles the changelog of every aggregation stands for the       *)
(* aggregates of the rows read, wherever the bundles were cut, and it      *)
(* never takes back a row that is not in the result.                       *)
THEOREM AlwaysViewExact == Spec => []ViewExact
<1>1. ASSUME TableInv PROVE GroupedTable!ViewExact
  <2>. SUFFICES ASSUME NEW c \in GroupedTable!Countries, NEW v
       PROVE  /\ \A n \in DOMAIN out : GroupedTable!Copies(c, v, n) >= 0
              /\ dirty = <<>> => GroupedTable!Copies(c, v, Len(out)) =
                   GroupedTable!Cardinality({i \in DOMAIN GroupedTable!Reference(c) :
                                               GroupedTable!Reference(c)[i] = v})
    BY DEF GroupedTable!ViewExact
  <2>. DEFINE s == sent[c]
  <2>1. /\ Stands(out, c, s) /\ ShortValues(s) /\ AccIs(c, pos, acc[c])
        /\ TableTyped /\ DOMAIN out = 1..Len(out)
    BY <1>1 DEF TableInv, TableTyped, ReportsStand, AccsRight
  <2>2. GroupedTable!Reference(c) = Current(c) BY <2>1, ReferenceIs DEF TableTyped, Current
  <2>3. dirty = <<>> => GroupedTable!Reference(c) = s
    BY <1>1, <2>2 DEF TableInv, OthersReported, Elements
  <2>. HIDE DEF s
  <2>4. \A n \in DOMAIN out : GroupedTable!Copies(c, v, n) >= 0
    <3>1. CASE job = "sum" BY <3>1, CopiesAre
    <3>2. CASE job # "sum" BY <2>1, <3>2, CopiesAre DEF Stands, StandsFor
    <3>. QED BY <3>1, <3>2
  <2>5. GroupedTable!Copies(c, v, Len(out)) = In(s, v)
    <3>1. CASE job # "sum" BY <2>1, <3>1, CopiesAre DEF Stands, StandsFor
    <3>2. CASE job = "sum"
      <4>1. SentLast(out, c, v, Len(out)) # {} <=> \E i \in DOMAIN s : s[i] = v
        BY <2>1, <3>2 DEF Stands, SumStands
      <4>2. CASE s = <<>>
        <5>1. In(s, v) = 0 BY <4>2, InShort
        <5>. QED BY <3>2, <4>1, <4>2, <5>1, CopiesAre
      <4>3. CASE \E x : s = <<x>>
        <5>1. PICK x : s = <<x>> BY <4>3
        <5>2. In(<<x>>, v) = IF x = v THEN 1 ELSE 0 BY InShort
        <5>3. (\E i \in DOMAIN s : s[i] = v) <=> x = v BY <5>1
        <5>. QED BY <3>2, <4>1, <5>1, <5>2, <5>3, CopiesAre
      <4>. QED BY <2>1, <3>2, <4>2, <4>3 DEF ShortValues
    <3>. QED BY <3>1, <3>2
  <2>6. dirty = <<>> => GroupedTable!Copies(c, v, Len(out)) =
          GroupedTable!Cardinality({i \in DOMAIN GroupedTable!Reference(c) :
                                      GroupedTable!Reference(c)[i] = v})
    BY <2>3, <2>5, SameCard DEF In
  <2>. QED BY <2>4, <2>6
<1>2. (which = "groups" => TableInv) => ViewExact BY <1>1 DEF ViewExact
<1>. QED BY <1>2, TableInvariance, PTL

===============================================================================
