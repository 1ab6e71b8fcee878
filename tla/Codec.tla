------------------------------- MODULE Codec --------------------------------
(***************************************************************************)
(* The wire format of everything a replica sends or stores: the generated  *)
(* Marshal, Size and Unmarshal methods of epaxos/epaxospb/epaxos.pb.go and *)
(* transport/transportpb/transport.pb.go.                                  *)
(*                                                                         *)
(* A buffer is a sequence of bytes.  A Go struct is a record with the      *)
(* names of its fields; a []byte is a sequence of bytes or Nil, a nil      *)
(* pointer is Nil, a repeated field is a sequence, and the oneof Type of a *)
(* Message is Nil or a record of the case and its message.  Words have     *)
(* WordBits bits and field numbers TagBits, 64 and 32 in the program.      *)
(*                                                                         *)
(* Buffers are what Marshal wrote, whole, cut short or with the fields of  *)
(* a newer version: lengths in them are far from the largest integer.      *)
(***************************************************************************)
EXTENDS Integers, SequencesExt, FiniteSetsExt

CONSTANTS
  Nil,        \* the nil pointer and the nil slice
  Err,        \* the error of an Unmarshal
  WordBits,   \* the width of uint64
  TagBits     \* the width of int32, the type of field numbers

(* dAtA[n:], and nothing beyond the end.                                   *)
Drop(b, n) == SubSeq(b, n + 1, Len(b))

IsEmpty(bytes) == bytes = Nil \/ bytes = <<>>

-----------------------------------------------------------------------------
(* Varints and fields.                                                     *)

(* encodeVarint: groups of seven bits, the lowest first.                   *)
RECURSIVE encodeVarint(_)
encodeVarint(v) ==
  IF v >= 128 THEN <<128 + (v % 128)>> \o encodeVarint(v \div 128) ELSE <<v>>

(* sov, the number of bytes of the varint x.  Floor: 128 still fits one.   *)
RECURSIVE sovFloor(_)
sovFloor(x) == IF x <= 128 THEN 1 ELSE 1 + sovFloor(x \div 128)

RECURSIVE sov(_)
sov(x) == IF x \div 128 = 0 THEN 1 ELSE 1 + sov(x \div 128)

(* A group of the varint is read while its shift is less than a word.      *)
MaxGroups == (WordBits + 6) \div 7

(* The varint at the start of b: its value and its length.                 *)
varint(b) ==
  LET ends == {k \in 1..MaxGroups : k <= Len(b) /\ b[k] < 128}
      n == Min(ends)
      groups == [k \in 1..n |-> (b[k] % 128) * 2^(7 * (k - 1))]
  IN  IF ends = {} THEN Err
      ELSE [val |-> FoldLeft(+, 0, groups) % 2^WordBits, n |-> n]

(* The bytes of a length-delimited field at the start of b.  Open: as many *)
(* as there are.                                                           *)
delimitedOpen(b) ==
  LET l == varint(b) IN
  IF l = Err THEN Err
  ELSE IF l.val >= 2^(WordBits - 1) THEN Err
  ELSE [val |-> SubSeq(b, l.n + 1, Min({l.n + l.val, Len(b)})), n |-> l.n + l.val]

delimited(b) ==
  LET l == varint(b) IN
  IF l = Err THEN Err
  ELSE IF l.val >= 2^(WordBits - 1) \/ l.n + l.val > Len(b) THEN Err
  ELSE [val |-> SubSeq(b, l.n + 1, l.n + l.val), n |-> l.n + l.val]

(* The fields MarshalTo writes, after the test that leaves out a zero.     *)
Uint(num, v) == IF v = 0 THEN <<>> ELSE <<8 * num>> \o encodeVarint(v)

Bool(num, v) == IF v THEN <<8 * num, 1>> ELSE <<>>

Delimited(num, size, bytes) == <<8 * num + 2>> \o encodeVarint(size) \o bytes

(* Always: an empty slice is written as an empty field.                    *)
BytesAlways(num, v) == Delimited(num, IF IsEmpty(v) THEN 0 ELSE Len(v),
                                 IF IsEmpty(v) THEN <<>> ELSE v)

Bytes(num, v) == IF IsEmpty(v) THEN <<>> ELSE Delimited(num, Len(v), v)

(* Their sizes.                                                            *)
SizeUint(v) == IF v = 0 THEN 0 ELSE 1 + sov(v)

SizeDelimited(l) == 1 + l + sov(l)

SizeBytes(v) == IF IsEmpty(v) THEN 0 ELSE SizeDelimited(Len(v))

Total(sizes) == FoldLeft(+, 0, sizes)

-----------------------------------------------------------------------------
(* The Size methods of epaxospb.                                           *)

SizeSpan(m) == SizeBytes(m.Key) + SizeBytes(m.EndKey)

SizeCommand(m) ==
  SizeUint(m.ID) + SizeDelimited(SizeSpan(m.Span)) + (IF m.Writing THEN 2 ELSE 0)
    + SizeBytes(m.Data)

SizeInstanceID(m) == SizeUint(m.ReplicaID) + SizeUint(m.InstanceNum)

SizeDeps(deps) == Total([i \in DOMAIN deps |-> SizeDelimited(SizeInstanceID(deps[i]))])

SizeInstanceData(m) ==
  (IF m.Command = Nil THEN 0 ELSE SizeDelimited(SizeCommand(m.Command)))
    + SizeUint(m.SeqNum) + SizeDeps(m.Deps)

SizePreAccept(m) == SizeDelimited(SizeInstanceData(m.InstanceData))

SizePreAcceptOK(m) == 0

SizePreAcceptReply(m) ==
  SizeUint(m.UpdatedSeqNum) + SizeDeps(m.UpdatedDeps)

SizeAccept(m) == SizeDelimited(SizeInstanceData(m.InstanceData))

SizeAcceptOK(m) == 0

SizeCommit(m) == SizeDelimited(SizeInstanceData(m.InstanceData))

SizeBallot(m) == SizeUint(m.Epoch) + SizeUint(m.Number) + SizeUint(m.ReplicaID)

(* The Size methods of the cases of Message.Type.                          *)
SizeType(t) ==
  SizeDelimited(CASE t.case = "PreAccept" -> SizePreAccept(t.msg)
                  [] t.case = "PreAcceptOK" -> SizePreAcceptOK(t.msg)
                  [] t.case = "PreAcceptReply" -> SizePreAcceptReply(t.msg)
                  [] t.case = "Accept" -> SizeAccept(t.msg)
                  [] t.case = "AcceptOK" -> SizeAcceptOK(t.msg)
                  [] t.case = "Commit" -> SizeCommit(t.msg))

SizeMessage(m) ==
  SizeUint(m.To) + SizeDelimited(SizeBallot(m.Ballot))
    + SizeDelimited(SizeInstanceID(m.InstanceID))
    + (IF m.Type = Nil THEN 0 ELSE SizeType(m.Type))

SizeInstanceState(m) ==
  SizeDelimited(SizeInstanceID(m.InstanceID)) + SizeUint(m.Status)
    + SizeDelimited(SizeInstanceData(m.InstanceData))
    + (IF m.Ballot = Nil THEN 0 ELSE SizeDelimited(SizeBallot(m.Ballot)))

SizeHardState(m) ==
  SizeUint(m.ReplicaID)
    + (IF m.Nodes = <<>> THEN 0
       ELSE SizeDelimited(Total([i \in DOMAIN m.Nodes |-> sov(m.Nodes[i])])))

(* Those of transportpb.                                                   *)
SizeKVReadRequest(m) == SizeBytes(m.Key)

SizeKVWriteRequest(m) == SizeBytes(m.Key) + SizeBytes(m.Value)

SizeKVResult(m) == SizeBytes(m.Key) + SizeBytes(m.Value)

-----------------------------------------------------------------------------
(* The Marshal methods: MarshalTo fills a buffer of Size bytes, and writes *)
(* an embedded message behind the Size of that message.                    *)

MarshalSpan(m) == Bytes(1, m.Key) \o Bytes(2, m.EndKey)

MarshalCommand(m) ==
  Uint(1, m.ID) \o Delimited(2, SizeSpan(m.Span), MarshalSpan(m.Span))
    \o Bool(3, m.Writing) \o Bytes(4, m.Data)

MarshalInstanceID(m) == Uint(1, m.ReplicaID) \o Uint(2, m.InstanceNum)

MarshalDeps(num, deps) ==
  FlattenSeq([i \in DOMAIN deps |->
                Delimited(num, SizeInstanceID(deps[i]), MarshalInstanceID(deps[i]))])

MarshalInstanceData(m) ==
  (IF m.Command = Nil THEN <<>>
   ELSE Delimited(1, SizeCommand(m.Command), MarshalCommand(m.Command)))
    \o Uint(2, m.SeqNum) \o MarshalDeps(3, m.Deps)

MarshalPreAccept(m) ==
  Delimited(1, SizeInstanceData(m.InstanceData), MarshalInstanceData(m.InstanceData))

MarshalPreAcceptOK(m) == <<>>

MarshalPreAcceptReply(m) ==
  Uint(1, m.UpdatedSeqNum) \o MarshalDeps(2, m.UpdatedDeps)

MarshalAccept(m) ==
  Delimited(1, SizeInstanceData(m.InstanceData), MarshalInstanceData(m.InstanceData))

MarshalAcceptOK(m) == <<>>

MarshalCommit(m) ==
  Delimited(1, SizeInstanceData(m.InstanceData), MarshalInstanceData(m.InstanceData))

MarshalBallot(m) == Uint(1, m.Epoch) \o Uint(2, m.Number) \o Uint(3, m.ReplicaID)

(* The MarshalTo methods of the cases of Message.Type.                     *)
MarshalType(t) ==
  CASE t.case = "PreAccept" -> Delimited(4, SizePreAccept(t.msg), MarshalPreAccept(t.msg))
    [] t.case = "PreAcceptOK" ->
         Delimited(5, SizePreAcceptOK(t.msg), MarshalPreAcceptOK(t.msg))
    [] t.case = "PreAcceptReply" ->
         Delimited(6, SizePreAcceptReply(t.msg), MarshalPreAcceptReply(t.msg))
    [] t.case = "Accept" -> Delimited(7, SizeAccept(t.msg), MarshalAccept(t.msg))
    [] t.case = "AcceptOK" -> Delimited(8, SizeAcceptOK(t.msg), MarshalAcceptOK(t.msg))
    [] t.case = "Commit" -> Delimited(9, SizeCommit(t.msg), MarshalCommit(t.msg))

MarshalMessage(m) ==
  Uint(1, m.To)
    \o Delimited(2, SizeBallot(m.Ballot), MarshalBallot(m.Ballot))
    \o Delimited(3, SizeInstanceID(m.InstanceID), MarshalInstanceID(m.InstanceID))
    \o (IF m.Type = Nil THEN <<>> ELSE MarshalType(m.Type))

MarshalInstanceState(m) ==
  Delimited(1, SizeInstanceID(m.InstanceID), MarshalInstanceID(m.InstanceID))
    \o Uint(2, m.Status)
    \o Delimited(3, SizeInstanceData(m.InstanceData), MarshalInstanceData(m.InstanceData))
    \o (IF m.Ballot = Nil THEN <<>>
        ELSE Delimited(4, SizeBallot(m.Ballot), MarshalBallot(m.Ballot)))

MarshalHardState(m) ==
  LET packed == FlattenSeq([i \in DOMAIN m.Nodes |-> encodeVarint(m.Nodes[i])]) IN
  Uint(1, m.ReplicaID)
    \o (IF m.Nodes = <<>> THEN <<>> ELSE Delimited(2, Len(packed), packed))

MarshalKVReadRequest(m) == Bytes(1, m.Key)

MarshalKVWriteRequest(m) == Bytes(1, m.Key) \o Bytes(2, m.Value)

MarshalKVResult(m) == Bytes(1, m.Key) \o Bytes(2, m.Value)

-----------------------------------------------------------------------------
(* The Unmarshal methods.  Each is a loop over the fields of its buffer    *)
(* with a switch on the field number; the method's switch is the function  *)
(* from its field numbers to the name of the field they set, how, and the  *)
(* type of an embedded message.                                            *)

Field(name, kind, type) == [name |-> name, kind |-> kind, type |-> type]

Scalar(name, kind) == Field(name, kind, Nil)

UnmarshalSpan == <<Scalar("Key", "bytes"), Scalar("EndKey", "bytes")>>

UnmarshalCommand ==
  <<Scalar("ID", "uint"), Field("Span", "message", "Span"), Scalar("Writing", "bool"),
    Scalar("Data", "bytes")>>

UnmarshalInstanceID == <<Scalar("ReplicaID", "uint"), Scalar("InstanceNum", "uint")>>

UnmarshalInstanceData ==
  <<Field("Command", "pointer", "Command"), Scalar("SeqNum", "uint"),
    Field("Deps", "repeated", "InstanceID")>>

UnmarshalPreAccept == <<Field("InstanceData", "message", "InstanceData")>>

UnmarshalPreAcceptOK == <<>>

UnmarshalPreAcceptReply ==
  <<Scalar("UpdatedSeqNum", "uint"), Field("UpdatedDeps", "repeated", "InstanceID")>>

UnmarshalAccept == <<Field("InstanceData", "message", "InstanceData")>>

UnmarshalAcceptOK == <<>>

UnmarshalCommit == <<Field("InstanceData", "message", "InstanceData")>>

UnmarshalBallot ==
  <<Scalar("Epoch", "uint"), Scalar("Number", "uint"), Scalar("ReplicaID", "uint")>>

UnmarshalMessage ==
  <<Scalar("To", "uint"), Field("Ballot", "message", "Ballot"),
    Field("InstanceID", "message", "InstanceID"),
    Field("Type", "oneof", "PreAccept"), Field("Type", "oneof", "PreAcceptOK"),
    Field("Type", "oneof", "PreAcceptReply"), Field("Type", "oneof", "Accept"),
    Field("Type", "oneof", "AcceptOK"), Field("Type", "oneof", "Commit")>>

UnmarshalInstanceState ==
  <<Field("InstanceID", "message", "InstanceID"), Scalar("Status", "uint"),
    Field("InstanceData", "message", "InstanceData"), Field("Ballot", "pointer", "Ballot")>>

UnmarshalHardState == <<Scalar("ReplicaID", "uint"), Scalar("Nodes", "packed")>>

UnmarshalEmpty == <<>>

UnmarshalKVReadRequest == <<Scalar("Key", "bytes")>>

UnmarshalKVWriteRequest == <<Scalar("Key", "bytes"), Scalar("Value", "bytes")>>

UnmarshalKVResult == <<Scalar("Key", "bytes"), Scalar("Value", "bytes")>>

Fields(type) ==
  CASE type = "Span" -> UnmarshalSpan
    [] type = "Command" -> UnmarshalCommand
    [] type = "InstanceID" -> UnmarshalInstanceID
    [] type = "InstanceData" -> UnmarshalInstanceData
    [] type = "PreAccept" -> UnmarshalPreAccept
    [] type = "PreAcceptOK" -> UnmarshalPreAcceptOK
    [] type = "PreAcceptReply" -> UnmarshalPreAcceptReply
    [] type = "Accept" -> UnmarshalAccept
    [] type = "AcceptOK" -> UnmarshalAcceptOK
    [] type = "Commit" -> UnmarshalCommit
    [] type = "Ballot" -> UnmarshalBallot
    [] type = "Message" -> UnmarshalMessage
    [] type = "InstanceState" -> UnmarshalInstanceState
    [] type = "HardState" -> UnmarshalHardState
    [] type = "Empty" -> UnmarshalEmpty
    [] type = "KVReadRequest" -> UnmarshalKVReadRequest
    [] type = "KVWriteRequest" -> UnmarshalKVWriteRequest
    [] type = "KVResult" -> UnmarshalKVResult

(* The zero value of a type: what new(T) allocates.                        *)
RECURSIVE New(_)
New(type) ==
  LET fs == Fields(type)
      names == {fs[i].name : i \in DOMAIN fs}
      zero(f) == CASE f.kind = "uint" -> 0
                   [] f.kind = "bool" -> FALSE
                   [] f.kind = "message" -> New(f.type)
                   [] f.kind \in {"repeated", "packed"} -> <<>>
                   [] OTHER -> Nil
  IN  [name \in names |-> zero(fs[Min({i \in DOMAIN fs : fs[i].name = name})])]

(* skipEpaxos and skipTransport: the length of the field at the start of   *)
(* b, which has an unknown number.  A group ends with the tag of its end.  *)
RECURSIVE skip(_), skipGroup(_)
skipGroup(b) ==
  LET tag == varint(b)
      n == skip(b)
      others == skipGroup(Drop(b, n))
  IN  IF tag = Err THEN Err
      ELSE IF tag.val % 8 = 4 THEN tag.n
      ELSE IF n = Err THEN Err
      ELSE IF others = Err THEN Err ELSE n + others

skip(b) ==
  LET tag == varint(b)
      rest == Drop(b, tag.n)
      value == varint(rest)
      group == skipGroup(rest)
      of == tag.val % 8
  IN  IF tag = Err THEN Err
      ELSE CASE of = 0 -> IF value = Err THEN Err ELSE tag.n + value.n
             [] of = 1 -> tag.n + 8
             [] of = 2 -> IF value = Err THEN Err
                          ELSE IF value.val >= 2^(WordBits - 1) THEN Err
                          ELSE tag.n + value.n + value.val
             [] of = 3 -> IF group = Err THEN Err ELSE tag.n + group
             [] of = 4 -> tag.n
             [] of = 5 -> tag.n + 4
             [] OTHER -> Err

(* The packed varints of b, after the ones in ns.                          *)
RECURSIVE unpack(_, _)
unpack(ns, b) ==
  LET v == varint(b) IN
  IF b = <<>> THEN ns
  ELSE IF v = Err THEN Err ELSE unpack(Append(ns, v.val), Drop(b, v.n))

WireTypes(kind) ==
  CASE kind \in {"uint", "bool"} -> {0}
    [] kind = "packed" -> {0, 2}
    [] OTHER -> {2}

RECURSIVE Unmarshal(_, _, _)

(* The value of the field f after v, of wire type of, was read into old.   *)
(* An embedded message is read over the one that is there.                 *)
Assign(f, of, old, v) ==
  LET into(x) == Unmarshal(f.type, x, v)
      new == into(New(f.type))
  IN  CASE f.kind \in {"uint", "bytes"} -> v
        [] f.kind = "bool" -> v # 0
        [] f.kind = "message" -> into(old)
        [] f.kind = "pointer" -> into(IF old = Nil THEN New(f.type) ELSE old)
        [] f.kind = "repeated" -> IF new = Err THEN Err ELSE Append(old, new)
        [] f.kind = "oneof" -> IF new = Err THEN Err ELSE [case |-> f.type, msg |-> new]
        [] f.kind = "packed" -> IF of = 0 THEN Append(old, v) ELSE unpack(old, v)

(* The loop of every Unmarshal, over the buffer b into the message m.      *)
Unmarshal(type, m, b) ==
  LET tag == varint(b)
      num == (tag.val \div 8) % 2^TagBits
      of == tag.val % 8
      rest == Drop(b, tag.n)
      f == Fields(type)[num]
      arg == IF of = 0 THEN varint(rest) ELSE delimited(rest)
      val == Assign(f, of, m[f.name], arg.val)
      skippy == skip(b)
  IN  IF b = <<>> THEN m
      ELSE IF tag = Err THEN Err
      ELSE IF of = 4 \/ num = 0 \/ num >= 2^(TagBits - 1) THEN Err
      ELSE IF num \in DOMAIN Fields(type)
      THEN IF of \notin WireTypes(f.kind) THEN Err
           ELSE IF arg = Err THEN Err
           ELSE IF val = Err THEN Err
           ELSE Unmarshal(type, [m EXCEPT ![f.name] = val], Drop(rest, arg.n))
      ELSE IF skippy = Err THEN Err
      ELSE IF skippy > Len(b) THEN Err ELSE Unmarshal(type, m, Drop(b, skippy))

(* A buffer read into a new message.                                       *)
Decode(type, b) == Unmarshal(type, New(type), b)

Encode(type, m) ==
  CASE type = "Message" -> MarshalMessage(m)
    [] type = "InstanceState" -> MarshalInstanceState(m)
    [] type = "HardState" -> MarshalHardState(m)
    [] type = "Empty" -> <<>>
    [] type = "KVReadRequest" -> MarshalKVReadRequest(m)
    [] type = "KVWriteRequest" -> MarshalKVWriteRequest(m)
    [] type = "KVResult" -> MarshalKVResult(m)

Size(type, m) ==
  CASE type = "Message" -> SizeMessage(m)
    [] type = "InstanceState" -> SizeInstanceState(m)
    [] type = "HardState" -> SizeHardState(m)
    [] type = "Empty" -> 0
    [] type = "KVReadRequest" -> SizeKVReadRequest(m)
    [] type = "KVWriteRequest" -> SizeKVWriteRequest(m)
    [] type = "KVResult" -> SizeKVResult(m)

=============================================================================
