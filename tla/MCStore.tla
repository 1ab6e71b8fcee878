------------------------------ MODULE MCStore -------------------------------
(***************************************************************************)
(* An instance of Store: the messages, states and command lines at the     *)
(* boundaries of the encodings.                                            *)
(***************************************************************************)
EXTENDS Store

(* Around the limits of one, two and three groups of a varint, and the     *)
(* largest word.                                                           *)
Words == {0, 1, 127, 128, 16384, 2^WordBits - 1}

Long == [i \in 1..128 |-> 7]

IDs == {[ReplicaID |-> 0, InstanceNum |-> 1], [ReplicaID |-> 128, InstanceNum |-> 0]}

Commands ==
  {[ID |-> w, Span |-> [Key |-> <<1>>, EndKey |-> Nil], Writing |-> d # Nil, Data |-> d] :
     w \in {0, 2^WordBits - 1}, d \in {Nil, <<>>, <<0, 255>>}}
  \cup {[ID |-> 1, Span |-> [Key |-> Long, EndKey |-> Nil], Writing |-> TRUE, Data |-> <<9>>],
        [ID |-> 1, Span |-> [Key |-> <<1>>, EndKey |-> <<2>>], Writing |-> TRUE, Data |-> Nil]}

DepSlices == {<<>>} \cup {<<d, e>> : d, e \in IDs}

Data ==
  {[Command |-> c, SeqNum |-> w, Deps |-> <<>>] : c \in Commands \cup {Nil}, w \in {0, 128}}
  \cup {[Command |-> Nil, SeqNum |-> 1, Deps |-> ds] : ds \in DepSlices}

Reply == {[UpdatedSeqNum |-> w, UpdatedDeps |-> ds] : w \in Words, ds \in DepSlices}

Empty == [name \in {} |-> Nil]

Types ==
  {[case |-> c, msg |-> [InstanceData |-> d]] : c \in {"PreAccept", "Accept", "Commit"}, d \in Data}
  \cup {[case |-> c, msg |-> Empty] : c \in {"PreAcceptOK", "AcceptOK"}}
  \cup {[case |-> "PreAcceptReply", msg |-> r] : r \in Reply}

Pinned(to, b, t) ==
  [To |-> to, Ballot |-> b, InstanceID |-> [ReplicaID |-> 1, InstanceNum |-> 1], Type |-> t]

NoBallot == [Epoch |-> 0, Number |-> 0, ReplicaID |-> 0]

Messages ==
  {Pinned(2, NoBallot, t) : t \in Types}
  \cup {Pinned(to, [Epoch |-> w, Number |-> 2, ReplicaID |-> 0], Nil) :
          to \in {0, 300}, w \in Words}

HardStates ==
  {[ReplicaID |-> w, Nodes |-> ns] : w \in Words, ns \in {<<0>>, <<0, 1, 2>>, <<300, 0, 128>>}}

KVs == {[Key |-> key, Value |-> val] : key, val \in {Nil, <<>>, <<0>>, Long}}

SomeFrames ==
  {<<"Message", m>> : m \in Messages} \cup {<<"HardState", h>> : h \in HardStates}
  \cup {<<"KVReadRequest", [Key |-> key]>> : key \in {Nil, <<0>>, Long}}
  \cup {<<"KVWriteRequest", m>> : m \in KVs} \cup {<<"KVResult", m>> : m \in KVs}
  \cup {<<"Empty", Empty>>}

(* Unknown fields of every wire type: a varint, eight bytes, a string, a   *)
(* group with a field in it, and four bytes.                               *)
UnknownFields == {<<>>, <<120, 128, 1>>, <<121>> \o SubSeq(Long, 1, 8), <<122, 2, 8, 8>>,
                  <<123, 8, 5, 124>>, <<125, 1, 2, 3, 4>>}

SomeStates ==
  {[InstanceID |-> id, Status |-> st, InstanceData |-> d, Ballot |-> Nil] :
     id \in {[ReplicaID |-> 0, InstanceNum |-> 1], [ReplicaID |-> 1, InstanceNum |-> 1],
             [ReplicaID |-> 0, InstanceNum |-> 129]},
     st \in {1, 4}, d \in {[Command |-> Nil, SeqNum |-> 1, Deps |-> <<>>]}}

(* User keys, among them one that looks like the key of an instance.       *)
SomeKeys == {<<>>, <<112, 105, 115, 0, 0, 1>>}
SomeValues == {Nil, <<1>>}

Line(h, p) == [host |-> h, port |-> p]
ThreeHosts == <<Line("a", Nil), Line("b", Nil), Line("c", 7000)>>
TwoOnOne == <<Line("a", 7000), Line("a", 7001)>>
Lines == {ThreeHosts, TwoOnOne, Append(ThreeHosts, Line("d", Nil))}
SomeCommandLines ==
  {[lines |-> ls, host |-> h, port |-> 2346, id |-> i] :
     ls \in Lines, h \in {"a", "b", "c"}, i \in -1..2}

(* Nothing follows a frame, which no step of the process depends on.       *)
FrameLast == frame = Nil
=============================================================================
