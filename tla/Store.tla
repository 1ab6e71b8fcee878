------------------------------- MODULE Store --------------------------------
(***************************************************************************)
(* One demo process and the bytes it leaves outside its memory: the keys   *)
(* and values of its badger store (demo/server/storage.go) and the         *)
(* messages on streams, in the encodings of module Codec.  A process       *)
(* starts from a hostfile (demo/util/hostfile.go, demo/server/main.go),    *)
(* checks its configuration against the store (Config.validate,            *)
(* initStorage), persists and sends, stops, and is started again.          *)
(***************************************************************************)
EXTENDS Codec

CONSTANTS
  CommandLines,   \* the hostfiles, hostnames and --id flags of a start
  States,         \* the pb.InstanceStates the process may persist
  UserKeys,       \* the keys of executed commands
  UserValues,     \* and the values written to them
  Frames,         \* pairs of a type and a message that peers may send
  NewerFields     \* fields of a later version, unknown to this one

VARIABLES
  kv,         \* the badger store: a function from keys to values
  running,    \* the clients, Config and loaded instances, or Nil
  ran,        \* history: the Configs that ran on this store
  persisted,  \* history: the instance states persisted, by InstanceID
  written,    \* history: the values set, by user key
  frame       \* a message that was sent to the process, and what it received

vars == <<kv, running, ran, persisted, written, frame>>

-----------------------------------------------------------------------------
(* The configuration of a start.                                           *)

(* ParseHostfile: a line of the hostfile is a host and a port, or none.    *)
ParseHostfile(lines, defaultPort) ==
  [i \in DOMAIN lines |->
     [Idx |-> i - 1, Host |-> lines[i].host,
      Port |-> IF lines[i].port = Nil THEN defaultPort ELSE lines[i].port]]

(* parseHostfile of a command line cl.  localInfoSet is a port that is not *)
(* 0.                                                                      *)
parseHostfile(cl) ==
  LET addrs == ParseHostfile(cl.lines, cl.port)
      hostIDSet == cl.id >= 0
      mine(a) == (hostIDSet /\ a.Idx = cl.id) \/ (~ hostIDSet /\ a.Host = cl.host)
      local == {i \in DOMAIN addrs : mine(addrs[i])}
      set == {i \in local : addrs[i].Port # 0}
      me == addrs[Max(local)]
  IN  IF local = {} THEN Err
      ELSE IF (\E i \in local : addrs[i].Host # cl.host) \/ set # {Max(local)} THEN Err
      ELSE [myID |-> me.Idx, myPort |-> me.Port,
            peerAddrs |-> SelectSeq(addrs, LAMBDA a : ~ mine(a))]

(* toPaxosConfig.  FromOne: the nodes are numbered from one.               *)
toPaxosConfigFromOne(ph) ==
  [ID |-> ph.myID, Nodes |-> [i \in 1..(Len(ph.peerAddrs) + 1) |-> i]]

toPaxosConfig(ph) ==
  [ID |-> ph.myID, Nodes |-> [i \in 1..(Len(ph.peerAddrs) + 1) |-> i - 1]]

(* The keys of the clients newServer dials.                                *)
Clients(ph) == {a.Idx : a \in ToSet(ph.peerAddrs)}

-----------------------------------------------------------------------------
(* The store.                                                              *)

nullByte == 0
userspacePrefix == <<117>>               \* u
epaxosHS == <<112, 104, 115>>            \* phs
epaxosInstancePrefix == <<112, 105, 115>>  \* pis

encodeUserKey(key) == userspacePrefix \o key

(* encodeInstanceKey.  Joined: nothing between the two numbers, which are  *)
(* written as they are.                                                    *)
encodeInstanceKeyJoined(is) ==
  epaxosInstancePrefix \o <<is.InstanceID.ReplicaID % 128, is.InstanceID.InstanceNum % 128>>

encodeInstanceKey(is) ==
  epaxosInstancePrefix \o encodeVarint(is.InstanceID.ReplicaID) \o <<nullByte>>
    \o encodeVarint(is.InstanceID.InstanceNum)

(* badger's Set and Get: Get of a missing key has no error and no value.   *)
Set(store, key, val) ==
  [k \in DOMAIN store \cup {key} |-> IF k = key THEN val ELSE store[k]]

Get(store, key) == IF key \in DOMAIN store THEN store[key] ELSE Nil

(* No reader tells a nil value from an empty one.                          *)
Value(val) == IF IsEmpty(val) THEN <<>> ELSE val

SetKey(key, val) == kv' = Set(kv, encodeUserKey(key), Value(val))

GetKey(key) == Get(kv, encodeUserKey(key))

HardState(store) ==
  LET val == Get(store, epaxosHS) IN IF val = Nil THEN Nil ELSE Decode("HardState", val)

PersistHardState(store, hs) == Set(store, epaxosHS, MarshalHardState(hs))

(* The order of an iterator's keys.                                        *)
Before(a, b) ==
  \/ IsStrictPrefix(a, b)
  \/ \E i \in DOMAIN a \cap DOMAIN b :
       a[i] < b[i] /\ SubSeq(a, 1, i - 1) = SubSeq(b, 1, i - 1)

(* Instances: Rewind goes to the first key of the store, and the loop ends *)
(* at the first key that does not have the prefix of an instance.          *)
Instances(store) ==
  LET others == {k \in DOMAIN store : ~ IsPrefix(epaxosInstancePrefix, k)}
      seen == {k \in DOMAIN store \ others : \A o \in others : Before(k, o)}
  IN  {Decode("InstanceState", store[k]) : k \in seen}

-----------------------------------------------------------------------------
Init ==
  /\ kv = <<>>
  /\ running = Nil
  /\ ran = {}
  /\ persisted = <<>>
  /\ written = <<>>
  /\ frame = Nil

(* Config.validate.  Lenient: a store of other nodes is accepted.          *)
validateLenient(c, hs) ==
  /\ c.ID \in ToSet(c.Nodes)
  /\ hs # Nil => hs.ReplicaID = c.ID

validate(c, hs) ==
  /\ c.ID \in ToSet(c.Nodes)
  /\ hs # Nil => hs.ReplicaID = c.ID /\ hs.Nodes = c.Nodes

(* main: newServer and, in StartNode, newEPaxos and initStorage.           *)
Start(cl) ==
  LET ph == parseHostfile(cl)
      c == toPaxosConfig(ph)
      hs == HardState(kv)
  IN  /\ running = Nil
      /\ ph # Err
      /\ validate(c, hs)
      /\ kv' = IF hs = Nil
               THEN PersistHardState(kv, [ReplicaID |-> c.ID, Nodes |-> c.Nodes]) ELSE kv
      /\ running' = [clients |-> Clients(ph), config |-> c, loaded |-> Instances(kv')]
      /\ ran' = ran \cup {c}
      /\ UNCHANGED <<persisted, written, frame>>

(* The process stops.  The next one opens the store of this one, which is  *)
(* what validate and initStorage are written for, or, as newStore does, a  *)
(* new directory.                                                          *)
Stop ==
  /\ running # Nil
  /\ running' = Nil
  /\ \/ UNCHANGED <<kv, ran, persisted, written>>
     \/ kv' = <<>> /\ ran' = {} /\ persisted' = <<>> /\ written' = <<>>
  /\ UNCHANGED frame

PersistInstance(is) ==
  /\ running # Nil
  /\ kv' = Set(kv, encodeInstanceKey(is), MarshalInstanceState(is))
  /\ persisted' = Set(persisted, is.InstanceID, is)
  /\ UNCHANGED <<running, ran, written, frame>>

(* The write of an executed command.                                       *)
Write(key, val) ==
  /\ running # Nil
  /\ SetKey(key, val)
  /\ written' = Set(written, key, Value(val))
  /\ UNCHANGED <<running, ran, persisted, frame>>

(* A peer sends a message on a stream.  The peer may be of a later version *)
(* and put fields before or after the known ones, or the stream may break. *)
(* Bound: one message, before the process starts; the store and the        *)
(* streams have nothing in common but the encodings.                       *)
Deliver(type, m, before, after, cut) ==
  LET whole == before \o Encode(type, m) \o after
      buf == SubSeq(whole, 1, Len(whole) - cut)
  IN  /\ frame = Nil /\ ran = {}
      /\ frame' = [type |-> type, msg |-> m, cut |-> cut, got |-> Decode(type, buf)]
      /\ UNCHANGED <<kv, running, ran, persisted, written>>

Next ==
  \/ \E cl \in CommandLines : Start(cl)
  \/ Stop
  \/ \E is \in States : PersistInstance(is)
  \/ \E key \in UserKeys, val \in UserValues : Write(key, val)
  \/ \E f \in Frames, before, after \in NewerFields : Deliver(f[1], f[2], before, after, 0)
  \/ \E f \in Frames : \E cut \in 1..Len(Encode(f[1], f[2])) :
       Deliver(f[1], f[2], <<>>, <<>>, cut)

Spec == Init /\ [][Next]_vars

-----------------------------------------------------------------------------
(* Properties.                                                             *)

(* An empty slice is not sent and arrives as a nil one; everything else is *)
(* received as it was sent.                                                *)
RECURSIVE Received(_, _)
Received(type, m) ==
  LET fs == Fields(type)
      of(name) == fs[Min({i \in DOMAIN fs : fs[i].name = name})]
      field(f, v) ==
        CASE f.kind = "bytes" -> IF IsEmpty(v) THEN Nil ELSE v
          [] f.kind \in {"message", "pointer"} -> IF v = Nil THEN Nil ELSE Received(f.type, v)
          [] f.kind = "repeated" -> [i \in DOMAIN v |-> Received(f.type, v[i])]
          [] f.kind = "oneof" ->
               IF v = Nil THEN Nil ELSE [v EXCEPT !.msg = Received(v.case, v.msg)]
          [] OTHER -> v
  IN  [name \in DOMAIN m |-> field(of(name), m[name])]

(* What a peer sends is what arrives, field for field, also when the peer  *)
(* knows fields that the receiver does not (Marshal, Unmarshal, skip); in  *)
(* particular a nil EndKey stays nil, which executeCommand insists on.     *)
RoundTrip ==
  frame # Nil => (frame.cut = 0 => frame.got = Received(frame.type, frame.msg))

(* Size is the number of bytes Marshal writes, for the message and for     *)
(* every message in it: a smaller one overruns the buffer, a larger one    *)
(* leaves bytes behind it that are not part of the message.                *)
SizeExact ==
  frame # Nil =>
    Size(frame.type, frame.msg) = Len(Encode(frame.type, frame.msg))

(* A message that was cut short is refused, or is short of whole fields:   *)
(* none of its fields has a value that the sender did not give it.         *)
CutIsNotTaken ==
  (frame # Nil /\ frame.got # Err) =>
    \A name \in DOMAIN frame.got :
      LET sent == Received(frame.type, frame.msg)[name]
          got == frame.got[name]
      IN  \/ got = sent \/ got = New(frame.type)[name]
          \/ name = "Nodes" /\ IsPrefix(got, sent)

(* Every value is found again under its key: no two instances, user keys   *)
(* or the hard state share a key, and what is stored is decoded as it was. *)
ReadBack ==
  /\ \A id \in DOMAIN persisted :
       Decode("InstanceState", Get(kv, encodeInstanceKey(persisted[id])))
         = Received("InstanceState", persisted[id])
  /\ \A key \in DOMAIN written : GetKey(key) = written[key]

(* One store is used by one replica of one network for ever: a process     *)
(* that was given another hostfile or identifier refuses to start on it.   *)
OneIdentity == Cardinality(ran) <= 1

(* A process has a client for every other node of its configuration and    *)
(* for no one else, so that every message has somewhere to go              *)
(* (sendAllTo's "message found with unknown destination").                 *)
ClientsComplete ==
  running # Nil =>
    running.clients = ToSet(running.config.Nodes) \ {running.config.ID}

=============================================================================
