-------------------------------- MODULE Keys --------------------------------
(***************************************************************************)
(* The names the store gives its records and queues (src/keys.rs), and the *)
(* rules of ids that they rest on (src/kernel.rs, src/records.rs): the     *)
(* queue of an address, the lineage an id spells out, and the branch index *)
(* whose keys join a branch and an id.                                     *)
(*                                                                         *)
(* A string is a sequence of bytes, and an instance has a few bytes only:  *)
(* those that these rules tell apart.  The states are the addresses and    *)
(* the promises that come into use, whatever strings of them they are.     *)
(***************************************************************************)
EXTENDS Integers, SequencesExt

CONSTANTS
    AddressByte,    \* the bytes of addresses, as strings of one character
    Plain,          \* those that a queue name keeps
    Hex,            \* the two digits of each other byte
    MaxQueueName,   \* the longest queue name, without what it begins with
    MaxAddress,     \* bound on the length of an address
    IdByte,         \* the bytes of ids: colon, dot, and others
    Null,           \* the null byte
    MaxId,          \* bound on the length of an id
    MaxUses,        \* bound on the addresses and promises that come into use
    FiredIds        \* the promise ids that schedules spell out, which nobody checks

ASSUME KeysAssumption ==
    /\ Plain \subseteq AddressByte
    /\ "_" \notin Plain
    /\ \A b \in AddressByte \ Plain : Hex[b] \in Plain \X Plain
    /\ \A b, c \in AddressByte \ Plain : Hex[b] = Hex[c] => b = c
    /\ {":", "."} \subseteq IdByte /\ FiredIds \subseteq Seq(IdByte)
    /\ MaxQueueName \in Nat /\ MaxAddress \in Nat /\ MaxId \in Nat
    /\ MaxUses \in Nat

VARIABLES
    addresses,  \* the addresses that messages were sent to
    index       \* the entries of the branch index: branch and id

vars == <<addresses, index>>

StringsUpTo(bytes, n) == UNION {[1 .. m -> bytes] : m \in 0 .. n}

Init == addresses = {} /\ index = {}

MoreUses == Cardinality(addresses) + Cardinality(index) < MaxUses

-----------------------------------------------------------------------------
\* Mutant: an underscore is kept.
EscapedLoose(byte) ==
    IF byte \in Plain \cup {"_"} THEN <<byte>> ELSE <<"_">> \o Hex[byte]

\* A byte of an address in a queue name.
Escaped(byte) == IF byte \in Plain THEN <<byte>> ELSE <<"_">> \o Hex[byte]

\* The queue of an address: its escaped bytes, or, when they are too many, its
\* digest, which stands for the address it is of.  What a name begins with tells
\* the two and the timer queue apart.
AddressQueue(a) ==
    LET name == FlattenSeq([n \in DOMAIN a |-> Escaped(a[n])])
    IN  IF Len(name) <= MaxQueueName THEN <<"resonate.a.", name>>
        ELSE <<"resonate.h.", a>>

\* A message is sent to the address.
UseAddress(a) ==
    /\ MoreUses
    /\ addresses' = addresses \cup {a}
    /\ UNCHANGED index

-----------------------------------------------------------------------------
\* The part of an id before its first colon.
OriginOf(id) ==
    LET colons == {n \in DOMAIN id : id[n] = ":"}
    IN  IF colons = {} THEN id ELSE SubSeq(id, 1, Min(colons) - 1)

\* Mutant: whatever an id begins with is an ancestor.
IsAncestorLoose(ancestor, id) == IsPrefix(ancestor, id)

\* An ancestor is followed by a colon when it has none, and by a dot when it has.
IsAncestor(ancestor, id) ==
    \/ ancestor = id
    \/ /\ IsStrictPrefix(ancestor, id)
       /\ id[Len(ancestor) + 1] = IF Contains(ancestor, ":") THEN "." ELSE ":"

\* Mutant: the null byte is left to the client.
ValidateCreateLoose(id, branch) == id # <<>> /\ IsAncestor(branch, id)

\* The rules of a promise's id and branch.
ValidateCreate(id, branch) ==
    /\ id # <<>> /\ ~Contains(id, Null)
    /\ IsAncestor(branch, id)

BranchPrefix(branch) == Append(branch, Null)

BranchKey(branch, id) == BranchPrefix(branch) \o id

\* The promise id of a key with the prefix.
BranchEntryId(prefix, key) == SubSeq(key, Len(prefix) + 1, Len(key))

\* The promise is indexed when it does not exist.
IndexBranch(id, branch) ==
    /\ MoreUses
    /\ ~\E entry \in index : entry[2] = id
    /\ index' = index \cup {<<branch, id>>}
    /\ UNCHANGED addresses

PromiseCreate(id, branch) == ValidateCreate(id, branch) /\ IndexBranch(id, branch)

\* The firing of a schedule names its own promise as the branch and does not
\* validate the id.
FireSchedule(id) == IndexBranch(id, id)

\* The ids a scan of the branch finds.
BranchScan(branch) ==
    LET prefix == BranchPrefix(branch)
    IN  {BranchEntryId(prefix, BranchKey(entry[1], entry[2])) :
            entry \in {e \in index : IsPrefix(prefix, BranchKey(e[1], e[2]))}}

Next ==
    \/ \E a \in StringsUpTo(AddressByte, MaxAddress) : UseAddress(a)
    \/ \E id \in StringsUpTo(IdByte, MaxId) :
          \E n \in 0 .. Len(id) : PromiseCreate(id, SubSeq(id, 1, n))
    \/ \E id \in FiredIds : FireSchedule(id)

Spec == Init /\ [][Next]_vars

-----------------------------------------------------------------------------
\* Distinct addresses name distinct queues: no escaped name can be spelled by
\* other bytes, and none is a digest.  A message never goes to another address.
DistinctQueues ==
    \A a, b \in addresses : a # b => AddressQueue(a) # AddressQueue(b)

\* A branch is in the origin of its promises: the lineage that an id spells out
\* never leaves the part of the id that requests compare.
BranchInOrigin ==
    \A entry \in index : OriginOf(entry[1]) = OriginOf(entry[2])

\* src/keys.rs: a branch index entry is "separated by a null byte, which the
\* protocol forbids inside an id", so that the scan of a branch finds the
\* promises with that branch and no part of another branch's key.  It is so as long
\* as no schedule spells out a null byte.
BranchScanIsExact ==
    \A entry \in index :
        BranchScan(entry[1]) = {e[2] : e \in {x \in index : x[1] = entry[1]}}
=============================================================================
