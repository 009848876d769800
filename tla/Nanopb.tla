------------------------------- MODULE Nanopb -------------------------------
(***************************************************************************)
(* How nanopb (ios/Pods/nanopb: pb_decode.c, built with PB_ENABLE_MALLOC)  *)
(* decodes the answer of the upload server of GoogleDataTransport, the     *)
(* only message this app's pods decode: a LogResponse with an optional     *)
(* QosTiersOverride in it, which has an allocated array of                 *)
(* QosTierConfiguration (cct.nanopb.c). The bytes are whatever arrives:    *)
(* each step decodes one field, or ends a message, or meets something that *)
(* makes the decoder return false.                                         *)
(***************************************************************************)
EXTENDS Integers, Sequences, FiniteSets, FiniteSetsExt

CONSTANTS
  Values,      \* values of the fields, positive
  MaxFields    \* bound: fields decoded

VARIABLES
  pbPc,        \* "call", "decode", "true", "false" or "released"
  level,       \* 0 in the LogResponse, 1 and 2 in the messages inside
  response,    \* the struct, the static submessage included
  heap,        \* the blocks allocated: items by address
  addresses,   \* addresses handed out so far
  wild,        \* history: a block was used or freed that was not allocated
  seen         \* history: the fields decoded, in order

pbVars == <<pbPc, level, response, heap, addresses, wild, seen>>

NullPtr == 0
Absent  == 0       \* value of a field with has_ false
Default == [wait |-> Absent, tier |-> FALSE,
            array |-> NullPtr, count |-> 0, print |-> Absent]
NewItem == [qos |-> Absent, source |-> Absent]

PbInit ==
  /\ pbPc = "call" /\ level = 0 /\ response = Default
  /\ heap = << >> /\ addresses = 0 /\ wild = FALSE /\ seen = << >>

(* pb_decode: pb_message_set_to_defaults, then pb_decode_noinit.           *)
Decode ==
  /\ pbPc = "call"
  /\ pbPc' = "decode"
  /\ response' = Default
  /\ UNCHANGED <<level, heap, addresses, wild, seen>>

Reads(name, v) ==
  /\ pbPc = "decode" /\ Len(seen) < MaxFields
  /\ seen' = Append(seen, [name |-> name, val |-> v])
  /\ pbPc' = "decode"

(* A field that no descriptor has is skipped.                              *)
Skip ==
  /\ Reads("unknown", 0)
  /\ UNCHANGED <<level, response, heap, addresses, wild>>

-----------------------------------------------------------------------------
(* decode_static_field, OPTIONAL: has_ is set, the value is overwritten; a *)
(* submessage is decoded into what it already holds (pb_dec_submessage).   *)

WaitMillis(v) ==
  /\ level = 0 /\ Reads("wait", v)
  /\ response' = [response EXCEPT !.wait = v]
  /\ UNCHANGED <<level, heap, addresses, wild>>

Tier ==
  /\ level = 0 /\ Reads("tier", 0)
  /\ response' = [response EXCEPT !.tier = TRUE]
  /\ level' = 1
  /\ UNCHANGED <<heap, addresses, wild>>

Fingerprint(v) ==
  /\ level = 1 /\ Reads("print", v)
  /\ response' = [response EXCEPT !.print = v]
  /\ UNCHANGED <<level, heap, addresses, wild>>

(* The item being decoded is the last of the array.                        *)
StoreItem(v, name) ==
  /\ level = 2 /\ Reads(name, v)
  /\ heap' = [heap EXCEPT ![response.array][response.count][name] = v]
  /\ UNCHANGED <<level, response, addresses, wild>>

-----------------------------------------------------------------------------
(* decode_pointer_field, REPEATED: allocate_field grows the array by one,  *)
(* and realloc may move it; then the count, then initialize_pointer_field. *)

Old == IF response.array \in DOMAIN heap THEN heap[response.array] ELSE << >>
Moved(items) ==
  [a \in (DOMAIN heap \ {response.array}) \cup {addresses + 1} |->
     IF a = addresses + 1 THEN items ELSE heap[a]]

Config ==
  /\ level = 1 /\ Reads("config", 0)
  /\ addresses' = addresses + 1
  /\ heap' = Moved(Append(Old, NewItem))
  /\ wild' = (wild \/ response.array \notin DOMAIN heap \cup {NullPtr})
  /\ response' = [response EXCEPT !.array = addresses + 1, !.count = @ + 1]
  /\ level' = 2

-----------------------------------------------------------------------------
(* A message ends: its bytes are used up, or a tag of 0 comes, in which    *)
(* case pb_close_string_substream skips the rest. No field is required.    *)
End ==
  /\ pbPc = "decode"
  /\ \/ level > 0 /\ level' = level - 1 /\ UNCHANGED pbPc
     \/ level = 0 /\ pbPc' = "true" /\ UNCHANGED level
  /\ UNCHANGED <<response, heap, addresses, wild, seen>>

(* pb_release of the LogResponse: only the array is allocated. It is freed *)
(* and forgotten, and its count is 0.                                      *)
NotForgotten(r) == [r EXCEPT !.count = 0]
Forgotten(r) == [r EXCEPT !.count = 0, !.array = NullPtr]

Freed(r) ==
  /\ heap' = [a \in DOMAIN heap \ {r.array} |-> heap[a]]
  /\ wild' = (wild \/ r.array \notin DOMAIN heap \cup {NullPtr})

(* The input ends early, is malformed, or realloc fails, which leaves the  *)
(* old pointer and the count: every level returns false and pb_decode      *)
(* releases the message.                                                   *)
Fail ==
  /\ pbPc = "decode"
  /\ pbPc' = "false"
  /\ Freed(response) /\ response' = Forgotten(response)
  /\ level' = 0
  /\ UNCHANGED <<addresses, seen>>

(* GDTCCTDecodeLogResponse resets a response that could not be decoded,    *)
(* and handleURLResponse releases it in either case.                       *)
Reset == IF pbPc = "false" THEN Default ELSE response

ReleaseResponse ==
  /\ pbPc \in {"true", "false"}
  /\ pbPc' = "released"
  /\ Freed(Reset) /\ response' = Forgotten(Reset)
  /\ UNCHANGED <<level, addresses, seen>>

PbNext ==
  \/ Decode \/ Skip \/ Tier \/ Config \/ End \/ Fail \/ ReleaseResponse
  \/ \E v \in Values : \/ WaitMillis(v) \/ Fingerprint(v)
                       \/ StoreItem(v, "qos") \/ StoreItem(v, "source")

PbSpec == PbInit /\ [][PbNext]_pbVars

-----------------------------------------------------------------------------
(* Properties.                                                             *)

(* The value the last field of that name had, of those at the places.      *)
LastOf(name, places) ==
  LET at == {i \in places : seen[i].name = name}
  IN  IF at = {} THEN Absent
      ELSE seen[Max(at)].val

Places == DOMAIN seen
Configs == {i \in Places : seen[i].name = "config"}
(* The fields of the item that begins at place i.                          *)
Inside(i) == {j \in Places : j > i /\ \A k \in Configs : k <= i \/ k > j}

Decoded ==
  /\ response.wait = LastOf("wait", Places)
  /\ response.print = LastOf("print", Places)
  /\ response.tier <=> (\E i \in Places : seen[i].name = "tier")
  /\ response.count = Cardinality(Configs)
  /\ response.count > 0 =>
       \A i \in Configs :
         heap[response.array][Cardinality({j \in Configs : j <= i})] =
           [qos |-> LastOf("qos", Inside(i)),
            source |-> LastOf("source", Inside(i))]

(* Whatever arrives, the struct owns every block there is, none is used or *)
(* freed when it is not allocated, none is left when decoding has failed   *)
(* or the caller has released it; and when decoding succeeds, each field   *)
(* has the last value it was given, in a message that came in parts too,   *)
(* and the array has an item for each one that came, with what came for it *)
(* and defaults for the rest (pb_decode.c:490-551, 656-672, 1157-1262).    *)
DecodeSound ==
  /\ ~wild
  /\ DOMAIN heap = {response.array} \ {NullPtr}
  /\ pbPc \in {"false", "released"} => heap = << >>
  /\ pbPc = "true" => Decoded

-----------------------------------------------------------------------------
(* Why: what decoding ends with holds after every field, and the struct    *)
(* has an array exactly when it counts an item.                            *)

PbValue == Values \cup {Absent}
PbItem  == [qos : PbValue, source : PbValue]
PbField == [name : {"unknown", "wait", "tier", "print", "config", "qos", "source"},
            val : PbValue]

PbTypes ==
  /\ addresses \in Nat /\ level \in 0 .. 2
  /\ response \in [wait : PbValue, tier : BOOLEAN, array : 0 .. addresses,
                   count : Nat, print : PbValue]
  /\ seen \in Seq(PbField)

Owned ==
  /\ ~wild
  /\ DOMAIN heap = {response.array} \ {NullPtr}
  /\ pbPc = "call" => response = Default /\ seen = << >> /\ level = 0
  /\ pbPc \in {"false", "released"} => heap = << >>

Growing ==
  /\ Decoded
  /\ response.count = 0 <=> response.array = NullPtr
  /\ response.count > 0 =>
       /\ heap = [a \in {response.array} |-> heap[response.array]]
       /\ heap[response.array] \in Seq(PbItem)
       /\ Len(heap[response.array]) = response.count
  /\ level = 2 => response.count > 0

PbInv ==
  /\ PbTypes /\ Owned
  /\ pbPc \in {"decode", "true"} => Growing

=============================================================================
