---------------------------- MODULE CommandCodec ----------------------------
(***************************************************************************)
(* RepoCommandParameter and RepoCommandResponse: optional fields, their    *)
(* wire form, and the copy of it that an object keeps.                     *)
(*                                                                         *)
(* The fields of an object are a function from the types it has to their   *)
(* values.  A wire form is the sequence of its sub-elements; lengths and   *)
(* the coding of a number inside an element are left out.                  *)
(***************************************************************************)
EXTENDS Naturals, Sequences

Parameter == {"Name", "Selectors", "InterestLifetime", "WatchTimeout", "MaxInterestNum",
              "StartBlockId", "EndBlockId", "ProcessId"}
Response  == {"ProcessId", "StatusCode", "StartBlockId", "EndBlockId", "InsertNum", "DeleteNum"}

-----------------------------------------------------------------------------
(* One optional field on the wire. *)
Opt(p, t) == IF t \in DOMAIN p THEN <<[type |-> t, value |-> p[t]]>> ELSE <<>>

EncodeParameterMutCrossed(p) ==
  LET q == [t \in DOMAIN p |-> IF t = "MaxInterestNum" /\ "WatchTimeout" \in DOMAIN p
                                 THEN p["WatchTimeout"] ELSE p[t]]
  IN  Opt(q, "Name") \o Opt(q, "Selectors") \o Opt(q, "InterestLifetime")
        \o Opt(q, "WatchTimeout") \o Opt(q, "MaxInterestNum")
        \o Opt(q, "StartBlockId") \o Opt(q, "EndBlockId") \o Opt(q, "ProcessId")

(* RepoCommandParameter::wireEncode prepends the last field first. *)
EncodeParameter(p) ==
  Opt(p, "Name") \o Opt(p, "Selectors") \o Opt(p, "InterestLifetime")
    \o Opt(p, "WatchTimeout") \o Opt(p, "MaxInterestNum")
    \o Opt(p, "StartBlockId") \o Opt(p, "EndBlockId") \o Opt(p, "ProcessId")

(* RepoCommandResponse::wireEncode; without StatusCode it throws. *)
CanEncode(r) == "StatusCode" \in DOMAIN r

EncodeResponse(r) ==
  Opt(r, "ProcessId") \o Opt(r, "StatusCode") \o Opt(r, "StartBlockId")
    \o Opt(r, "EndBlockId") \o Opt(r, "InsertNum") \o Opt(r, "DeleteNum")

(* Block::find: the first element of a type *)
Types(w) == {w[i].type : i \in DOMAIN w}
IsFirst(w, i, t) == i \in DOMAIN w /\ w[i].type = t /\ \A j \in 1..(i - 1) : w[j].type # t
FindElement(w, t) == w[CHOOSE i \in DOMAIN w : IsFirst(w, i, t)].value

(* wireDecode: of the types it knows, those that are there; a response without
   StatusCode throws. *)
Decode(w, known) == [t \in Types(w) \cap known |-> FindElement(w, t)]
DecodeParameter(w) == Decode(w, Parameter)
DecodeResponse(w) == Decode(w, Response)
CanDecode(w) == "StatusCode" \in Types(w)

-----------------------------------------------------------------------------
(* An object keeps m_wire once it was encoded, until a setter resets it. *)
NoWire == <<>>
New == [fields |-> [t \in {} |-> 0], wire |-> NoWire]

SetFieldMutKeepsWire(o, t, v) ==
  [o EXCEPT !.fields = [u \in DOMAIN o.fields \cup {t} |-> IF u = t THEN v ELSE o.fields[u]]]

SetField(o, t, v) ==
  [fields |-> [u \in DOMAIN o.fields \cup {t} |-> IF u = t THEN v ELSE o.fields[u]],
   wire   |-> NoWire]

(* wireEncode() const *)
EncodedParameter(o) ==
  IF o.wire # NoWire THEN o ELSE [o EXCEPT !.wire = EncodeParameter(o.fields)]
EncodedResponse(o) ==
  IF o.wire # NoWire THEN o ELSE [o EXCEPT !.wire = EncodeResponse(o.fields)]
=============================================================================
