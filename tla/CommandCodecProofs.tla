------------------------- MODULE CommandCodecProofs -------------------------
(***************************************************************************)
(* Theorems about CommandCodec: what is decoded is what was encoded,       *)
(* whichever fields are set and whatever their values, and the wire form   *)
(* that an object keeps is that of its fields.                             *)
(***************************************************************************)
EXTENDS CommandCodec, SequenceTheorems, NaturalsInduction, WellFoundedInduction, TLAPS

(* The elements that the fields of p have, and a wire form of the fields of p among
   the types S. *)
Elements(p) == {[type |-> t, value |-> p[t]] : t \in DOMAIN p}
IsWire(w, p, S) == w \in Seq(Elements(p)) /\ Types(w) = S \cap DOMAIN p

(* A set of positions has a first one. *)
LEMMA FirstPosition ==
  ASSUME NEW S \in SUBSET Nat, S # {}
  PROVE  \E m \in S : \A k \in S : m <= k
<1> DEFINE R == {pair \in Nat \X Nat : pair[1] < pair[2]}
<1>1. IsWellFoundedOn(R, Nat)
  BY NatLessThanWellFounded DEF OpToRel
<1>2. \E m \in S : \A k \in S : ~ (<<k, m>> \in R)
  <2> HIDE DEF R
  <2> QED
    BY <1>1, WFMin
<1>3. PICK m \in S : \A k \in S : ~ (<<k, m>> \in R)
  BY <1>2
<1>4. ASSUME NEW k \in S PROVE m <= k
  <2>1. <<k, m>> \in Nat \X Nat /\ <<k, m>>[1] = k /\ <<k, m>>[2] = m
    OBVIOUS
  <2> QED
    BY <1>3, <2>1
<1> QED
  BY <1>4

(* One optional field. *)
LEMMA OptIsWire ==
  ASSUME NEW p, NEW t
  PROVE  IsWire(Opt(p, t), p, {t})
<1>1. CASE t \in DOMAIN p
  <2> DEFINE e == [type |-> t, value |-> p[t]]
  <2>1. e \in Elements(p) /\ e.type = t
    BY <1>1 DEF Elements
  <2>2. Opt(p, t) = <<e>>
    BY <1>1 DEF Opt
  <2> HIDE DEF e
  <2>3. Opt(p, t) \in Seq(Elements(p)) /\ DOMAIN Opt(p, t) = {1} /\ Opt(p, t)[1] = e
    BY <2>1, <2>2
  <2> QED
    BY <1>1, <2>1, <2>3 DEF IsWire, Types
<1>2. CASE t \notin DOMAIN p
  <2>1. Opt(p, t) = <<>> /\ DOMAIN <<>> = {} /\ <<>> \in Seq(Elements(p))
    BY <1>2 DEF Opt
  <2> QED
    BY <1>2, <2>1 DEF IsWire, Types
<1> QED
  BY <1>1, <1>2

(* Wire forms put one after the other. *)
LEMMA ConcatIsWire ==
  ASSUME NEW p, NEW S, NEW T, NEW u, NEW v, IsWire(u, p, S), IsWire(v, p, T)
  PROVE  IsWire(u \o v, p, S \cup T)
<1> DEFINE w == u \o v
<1>1. u \in Seq(Elements(p)) /\ v \in Seq(Elements(p))
  BY DEF IsWire
<1>2. /\ w \in Seq(Elements(p)) /\ Len(w) = Len(u) + Len(v)
      /\ \A i \in 1..(Len(u) + Len(v)) : w[i] = IF i <= Len(u) THEN u[i] ELSE v[i - Len(u)]
  BY <1>1, ConcatProperties
<1>3. /\ Len(u) \in Nat /\ DOMAIN u = 1..Len(u) /\ Len(v) \in Nat /\ DOMAIN v = 1..Len(v)
      /\ DOMAIN w = 1..(Len(u) + Len(v))
  BY <1>1, <1>2
<1> HIDE DEF w
<1>4. \A i \in DOMAIN u : i \in DOMAIN w /\ w[i] = u[i]
  BY <1>2, <1>3
<1>5. \A i \in DOMAIN v : i + Len(u) \in DOMAIN w /\ w[i + Len(u)] = v[i]
  BY <1>2, <1>3
<1>6. \A i \in DOMAIN w : w[i].type \in Types(u) \cup Types(v)
  <2> TAKE i \in DOMAIN w
  <2>1. CASE i <= Len(u)
    BY <1>2, <1>3, <2>1 DEF Types
  <2>2. CASE ~(i <= Len(u))
    <3>1. i - Len(u) \in DOMAIN v /\ w[i] = v[i - Len(u)]
      BY <1>2, <1>3, <2>2
    <3> QED
      BY <3>1 DEF Types
  <2> QED
    BY <2>1, <2>2
<1>7. Types(w) = Types(u) \cup Types(v)
  BY <1>4, <1>5, <1>6 DEF Types
<1>8. IsWire(w, p, S \cup T)
  BY <1>2, <1>7 DEF IsWire
<1> QED
  BY <1>8 DEF w

(* Of a wire form, wireDecode finds in each type the value of the field. *)
LEMMA DecodeWire ==
  ASSUME NEW known, NEW V, NEW D \in SUBSET known, NEW p \in [D -> V], NEW w,
         IsWire(w, p, known)
  PROVE  Decode(w, known) = p
<1>1. DOMAIN p = D /\ Types(w) = D /\ w \in Seq(Elements(p))
  BY DEF IsWire
<1>2. ASSUME NEW t \in D PROVE FindElement(w, t) = p[t]
  <2> DEFINE positions == {i \in DOMAIN w : w[i].type = t}
  <2>1. positions # {}
    BY <1>1, <1>2 DEF Types
  <2>2. DOMAIN w \in SUBSET Nat /\ DOMAIN w = 1..Len(w) /\ Len(w) \in Nat
    BY <1>1
  <2>3. PICK m \in positions : \A k \in positions : m <= k
    BY <2>1, <2>2, FirstPosition
  <2>4. \A j \in 1..(m - 1) : j \in DOMAIN w /\ ~(m <= j)
    BY <2>2, <2>3
  <2>5. IsFirst(w, m, t)
    BY <2>3, <2>4 DEF IsFirst
  <2>6. \A i \in DOMAIN w : w[i].value = p[w[i].type]
    BY <1>1, <2>2 DEF Elements
  <2>7. PICK i \in DOMAIN w : IsFirst(w, i, t) /\ FindElement(w, t) = w[i].value
    BY <2>3, <2>5 DEF FindElement
  <2> QED
    BY <2>6, <2>7 DEF IsFirst
<1>3. Decode(w, known) = [t \in D |-> p[t]]
  BY <1>1, <1>2 DEF Decode
<1> QED
  BY <1>3

(* The encoding of a command parameter is a wire form of all its fields. *)
LEMMA EncodeParameterIsWire ==
  ASSUME NEW p
  PROVE  IsWire(EncodeParameter(p), p, Parameter)
<1>1. IsWire(Opt(p, "Name") \o Opt(p, "Selectors"), p, {"Name"} \cup {"Selectors"})
  BY OptIsWire, ConcatIsWire
<1>2. IsWire(Opt(p, "Name") \o Opt(p, "Selectors") \o Opt(p, "InterestLifetime"), p,
             {"Name"} \cup {"Selectors"} \cup {"InterestLifetime"})
  BY <1>1, OptIsWire, ConcatIsWire
<1>3. IsWire(Opt(p, "Name") \o Opt(p, "Selectors") \o Opt(p, "InterestLifetime")
               \o Opt(p, "WatchTimeout"), p,
             {"Name"} \cup {"Selectors"} \cup {"InterestLifetime"} \cup {"WatchTimeout"})
  BY <1>2, OptIsWire, ConcatIsWire
<1>4. IsWire(Opt(p, "Name") \o Opt(p, "Selectors") \o Opt(p, "InterestLifetime")
               \o Opt(p, "WatchTimeout") \o Opt(p, "MaxInterestNum"), p,
             {"Name"} \cup {"Selectors"} \cup {"InterestLifetime"} \cup {"WatchTimeout"}
               \cup {"MaxInterestNum"})
  BY <1>3, OptIsWire, ConcatIsWire
<1>5. IsWire(Opt(p, "Name") \o Opt(p, "Selectors") \o Opt(p, "InterestLifetime")
               \o Opt(p, "WatchTimeout") \o Opt(p, "MaxInterestNum")
               \o Opt(p, "StartBlockId"), p,
             {"Name"} \cup {"Selectors"} \cup {"InterestLifetime"} \cup {"WatchTimeout"}
               \cup {"MaxInterestNum"} \cup {"StartBlockId"})
  BY <1>4, OptIsWire, ConcatIsWire
<1>6. IsWire(Opt(p, "Name") \o Opt(p, "Selectors") \o Opt(p, "InterestLifetime")
               \o Opt(p, "WatchTimeout") \o Opt(p, "MaxInterestNum")
               \o Opt(p, "StartBlockId") \o Opt(p, "EndBlockId"), p,
             {"Name"} \cup {"Selectors"} \cup {"InterestLifetime"} \cup {"WatchTimeout"}
               \cup {"MaxInterestNum"} \cup {"StartBlockId"} \cup {"EndBlockId"})
  BY <1>5, OptIsWire, ConcatIsWire
<1>7. IsWire(EncodeParameter(p), p,
             {"Name"} \cup {"Selectors"} \cup {"InterestLifetime"} \cup {"WatchTimeout"}
               \cup {"MaxInterestNum"} \cup {"StartBlockId"} \cup {"EndBlockId"}
               \cup {"ProcessId"})
  BY <1>6, OptIsWire, ConcatIsWire DEF EncodeParameter
<1>8. Parameter = {"Name"} \cup {"Selectors"} \cup {"InterestLifetime"} \cup {"WatchTimeout"}
                    \cup {"MaxInterestNum"} \cup {"StartBlockId"} \cup {"EndBlockId"}
                    \cup {"ProcessId"}
  BY DEF Parameter
<1> QED
  BY <1>7, <1>8

(* The encoding of a response is a wire form of all its fields. *)
LEMMA EncodeResponseIsWire ==
  ASSUME NEW r
  PROVE  IsWire(EncodeResponse(r), r, Response)
<1>1. IsWire(Opt(r, "ProcessId") \o Opt(r, "StatusCode"), r, {"ProcessId"} \cup {"StatusCode"})
  BY OptIsWire, ConcatIsWire
<1>2. IsWire(Opt(r, "ProcessId") \o Opt(r, "StatusCode") \o Opt(r, "StartBlockId"), r,
             {"ProcessId"} \cup {"StatusCode"} \cup {"StartBlockId"})
  BY <1>1, OptIsWire, ConcatIsWire
<1>3. IsWire(Opt(r, "ProcessId") \o Opt(r, "StatusCode") \o Opt(r, "StartBlockId")
               \o Opt(r, "EndBlockId"), r,
             {"ProcessId"} \cup {"StatusCode"} \cup {"StartBlockId"} \cup {"EndBlockId"})
  BY <1>2, OptIsWire, ConcatIsWire
<1>4. IsWire(Opt(r, "ProcessId") \o Opt(r, "StatusCode") \o Opt(r, "StartBlockId")
               \o Opt(r, "EndBlockId") \o Opt(r, "InsertNum"), r,
             {"ProcessId"} \cup {"StatusCode"} \cup {"StartBlockId"} \cup {"EndBlockId"}
               \cup {"InsertNum"})
  BY <1>3, OptIsWire, ConcatIsWire
<1>5. IsWire(EncodeResponse(r), r,
             {"ProcessId"} \cup {"StatusCode"} \cup {"StartBlockId"} \cup {"EndBlockId"}
               \cup {"InsertNum"} \cup {"DeleteNum"})
  BY <1>4, OptIsWire, ConcatIsWire DEF EncodeResponse
<1>6. Response = {"ProcessId"} \cup {"StatusCode"} \cup {"StartBlockId"} \cup {"EndBlockId"}
                   \cup {"InsertNum"} \cup {"DeleteNum"}
  BY DEF Response
<1> QED
  BY <1>5, <1>6

(* RepoCommandParameter: decoding the encoding gives back every field that was set and
   no other, for every set of fields and any values. *)
THEOREM ParameterRoundTrip ==
  ASSUME NEW V, NEW D \in SUBSET Parameter, NEW p \in [D -> V]
  PROVE  DecodeParameter(EncodeParameter(p)) = p
  BY EncodeParameterIsWire, DecodeWire DEF DecodeParameter

(* RepoCommandResponse: the same, and the decoder accepts what the encoder made. *)
THEOREM ResponseRoundTrip ==
  ASSUME NEW V, NEW D \in SUBSET Response, NEW r \in [D -> V], CanEncode(r)
  PROVE  CanDecode(EncodeResponse(r)) /\ DecodeResponse(EncodeResponse(r)) = r
<1>1. DecodeResponse(EncodeResponse(r)) = r
  BY EncodeResponseIsWire, DecodeWire DEF DecodeResponse
<1>2. CanDecode(EncodeResponse(r))
  BY EncodeResponseIsWire DEF CanDecode, CanEncode, IsWire, Response
<1> QED
  BY <1>1, <1>2

-----------------------------------------------------------------------------
(* A wire form that is kept is that of the fields. *)
IsFresh(o) == o.wire \in {NoWire, EncodeParameter(o.fields)}

(* However setters and wireEncode calls alternate on an object, what wireEncode returns
   decodes to the fields that are set now: the copy that is kept is never stale. *)
THEOREM EncodedIsCurrent ==
  ASSUME NEW V, NEW D \in SUBSET Parameter, NEW fields \in [D -> V], NEW w,
         IsFresh([fields |-> fields, wire |-> w])
  PROVE  LET o == [fields |-> fields, wire |-> w] IN
         /\ IsFresh(New)
         /\ \A t, v : IsFresh(SetField(o, t, v))
         /\ IsFresh(EncodedParameter(o))
         /\ DecodeParameter(EncodedParameter(o).wire) = fields
<1> DEFINE o == [fields |-> fields, wire |-> w]
<1>1. o.fields = fields /\ o.wire = w /\ w \in {NoWire, EncodeParameter(fields)}
  BY DEF IsFresh
<1>2. IsFresh(New) /\ \A t, v : IsFresh(SetField(o, t, v))
  BY DEF IsFresh, New, SetField
<1>3. EncodedParameter(o).wire = EncodeParameter(fields) /\ EncodedParameter(o).fields = fields
  BY <1>1 DEF EncodedParameter
<1> QED
  BY <1>2, <1>3, ParameterRoundTrip DEF IsFresh
=============================================================================
