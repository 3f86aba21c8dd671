-------------------------------- MODULE Form --------------------------------
(***************************************************************************)
(* A form that is built from the JSON schema of a connector's entries, and *)
(* the checks the API makes of what the form sends.                        *)
(*                                                                         *)
(*   packages/ui/src/lib/components/FormFromSchema.svelte                  *)
(*   packages/connectors/src/manual-freeview.ts, manual-satellite.ts       *)
(*   services/api/src/routes/entries.ts                                    *)
(*                                                                         *)
(* A property is named by its path, a tuple; a path of two lies in the     *)
(* group of its first.  A value is tagged with its JavaScript type; what   *)
(* is typed for a number counts tenths, so that 5.5 is no integer; a text  *)
(* that new Date takes for an instant is that instant, as Calendar has it. *)
(***************************************************************************)
EXTENDS Calendar, SequencesExt

CONSTANT Instants   \* bound: the instants that are typed

Text(s)   == [as |-> "string",  text |-> s,  tenths |-> 0]
Typed(n)  == [as |-> "string",  text |-> "digits", tenths |-> n]
Dated(t)  == [as |-> "string",  text |-> "date",   tenths |-> t]
Number(n) == [as |-> "number",  text |-> "", tenths |-> n]
Flag(b)   == [as |-> "boolean", text |-> "", tenths |-> IF b THEN 1 ELSE 0]
Blank     == Text("")

\* What an input of the form holds for a leaf of this type.
Fits(type, v) ==
  /\ type = "boolean" => v \in {Flag(FALSE), Flag(TRUE)}
  /\ type \in {"integer", "number"} => v = Blank \/ (v.tenths \in Int /\ v = Typed(v.tenths))
  /\ type \notin {"boolean", "integer", "number"} =>
       v = Text(v.text) \/ (v.tenths \in Int /\ v = Dated(v.tenths))

\* schema.type has the leaves, schema.options those that are selected from a
\* list, schema.required the leaves and the groups that are required.
Groups(path) == {SubSeq(path, 1, k) : k \in 1 .. Len(path) - 1}
Below(schema, group) == {p \in DOMAIN schema.type : group \in Groups(p)}

(***************************************************************************)
(* The form.                                                               *)
(***************************************************************************)
\* createFlat and initSelectDefaults: the empty form, each list at its first
\* option, unless it has none.
EmptyForm(schema) ==
  [p \in DOMAIN schema.type |->
     IF schema.type[p] = "boolean" THEN Flag(FALSE)
     ELSE IF p \in DOMAIN schema.options /\ schema.options[p] # <<>>
          THEN Text(schema.options[p][1])
          ELSE Blank]

\* coerce: what was typed for a number becomes one.
Coerce(schema, flat) ==
  [p \in DOMAIN flat |->
     IF schema.type[p] \in {"integer", "number"} /\ flat[p] # Blank
     THEN Number(flat[p].tenths) ELSE flat[p]]

\* A slip: zero counts as untouched.
TouchedByTruth(schema, data, group) ==
  \E p \in Below(schema, group) : data[p].text # "" \/ data[p].tenths # 0

\* hasTouchedDescendant
Touched(schema, data, group) ==
  \E p \in Below(schema, group) :
    \/ data[p].as = "number"
    \/ data[p] = Flag(TRUE)
    \/ data[p].as = "string" /\ data[p] # Blank

Kept(schema, data, p) ==
  p \in schema.required \/ schema.type[p] = "boolean" \/ data[p] # Blank

\* buildNested, coerce and omitOptionalBlankFields, which descends into a group
\* only if it is required or touched.
Payload(schema, flat) ==
  LET data == Coerce(schema, flat)
      sent == {p \in DOMAIN data :
                 /\ Kept(schema, data, p)
                 /\ \A g \in Groups(p) : g \in schema.required \/ Touched(schema, data, g)}
  IN  [p \in sent |-> data[p]]

(***************************************************************************)
(* The entry schemas.                                                      *)
(***************************************************************************)
NodePath   == <<"hierarchyNodeId">>
StartPath  == <<"period", "start">>
EndPath    == <<"period", "end">>
Households == <<"householdsReached">>
Method     == <<"estimationMethod">>
BarbWeek   == <<"barbWeekNumber">>
Document   == <<"sourceDocumentUrl">>
Notes      == <<"notes">>

EntryTypes(optional) ==
  [p \in {NodePath, StartPath, EndPath, Households, Method, Notes} \cup optional |->
     IF p \in {Households, BarbWeek} THEN "integer" ELSE "string"]
EntryRequired == {NodePath, <<"period">>, StartPath, EndPath, Households, Method}

Methods == [manual_freeview  |-> <<"barb", "internal_estimate">>,
            manual_satellite |-> <<"panel", "operator_report", "internal_estimate">>]

\* The schema of a source's form on a page that lists these nodes.
EntrySchema(source, nodes) ==
  [type |-> EntryTypes(IF source = "manual_freeview" THEN {BarbWeek} ELSE {Document}),
   options |-> [p \in {NodePath, Method} |-> IF p = NodePath THEN nodes ELSE Methods[source]],
   required |-> EntryRequired]

WholeNumber(v) == v.as = "number" /\ v.tenths % 10 = 0

IsDate(v)  == v.as = "string" /\ v.text = "date"
Instant(v) == v.tenths

\* A URL, and a text of more than 1000 characters.
ReportURL == "https://report"
TooLong   == "over 1000 characters"

\* The fields of entrySchema.
ValidLeaf(source, p, v) ==
  /\ p = NodePath => v.as = "string" /\ v # Blank
  /\ p \in {StartPath, EndPath} => IsDate(v)
  /\ p = Households => WholeNumber(v) /\ v.tenths > 0
  /\ p = Method => v.as = "string" /\ v.text \in ToSet(Methods[source])
  /\ p = BarbWeek => WholeNumber(v) /\ v.tenths \in 10 .. 530
  /\ p = Document => v = Text(ReportURL)
  /\ p = Notes => v.as = "string" /\ v.text # TooLong

\* safeParse: no other fields, none missing, the period not turned round.
Parses(source, payload) ==
  LET schema == EntrySchema(source, <<>>)
  IN  /\ DOMAIN payload \subseteq DOMAIN schema.type
      /\ schema.required \cap DOMAIN schema.type \subseteq DOMAIN payload
      /\ \A p \in DOMAIN payload : ValidLeaf(source, p, payload[p])
      /\ Instant(payload[StartPath]) < Instant(payload[EndPath])

\* What is taken for one week or for one month.
OnePeriods == {p \in Instants \X Instants : InferGranularity(p[1], p[2]) # "none"}

\* A slip: a week may begin on any day.
OnePeriodAnyWeek(payload) ==
  LET start == Instant(payload[StartPath])
      end   == Instant(payload[EndPath])
  IN  \/ Hours(start) = 0 /\ end = SetDate(start, Date(start) + 7)
      \/ <<start, end>> \in OnePeriods

OnePeriod(payload) ==
  <<Instant(payload[StartPath]), Instant(payload[EndPath])>> \in OnePeriods

Accepts(source, payload) == Parses(source, payload) /\ OnePeriod(payload)
=============================================================================
