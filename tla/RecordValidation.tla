-------------------------- MODULE RecordValidation --------------------------
(***************************************************************************)
(* What apps/records/validation.py accepts.  A schema is the object_types  *)
(* section of one configuration version: it maps the keys of the object    *)
(* types it defines to their fields.  Record data is the JSON object a     *)
(* record stores; a key that is missing, null, "" or [] reads as Blank.    *)
(*                                                                         *)
(* The eleven field types fall into five kinds of check.  "text" stands    *)
(* for long_text, url and file_ref (any string); "number" for date,        *)
(* boolean and user_ref (a value of one scalar class).                     *)
(***************************************************************************)
EXTENDS FiniteSets

CONSTANTS
  ObjectTypes,   \* keys an object type may have
  FieldKeys,     \* keys a field may have
  Texts,         \* strings that are neither an option nor a record id
  Numbers,       \* values of the scalar types
  Options,       \* strings that may be listed as choices
  Refs,          \* ids of stored records
  RefType,       \* the object type of each of those records
  NoTarget,      \* a reference field without target_object_type
  OddTarget,     \* a target_object_type that is no string
  Blank          \* None, "" or []

ASSUME RefTypeAssumption == RefType \in [Refs -> ObjectTypes]

ASSUME ValueClasses ==
  /\ Blank \notin Texts \cup Numbers \cup Options \cup Refs
  /\ Numbers \cap (Texts \cup Options \cup Refs) = {}
  /\ {NoTarget, OddTarget} \cap ObjectTypes = {} /\ NoTarget # OddTarget

-----------------------------------------------------------------------------
(* Definitions and data.                                                   *)

FieldTypes == {"text", "number", "choice", "multi_choice", "record_ref"}

Flags == {"required", "unique"}

\* A flag that is set is the literal true, or a value that only counts as true
\* (1, "yes"): the loose ones.  options holds the choices listed as plain
\* strings, valueOptions those listed as objects {"value": ...}; target is
\* target_object_type, otherTarget is reference_target_type.
Field == [type : FieldTypes, required : BOOLEAN, unique : BOOLEAN, loose : SUBSET Flags,
          options : SUBSET Options, valueOptions : SUBSET Options,
          target : ObjectTypes \cup {NoTarget, OddTarget}, otherTarget : ObjectTypes \cup {NoTarget}]

ObjectType == UNION {[K -> Field] : K \in SUBSET FieldKeys}

Schema == UNION {[T -> ObjectType] : T \in SUBSET ObjectTypes}

Strings == Texts \cup Options \cup Refs

\* A list of chosen options reads as the set of its items.
Values == {Blank} \cup Strings \cup Numbers \cup {items : items \in SUBSET Options}

Data == [FieldKeys -> Values]

-----------------------------------------------------------------------------
(* Validation.                                                             *)

IsBlank(v) == v \in {Blank, {}}

ChoiceValues(field) == field.options \cup field.valueOptions

ValidFieldValue(field, v) ==
  \/ field.type = "text" /\ v \in Strings
  \/ field.type = "number" /\ v \in Numbers
  \/ field.type = "choice" /\ v \in ChoiceValues(field)
  \/ field.type = "multi_choice" /\ \E items \in SUBSET ChoiceValues(field) : v = items
  \/ /\ field.type = "record_ref"
     /\ v \in Refs
     /\ field.target \in {NoTarget, RefType[v]}

\* The checks that look at the value alone: required, then the type.
FieldAccepts(field, v) ==
  IF IsBlank(v) THEN ~field.required ELSE ValidFieldValue(field, v)

\* A value already stored by another record of the type; others is the set of
\* data objects of those records.
DuplicateUniqueValue(f, v, others) == \E d \in others : d[f] = v

\* The value of a field that is declared passes all checks.
ValidField(field, f, data, others) ==
  /\ FieldAccepts(field, data[f])
  /\ field.unique /\ ~IsBlank(data[f]) => ~DuplicateUniqueValue(f, data[f], others)

\* validate_record_data of an object type that the schema defines: keys that it
\* does not declare are not looked at, whatever is stored under them.
ValidRecordData(fields, data, others) ==
  \A f \in DOMAIN fields : ValidField(fields[f], f, data, others)

\* The fields it reports.
InvalidFields(fields, data, others) ==
  {f \in DOMAIN fields : ~ValidField(fields[f], f, data, others)}
=============================================================================
