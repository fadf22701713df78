----------------------------- MODULE ConfigDiff -----------------------------
(***************************************************************************)
(* The comparison of a draft with the active configuration that decides    *)
(* whether a publish is destructive (apps/config_registry/services.py,     *)
(* _breaking_changes_between), and the reference it is checked against:    *)
(* what a schema change does to records that are already stored.           *)
(***************************************************************************)
EXTENDS RecordValidation

FieldCodes == {"field_type_changed", "field_required_enabled", "field_unique_enabled",
               "field_option_removed", "field_reference_target_changed"}

\* A flag that is the literal true.
IsTrue(field, flag) == field[flag] /\ flag \notin field.loose

\* Only options written as strings are compared (_field_options).
ComparedOptions(field) == field.options

\* The first of the two targets that is set, if it is a string.
ComparedTarget(field) ==
  CASE field.target = NoTarget -> field.otherTarget
    [] field.target = OddTarget -> NoTarget
    [] OTHER -> field.target

FieldCodeApplies(code, cur, new) ==
  \/ code = "field_type_changed" /\ cur.type # new.type
  \/ code = "field_required_enabled" /\ ~IsTrue(cur, "required") /\ IsTrue(new, "required")
  \/ code = "field_unique_enabled" /\ ~IsTrue(cur, "unique") /\ IsTrue(new, "unique")
  \/ code = "field_option_removed" /\ ~(ComparedOptions(cur) \subseteq ComparedOptions(new))
  \/ code = "field_reference_target_changed" /\ ComparedTarget(cur) # ComparedTarget(new)

SingleFieldBreakingChanges(f, cur, new) ==
  {<<f, code>> : code \in {c \in FieldCodes : FieldCodeApplies(c, cur, new)}}

\* Mutation of FieldBreakingChanges: fields the draft adds are not looked at.
CommonFieldBreakingChanges(cur, new) ==
  {<<f, "field_removed">> : f \in DOMAIN cur \ DOMAIN new}
  \cup UNION {SingleFieldBreakingChanges(f, cur[f], new[f]) :
                f \in DOMAIN cur \cap DOMAIN new}

FieldBreakingChanges(cur, new) ==
  {<<f, "field_removed">> : f \in DOMAIN cur \ DOMAIN new}
  \cup {<<f, "required_field_added">> :
          f \in {g \in DOMAIN new \ DOMAIN cur : IsTrue(new[g], "required")}}
  \cup UNION {SingleFieldBreakingChanges(f, cur[f], new[f]) :
                f \in DOMAIN cur \cap DOMAIN new}

BreakingChanges(cur, new) ==
  {<<t, "object_type_removed">> : t \in DOMAIN cur \ DOMAIN new}
  \cup UNION {{<<t, c>> : c \in FieldBreakingChanges(cur[t], new[t])} :
                t \in DOMAIN cur \cap DOMAIN new}

Destructive(cur, new) == BreakingChanges(cur, new) # {}

\* What both look at: the keys of types, the keys of fields, and fields.
DefinesFields(schema) ==
  /\ DOMAIN schema \subseteq ObjectTypes
  /\ \A t \in DOMAIN schema : DOMAIN schema[t] \subseteq FieldKeys
  /\ \A t \in DOMAIN schema : \A f \in DOMAIN schema[t] : schema[t][f] \in Field

-----------------------------------------------------------------------------
(* The reference: what a new definition of a type does to a stored record.  *)
(* A record keeps whatever it was given under keys that its type does not   *)
(* declare, or no longer does (validate_record_data ignores them, an update *)
(* of the record writes them back): such values are first looked at when a  *)
(* publish declares the key.                                                *)

\* Comparison and validation read the definition of the field in the same way.
\* They do not if a flag only counts as true, a choice is written as an object,
\* or the target is not a string under target_object_type.
PlainField(field) ==
  /\ field.loose = {}
  /\ field.valueOptions = {}
  /\ ComparedTarget(field) = field.target

\* The fields of a type at which the comparison cannot see what becomes of this
\* data: values that are already there under a key that is new, and definitions
\* that it reads in another way than the validation.
UnseenFields(cur, new, data) ==
  {f \in DOMAIN new \ DOMAIN cur : ~IsBlank(data[f]) \/ ~PlainField(new[f])}
  \cup {f \in DOMAIN new \cap DOMAIN cur : ~PlainField(cur[f]) \/ ~PlainField(new[f])}

\* A record that was valid becomes invalid at no other field.  One other record
\* of the type is enough: a duplicate is a pair of records.
KeepsSeenFieldsValid(cur, new) ==
  \A data \in Data, other \in Data :
    ValidRecordData(cur, data, {other}) =>
      InvalidFields(new, data, {other}) \subseteq UnseenFields(cur, new, data)

KeepsRecordsValid(cur, new) ==
  \A t \in DOMAIN cur : t \in DOMAIN new /\ KeepsSeenFieldsValid(cur[t], new[t])
=============================================================================
