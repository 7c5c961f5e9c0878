----------------------------- MODULE Credentials -----------------------------
(***************************************************************************)
(* The credentials of a Jasmin user on their way round: from Jasmin into   *)
(* the row (from_jasmin_mt_creds, from_jasmin_smpp_creds), from the row    *)
(* into the form that edits the user, and from the form through the row    *)
(* back to Jasmin (to_jsmin_mt_creds, to_jasmin_smpp_creds).  Sources:     *)
(* jasmin/utils/utils.py, jasmin/views/forms.py, jasmin/views/sub_forms.py.*)
(*                                                                         *)
(* A credential is a function from its fields to their values, the         *)
(* sections side by side; one in a row or a form may lack some.  Numbers   *)
(* are counted in tenths, so that what keeps whole numbers only can be     *)
(* told from what keeps fractions.                                         *)
(***************************************************************************)
EXTENDS Integers

CONSTANTS
  Pattern,      \* patterns of the value filters, as the form shows them
  AnyText,      \* the pattern ".*"
  Address,      \* source addresses
  Unlimited     \* a quota, or a default, that is not set (None)

ASSUME CredentialsAssumption ==
  AnyText \in Pattern /\ Unlimited \notin Pattern \cup Address \cup Int

Flags   == {"http_send", "http_balance", "http_rate", "http_bulk", "smpps_send",
            "http_long_content", "set_dlr_level", "http_set_dlr_method",
            "set_source_address", "set_priority", "set_validity_period",
            "set_schedule_delivery_time", "set_hex_content", "bind"}
Filters == {"destination_address", "filter_source_address", "priority",
            "validity_period", "content"}
Amounts == {"balance", "http_throughput", "smpps_throughput"}
Whole   == {"submit_sm_count", "early_decrement_balance_percent", "max_bindings"}
Field   == Flags \cup Filters \cup Amounts \cup Whole \cup {"default_source_address"}

\* What Jasmin (external) holds for a field, and a credential that nobody has set.
HeldFor(f) ==
  CASE f \in Flags   -> BOOLEAN
    [] f \in Filters -> Pattern
    [] f \in Amounts -> {Unlimited, 0, 5, 10}
    [] f \in Whole   -> {Unlimited, 0, 10}
    [] OTHER         -> Address \cup {Unlimited}
Fresh == [f \in Field |-> IF f \in Flags THEN TRUE
                          ELSE IF f \in Filters THEN AnyText ELSE Unlimited]

-----------------------------------------------------------------------------

\* from_jasmin_mt_creds, from_jasmin_smpp_creds: every field Jasmin has; a filter is its
\* pattern, or any text.
FromJasmin(c) ==
  [f \in Field |-> IF f \in Filters /\ c[f] = Unlimited THEN AnyText ELSE c[f]]

\* A bound number field without fractions takes nothing but whole numbers; a blank one is
\* None, a blank pattern stays blank.
Typed(f, v) == f \in Whole /\ v # Unlimited => v % 10 = 0

\* JasminUserForm.save: the credential is made of the sub-forms anew.  It has no defaults.
FormFields == Field \ {"default_source_address"}
FormSaved(typed) == [f \in FormFields |-> typed[f]]

\* The form as it is shown for a row that was synced, which has all the fields.
Shown(row) == [f \in FormFields |-> row[f]]

\* Mutant: zero is taken for not set.
Coerced_Falsy(f, v) ==
  IF v = 0 THEN Unlimited ELSE IF f \in Whole /\ v # Unlimited THEN (v \div 10) * 10 ELSE v

\* _coerce_mt_quota: float or int, and None stays.
Coerced(f, v) == IF f \in Whole /\ v # Unlimited THEN (v \div 10) * 10 ELSE v

\* to_jsmin_mt_creds, to_jasmin_smpp_creds: a new credential, then what the row has.
ToJasmin(row) ==
  [f \in Field |-> IF f \notin DOMAIN row THEN Fresh[f]
                   ELSE IF f \in Amounts \cup Whole THEN Coerced(f, row[f]) ELSE row[f]]

=============================================================================
