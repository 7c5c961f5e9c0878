----------------------------- MODULE Conversions -----------------------------
(***************************************************************************)
(* The configuration of an SMPP connector, column by column: what the form *)
(* offers, what is pushed to Jasmin (to_smpp_client_config) and what an    *)
(* import makes of Jasmin's configuration (from_smpp_client_config).       *)
(* Sources: jasmin/models.py, jasmin/utils/utils.py.                       *)
(*                                                                         *)
(* Columns hold the integers of their choices.  On Jasmin's side a coded   *)
(* setting is a member of an enumeration of smpp.pdu, a count an integer.  *)
(***************************************************************************)
EXTENDS Naturals

CONSTANTS
  Counts,   \* values tried for the columns that hold a count
  KeyError  \* a column with no entry in the table of its codes

ASSUME ConversionsAssumption == Counts \subseteq Nat /\ KeyError \notin Nat

TonFields == {"source_addr_ton", "dest_addr_ton", "addressTon"}
NpiFields == {"source_addr_npi", "dest_addr_npi", "addressNpi"}
CodedFields == TonFields \cup NpiFields
                 \cup {"priority_flag", "registered_delivery", "replace_if_present_flag"}

\* Columns that hold a number, with the default of from_smpp_client_config.
DefaultOf ==
  [port |-> 2775, log_level |-> 20, sessionInitTimerSecs |-> 30, enquireLinkTimerSecs |-> 30,
   inactivityTimerSecs |-> 300, responseTimerSecs |-> 120, pduReadTimerSecs |-> 10,
   dlr_expiry |-> 86400, reconnectOnConnectionLossDelay |-> 10,
   reconnectOnConnectionFailureDelay |-> 10, requeue_delay |-> 120,
   submit_sm_throughput |-> 1, data_coding |-> 0, dlr_msg_id_bases |-> 0]
NumberFields == DOMAIN DefaultOf

-----------------------------------------------------------------------------
(* The choices of the form, by the name they show, and the tables by which *)
(* they are pushed.                                                        *)

\* A dictionary, from its items.
Dict(items) == [k \in {x[1] : x \in items} |-> (CHOOSE x \in items : x[1] = k)[2]]

TonChoices == Dict({<<0, "UNKNOWN">>, <<1, "INTERNATIONAL">>, <<2, "NATIONAL">>,
                    <<3, "NETWORK_SPECIFIC">>, <<4, "SUBSCRIBER_NUMBER">>,
                    <<5, "ALPHANUMERIC">>, <<6, "ABBREVIATED">>})
TonValues == TonChoices

NpiChoices == Dict({<<0, "UNKNOWN">>, <<1, "ISDN">>, <<2, "DATA">>, <<3, "TELEX">>,
                    <<4, "LAND_MOBILE">>, <<5, "NATIONAL">>, <<6, "PRIVATE">>,
                    <<10, "ERMES">>, <<14, "INTERNET">>, <<18, "WAP_CLIENT_ID">>})
NpiValues == Dict({<<0, "UNKNOWN">>, <<1, "ISDN">>, <<3, "DATA">>, <<4, "TELEX">>,
                   <<5, "LAND_MOBILE">>, <<8, "NATIONAL">>, <<9, "PRIVATE">>,
                   <<10, "ERMES">>, <<14, "INTERNET">>, <<18, "WAP_CLIENT_ID">>})

PriorityValues == Dict({<<0, "LEVEL_0">>, <<1, "LEVEL_1">>, <<2, "LEVEL_2">>,
                        <<3, "LEVEL_3">>})
ReplaceValues  == Dict({<<0, "DO_NOT_REPLACE">>, <<1, "REPLACE">>})

ReceiptChoices == Dict({<<1, "NONE">>, <<2, "REQUESTED">>, <<3, "FOR_FAILURE">>})
ReceiptValues  == Dict({<<0, "NONE">>, <<1, "REQUESTED">>, <<2, "FOR_FAILURE">>})

ChoicesOf(f) ==
  CASE f \in TonFields -> TonChoices [] f \in NpiFields -> NpiChoices
    [] f = "priority_flag" -> PriorityValues
    [] f = "replace_if_present_flag" -> ReplaceValues
    [] f = "registered_delivery" -> ReceiptChoices

TableOf(f) ==
  CASE f \in TonFields -> TonValues [] f \in NpiFields -> NpiValues
    [] f = "priority_flag" -> PriorityValues
    [] f = "replace_if_present_flag" -> ReplaceValues
    [] f = "registered_delivery" -> ReceiptValues

-----------------------------------------------------------------------------
(* Both ways.                                                              *)

\* to_smpp_client_config: a coded column is looked up as a string in its table, a number
\* goes as it is.
Push(f, column) ==
  IF f \in NumberFields THEN column
  ELSE IF column \in DOMAIN TableOf(f) THEN TableOf(f)[column] ELSE KeyError

\* Mutant: every code moves by one.
Step_All(f) == 1

\* _enum_int, and _registered_delivery with its step of one.
KeyIn(table, value) == CHOOSE k \in DOMAIN table : table[k] = value
Step(f) == IF f = "registered_delivery" THEN 1 ELSE 0

\* from_smpp_client_config.  The default of a number is taken for a missing value and,
\* by `or`, for zero.
Pull(f, setting) ==
  IF f \in NumberFields THEN (IF setting = 0 THEN DefaultOf[f] ELSE setting)
  ELSE KeyIn(TableOf(f), setting) + Step(f)

\* What the form shows for a column.
ShownAs(f, column) ==
  IF column \in DOMAIN ChoicesOf(f) THEN ChoicesOf(f)[column] ELSE "NO_CHOICE"

\* The NPIs whose choices and whose table have different codes.
Renumbered == {"DATA", "TELEX", "LAND_MOBILE", "NATIONAL", "PRIVATE"}

\* What Jasmin can hold for a setting.
SettingsOf(f) ==
  IF f \in NumberFields THEN Counts ELSE {TableOf(f)[k] : k \in DOMAIN TableOf(f)}

=============================================================================
