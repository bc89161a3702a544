------------------------------- MODULE Config -------------------------------
(***************************************************************************)
(* portal_config_create_from_environment(): settings out of environment    *)
(* variables.  A variable that is empty is treated as one that is not set. *)
(***************************************************************************)
EXTENDS Numerals

Environment ==
  [database_url : BOOLEAN,                             \* set and not empty
   port : Numeral \cup {NoText},
   token_ttl : Numeral \cup {NoText},
   confirmation_ttl : Numeral \cup {NoText},
   expose : {NoText, "1", "true", "yes", "other"}]     \* in any case of letters

\* Faulty variant: the lower end of the range is left out.
ParseIntegerUpTo(t, fallback, minimum, maximum) ==
  IF t # NoText /\ Whole(t) /\ FitsULong(t.number) /\ ULong(t.number) <= maximum
  THEN ULong(t.number) ELSE fallback

\* config_parse_integer()
ParseInteger(t, fallback, minimum, maximum) ==
  IF t # NoText /\ Whole(t) /\ FitsULong(t.number)
       /\ ULong(t.number) \in minimum..maximum
  THEN ULong(t.number) ELSE fallback

\* config_parse_boolean(), with config_ascii_equals_ignore_case()
ParseBoolean(t, fallback) ==
  IF t = NoText THEN fallback ELSE t \in {"1", "true", "yes"}

\* The upper ends of the ranges.
MaxPort == 65535
MaxTokenHours == 2160
MaxConfirmationHours == 720

Settings(environment) ==
  [port |-> ParseInteger(environment.port, 8080, 1, MaxPort),
   token_ttl |-> ParseInteger(environment.token_ttl, 168, 1, MaxTokenHours),
   confirmation_ttl |->
     ParseInteger(environment.confirmation_ttl, 24, 1, MaxConfirmationHours),
   expose |-> ParseBoolean(environment.expose, FALSE)]

\* A number in its range, written plainly, is the setting.
Kept(t, value, maximum) ==
  t # NoText /\ Whole(t) /\ t.number \in 1..maximum => value = t.number

\* The settings the rest of the program relies on: a port that fits 16 bits, a
\* lifetime of at least an hour, whatever the texts are, negative numbers that
\* strtoul() wraps and numbers beyond unsigned long included; and no token
\* exposed unless that was asked for.
Usable(environment, config) ==
  /\ config.port \in 1..MaxPort
  /\ config.token_ttl \in 1..MaxTokenHours
  /\ config.confirmation_ttl \in 1..MaxConfirmationHours
  /\ (config.expose <=> environment.expose \in {"1", "true", "yes"})
  /\ Kept(environment.port, config.port, MaxPort)
  /\ Kept(environment.token_ttl, config.token_ttl, MaxTokenHours)
  /\ Kept(environment.confirmation_ttl, config.confirmation_ttl, MaxConfirmationHours)

=============================================================================
