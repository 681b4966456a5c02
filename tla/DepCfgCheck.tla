---------------------------- MODULE DepCfgCheck ----------------------------
(***************************************************************************)
(* parseDepcfg over every settings document that gives the keys of        *)
(* VaryKeys a value, a wrongly typed value or nothing (every other key is *)
(* absent), and every failing metakv or cluster call, checked against the *)
(* settings table of spec 4.1.                                            *)
(***************************************************************************)
EXTENDS Integers, Sequences, SequencesExt, DepCfg

CONSTANTS VaryKeys

BoolSettings   == {"cleanup_timers", "enable_recursive_mutation"}
StringSettings == {"dcp_stream_boundary", "log_level", "rbacuser", "rbacpass", "app_log_dir"}

\* The JSON values tried for a key.
Candidates(k) ==
    {Absent, WrongType} \cup
      (CASE k \in BoolSettings         -> BOOLEAN
         [] k = "log_level"            -> {"INFO", "DEBUG"}
         [] k \in StringSettings       -> {"s"}
         [] OTHER                      -> {0, 7})

FetchErrors == {"none", "settings", "unmarshal", "localHost", "kvNodes"}

\* The documents that try every candidate for the keys of ks and leave the
\* other keys absent (built key by key: the candidates differ in type).
RECURSIVE Documents(_)
Documents(ks) ==
    IF ks = {} THEN {[k \in ToSet(SettingKeys) |-> Absent]}
    ELSE LET k == CHOOSE x \in ks : TRUE
         IN  {[d EXCEPT ![k] = v] : d \in Documents(ks \ {k}), v \in Candidates(k)}

VARIABLES settings, fetchErr

Init ==
    /\ settings \in Documents(VaryKeys)
    /\ fetchErr \in FetchErrors

Next == UNCHANGED <<settings, fetchErr>>

Load == parseDepcfg(settings, fetchErr)

\* A document whose every value has the type its setting expects and that
\* names the required rbacuser and rbacpass.
WellTyped == \A k \in ToSet(SettingKeys) :
                 settings[k] # WrongType /\ (k \in RequiredSettings => settings[k] # Absent)

\* Spec 4.1: an absent setting takes its default, so a well-typed document
\* with rbacuser and rbacpass loads unless a metakv or cluster call fails
\* or worker_count is not positive; parseDepcfg never panics on it.
WellTypedSettingsLoad ==
    WellTyped /\ fetchErr = "none" /\ Load.cfg["worker_count"] > 0 => Load.outcome = "ok"

=============================================================================
