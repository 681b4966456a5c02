------------------------------- MODULE DepCfg -------------------------------
(***************************************************************************)
(* Producer.parseDepcfg (producer part_002): after the application's      *)
(* config blob is read (retried until it succeeds) and the HTTP auth is   *)
(* fetched (also retried), the settings document is read from metakv and  *)
(* decoded, and every recognised setting is taken from it in a fixed      *)
(* order: a present value by a type assertion, an absent one by its       *)
(* default.  Then log_level is asserted once more, worker_count checked,  *)
(* and the local and KV node addresses looked up.                         *)
(*                                                                         *)
(* A settings document maps each key to Absent, WrongType (a JSON value   *)
(* of another type than the assertion expects: the assertion panics) or   *)
(* a value.  JSON numbers are taken to be integral, so int(val.(float64)) *)
(* keeps them unchanged.                                                  *)
(***************************************************************************)
EXTENDS Integers, Sequences, SequencesExt

CONSTANTS Absent, WrongType

\* The settings parseDepcfg reads, in the order it reads them.
SettingKeys ==
    << "cleanup_timers", "dcp_stream_boundary", "log_level", "tick_duration",
       "worker_count", "timer_worker_pool_size", "sock_batch_size",
       "skip_timer_threshold", "rbacuser", "rbacpass", "lcb_inst_capacity",
       "enable_recursive_mutation", "deadline_timeout",
       "vb_ownership_giveup_routine_count", "vb_ownership_takeover_routine_count",
       "execution_timeout", "fuzz_offset", "cpp_worker_thread_count", "memory_quota",
       "xattr_doc_timer_entry_prune_threshold", "app_log_dir", "app_log_max_size",
       "app_log_max_files", "curl_timeout", "worker_queue_cap" >>

\* Settings without a default: absence is an error.
RequiredSettings == {"rbacuser", "rbacpass"}

\* The default parseDepcfg assigns when a setting is absent (app_log_dir:
\* the Producer's eventing directory).
SettingDefault ==
    [ cleanup_timers |-> FALSE, dcp_stream_boundary |-> "everything", log_level |-> "INFO",
      tick_duration |-> 5000, worker_count |-> 3, timer_worker_pool_size |-> 3,
      sock_batch_size |-> 100, skip_timer_threshold |-> 86400, lcb_inst_capacity |-> 5,
      enable_recursive_mutation |-> FALSE, deadline_timeout |-> 2,
      vb_ownership_giveup_routine_count |-> 3, vb_ownership_takeover_routine_count |-> 3,
      execution_timeout |-> 1, fuzz_offset |-> 30, cpp_worker_thread_count |-> 1,
      memory_quota |-> 256, xattr_doc_timer_entry_prune_threshold |-> 100,
      app_log_dir |-> "eventingDir", app_log_max_size |-> 1024 * 1024 * 10,
      app_log_max_files |-> 10, curl_timeout |-> 500, worker_queue_cap |-> 1000 * 1000 ]

\* The value parseDepcfg stores for setting k.
ParseSetting(settings, k) ==
    IF settings[k] = Absent /\ k \notin RequiredSettings THEN SettingDefault[k]
                                                      ELSE settings[k]

\* The first setting, in reading order, whose type assertion panics or
\* whose absence returns an error (0: none).
FirstFailingSetting(settings) ==
    SelectInSeq(SettingKeys, LAMBDA k : \/ settings[k] = WrongType
                                        \/ k \in RequiredSettings /\ settings[k] = Absent)

\* Mutant: the p.workerCount <= 0 check is missing.
parseDepcfg_noWorkerCountCheck(settings, fetchErr) ==
    LET bad == FirstFailingSetting(settings)
        cfg == [k \in ToSet(SettingKeys) |-> ParseSetting(settings, k)]
        outcome ==
          CASE fetchErr \in {"settings", "unmarshal"}     -> "error"
            [] bad # 0 /\ settings[SettingKeys[bad]] = WrongType -> "panic"
            [] bad # 0                                  -> "error"
            [] settings["log_level"] = Absent             -> "panic"
            [] fetchErr \in {"localHost", "kvNodes"}      -> "error"
            [] OTHER                                    -> "ok"
    IN  [outcome |-> outcome, cfg |-> cfg]

\* parseDepcfg: "ok", "error" (returned) or "panic", and the settings it
\* stored.  fetchErr is the failing metakv or cluster call, if any:
\* "settings" (MetakvGet), "unmarshal" (json.Unmarshal of the document),
\* "localHost" (LocalEventingServiceHost), "kvNodes" (KVNodesAddresses).
parseDepcfg(settings, fetchErr) ==
    LET bad == FirstFailingSetting(settings)
        cfg == [k \in ToSet(SettingKeys) |-> ParseSetting(settings, k)]
        outcome ==
          CASE fetchErr \in {"settings", "unmarshal"}     -> "error"
            [] bad # 0 /\ settings[SettingKeys[bad]] = WrongType -> "panic"
            [] bad # 0                                  -> "error"
            [] settings["log_level"] = Absent             -> "panic"
            [] cfg["worker_count"] <= 0                  -> "error"
            [] fetchErr \in {"localHost", "kvNodes"}      -> "error"
            [] OTHER                                    -> "ok"
    IN  [outcome |-> outcome, cfg |-> cfg]

=============================================================================
