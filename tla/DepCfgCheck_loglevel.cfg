\* Documents that set or omit log_level, worker_count, the rbac pair,
\* cleanup_timers and worker_queue_cap: one without log_level panics.
CONSTANTS
    Absent = Absent
    WrongType = WrongType
    VaryKeys = {"log_level", "worker_count", "rbacuser", "rbacpass", "cleanup_timers", "worker_queue_cap"}
INIT Init
NEXT Next
INVARIANT WellTypedSettingsLoad
