--------------------------- MODULE RestOperations ---------------------------
(***************************************************************************)
(* The REST operations (operations/*.py) over a transport that loses       *)
(* answers: every operation is one verb on one resource of the daemon and  *)
(* says whether HttpTransport.request may repeat it; the verb decides when *)
(* it says nothing.  Each table below lists one section of an operations   *)
(* module; what an operation does to the daemon's resource is external and *)
(* comes from its wire description.                                        *)
(***************************************************************************)
EXTENDS Naturals, FiniteSets

CONSTANT MaxAttempts   \* attempts per call: the first and one per backoff step

ASSUME AttemptsAssumption == MaxAttempts \in Nat \ {0}

VARIABLES running,     \* the operation under way
          there,    \* whether the resource it names exists on the daemon
          found,    \* whether it did when the call began
          applied,  \* how often the daemon carried the call out
          attempts, \* requests sent for the call
          outcome   \* "none" while it runs, then what it returned or raised; "idle" before

roVars == <<running, there, found, applied, attempts, outcome>>

Operation(verb, retry, effect, names) ==
    {[name |-> n, verb |-> verb, retry |-> retry, effect |-> effect] : n \in names}

\* The effects: a read; a replacement (repeating it changes nothing); the
\* creation or the removal of the resource; a command, which acts each time it
\* arrives; the release of something withheld, which is there only once.
Reads(names) == Operation("GET", "default", "read", names)
\* request_bytes and request_upload make one attempt.
Downloads(names) == Operation("GET", "no", "read", names)
Replaces(names) == Operation("PUT", "yes", "replace", names)
Patches(names) == Operation("PATCH", "yes", "replace", names)
Confirms(names) == Operation("POST", "yes", "replace", names)
Removes(names) == Operation("DELETE", "default", "remove", names)
RemovesAgain(names) == Operation("DELETE", "yes", "remove", names)
Creates(names) == Operation("POST", "no", "create", names)
Commands(names) == Operation("POST", "no", "command", names)
DefaultCommands(names) == Operation("POST", "default", "command", names)

AlarmZones ==
    Reads({"get_zone_statuses", "list_panels", "get_zone_readiness", "list_zones",
           "get_zone", "list_zone_sensors", "list_zone_outputs"})
    \union Creates({"create_zone"}) \union Removes({"delete_zone"})
    \union Replaces({"update_zone", "replace_zone_sensors", "replace_zone_outputs"})

AlarmCandidates ==
    Reads({"list_output_candidates", "list_remote_key_candidates",
           "list_sensor_candidates", "list_incidents", "get_incident"})

AlarmRuntime ==
    Reads({"list_triggered_motion"})
    \union Commands({"arm_zone", "disarm_zone", "silence_zone", "acknowledge_zone",
                     "silence_all", "reset_zone_motion", "reset_all_motion"})

AlarmTests ==
    Reads({"list_journal", "get_walk_test_status", "list_codes", "get_code"})
    \union Commands({"start_walk_test", "test_output"}) \union Confirms({"stop_walk_test"})
    \union Creates({"create_code"}) \union Replaces({"update_code"})
    \union Removes({"delete_code"})

\* Deleting an archive that is not there succeeds; see RemovalAnswer.
Backups ==
    Reads({"list_backups", "get_storage_info"}) \union Downloads({"download_backup"})
    \union Creates({"trigger_backup", "upload_backup"})
    \union RemovesAgain({"delete_backup"}) \union Commands({"restore_backup"})

DataPointOps ==
    Replaces({"set_value", "put_paramset"}) \union Reads({"get_paramset"})
    \union Operation("POST", "yes", "read", {"batch_read"})

CustomDataPointOps == Reads({"list_for_device", "get"}) \union Commands({"invoke"})

DeviceReads ==
    Reads({"list_devices", "get_device_detail", "list_channels", "list_data_points",
           "get_data_point", "list_calculated_data_points", "get_calculated_data_point"})

DeviceCommands ==
    Reads({"get_ui_schema", "export_channel_config"})
    \union Downloads({"export_device_definition", "get_device_icon"})
    \union DefaultCommands({"refresh_all", "reload_device_config", "reload_channel_config"})
    \union Operation("PATCH", "no", "replace", {"patch_device"})
    \union Removes({"delete_device"})
    \union Commands({"update_firmware", "refresh_firmware_data", "accept_device",
                     "import_channel_config"})
    \union Operation("POST", "no", "release", {"release_device"})

Diagnostics ==
    Reads({"get_diagnostics", "get_wiring", "get_log_level", "get_log_levels", "get_logs",
           "list_captures", "get_capture"}) \union Downloads({"download_capture"})
    \union Replaces({"set_log_level", "set_log_level_override"})
    \union Removes({"remove_log_level_override"})
    \union Commands({"start_capture", "stop_capture"})

Recordings ==
    Reads({"list_rpc_recordings", "list_daemon_incidents", "get_values_cache_stats",
           "list_audit"})
    \union Downloads({"download_rpc_recording", "get_metrics"})
    \union Commands({"start_rpc_recording", "stop_rpc_recording", "clear_cache",
                     "reset_values_cache", "reset_device_values_cache", "reload_mqtt"})
    \union RemovesAgain({"clear_incidents"})

Programs ==
    Reads({"list_programs", "get_program"}) \union Commands({"execute_program"})
    \union Patches({"set_program_enabled"})

Sysvars ==
    Reads({"list_sysvars", "get_sysvar"}) \union Creates({"create_sysvar"})
    \union Patches({"update_sysvar_metadata"}) \union Replaces({"set_sysvar"})
    \union Removes({"delete_sysvar"}) \union Commands({"fetch_system_variables"})

HubLists ==
    Reads({"list_alarm_messages", "list_service_messages", "list_rooms", "list_functions",
           "list_areas", "list_inbox", "list_inbox_devices", "list_install_mode_interfaces"})
    \union Confirms({"ack_alarm_message", "ack_service_message"})
    \union Creates({"create_area"}) \union Replaces({"update_area", "replace_area_rooms"})
    \union Removes({"delete_area"}) \union Commands({"set_install_mode_interface"})

\* Removing an absent link is a no-op.
LinkOps ==
    Reads({"list_links", "get_link_paramset", "linkable_channels", "get_central_links_status"})
    \union Creates({"add_link"}) \union Replaces({"put_link_paramset"})
    \union RemovesAgain({"remove_link", "disable_central_links"})
    \union Commands({"enable_central_links"})

ScheduleOps ==
    Reads({"get_channel_week_profile", "get_channel_schedule", "get_device_schedule"})
    \union Replaces({"put_channel_schedule", "set_channel_lock", "put_device_schedule"})
    \union Commands({"set_channel_active_profile", "set_device_active_profile",
                     "copy_schedule", "copy_climate_profile"})

Security ==
    Reads({"get_security_snapshot", "get_class", "list_sources", "list_faults"})
    \union Replaces({"set_source_override"}) \union Commands({"acknowledge_fault"})

EditSessions ==
    Creates({"acquire"}) \union Removes({"release"}) \union Commands({"heartbeat", "take_over"})

SystemReads ==
    Reads({"get_info", "get_health", "get_system_diagnostics", "get_snapshot",
           "list_interfaces", "get_system_update"})
    \union Commands({"reconnect_interface", "install_system_update"})

SystemHub ==
    Reads({"get_addon_update_status", "get_hub_metrics", "get_hub_data_points",
           "list_system_ccus"})
    \union Commands({"check_addon_update", "install_addon_update"})

SystemCommands ==
    Commands({"reboot_ccu", "poweroff_ccu", "restart_ccu_safe_mode",
              "restart_ccu_recovery_mode", "restart"})
    \union Replaces({"set_ccu_position", "set_startup_capture"})
    \union Reads({"get_system_status", "get_startup_capture"})

Visibility == Reads({"get_unignore", "get_unignore_candidates"}) \union Replaces({"put_unignore"})

\* Removing a silence that is not there is a no-op.
Warnings ==
    Reads({"list_warnings"}) \union Replaces({"silence_warning"})
    \union RemovesAgain({"unsilence_warning"})

Operations ==
    AlarmZones \union AlarmCandidates \union AlarmRuntime \union AlarmTests \union Backups
    \union DataPointOps \union CustomDataPointOps \union DeviceReads \union DeviceCommands
    \union Diagnostics \union Recordings \union Programs \union Sysvars \union HubLists
    \union LinkOps \union ScheduleOps \union Security \union EditSessions \union SystemReads
    \union SystemHub \union SystemCommands \union Visibility \union Warnings

(***************************************************************************)
(* The transport's decision and the daemon                                 *)
(***************************************************************************)
\* retry = allow_retry if allow_retry is not None else method in _RETRY_SAFE_METHODS
Retried_UnlessForbidden(op) == op.retry # "no"

Retried(op) ==
    \/ op.retry = "yes"
    \/ op.retry = "default" /\ op.verb \in {"GET", "PUT", "DELETE"}

\* External: what the daemon answers a removal of something absent.
RemovalAnswer(op) == IF op.retry = "yes" THEN "ok" ELSE "not_found"

\* External: the daemon carries the request out: whether it counts, what
\* becomes of the resource, what it answers.
Carried(op) ==
    CASE op.effect = "read" -> [counts |-> FALSE, there |-> there, answer |-> "ok"]
      [] op.effect \in {"replace", "command"} ->
             [counts |-> TRUE, there |-> there, answer |-> "ok"]
      [] op.effect = "create" ->
             [counts |-> ~there, there |-> TRUE, answer |-> IF there THEN "conflict" ELSE "ok"]
      [] op.effect \in {"remove", "release"} ->
             [counts |-> there, there |-> FALSE,
              answer |-> IF there THEN "ok"
                         ELSE IF op.effect = "remove" THEN RemovalAnswer(op) ELSE "not_found"]

Call ==
    /\ outcome # "none"
    /\ \E op \in Operations :
           /\ running' = op
           /\ found' = there
    /\ attempts' = 0
    /\ applied' = 0
    /\ outcome' = "none"
    /\ UNCHANGED there

CanAttempt == outcome = "none" /\ (attempts = 0 \/ (Retried(running) /\ attempts < MaxAttempts))

\* The request arrives and its answer does too.
Answered ==
    /\ CanAttempt
    /\ LET c == Carried(running)
       IN  /\ there' = c.there
           /\ applied' = applied + (IF c.counts THEN 1 ELSE 0)
           /\ outcome' = c.answer
    /\ attempts' = attempts + 1
    /\ UNCHANGED <<running, found>>

\* The request arrives, its answer is lost or says the daemon was not ready
\* to answer: a retryable failure.
AnswerLost ==
    /\ CanAttempt
    /\ LET c == Carried(running)
       IN  /\ there' = c.there
           /\ applied' = applied + (IF c.counts THEN 1 ELSE 0)
    /\ attempts' = attempts + 1
    /\ UNCHANGED <<running, found, outcome>>

\* The request never arrives.
RequestLost ==
    /\ CanAttempt
    /\ attempts' = attempts + 1
    /\ UNCHANGED <<running, there, found, applied, outcome>>

\* No attempt left: the last failure is raised.
Raises ==
    /\ outcome = "none"
    /\ ~CanAttempt
    /\ outcome' = "raised"
    /\ UNCHANGED <<running, there, found, applied, attempts>>

\* External: somebody else creates or removes the resource between two calls.
ResourceChanges ==
    /\ outcome # "none"
    /\ there' = ~there
    /\ outcome' = "idle"
    /\ UNCHANGED <<running, found, applied, attempts>>

OperationsInit ==
    /\ running = CHOOSE op \in Operations : op.name = "get_info"
    /\ there = FALSE
    /\ found = FALSE
    /\ applied = 0
    /\ attempts = 0
    /\ outcome = "idle"

OperationsNext == Call \/ Answered \/ AnswerLost \/ RequestLost \/ Raises \/ ResourceChanges

OperationsSpec == OperationsInit /\ [][OperationsNext]_roVars

-----------------------------------------------------------------------------
\* What an operation says of the daemon is true although answers are lost and
\* requests repeated: a creation, a command and a release are carried out at
\* most once per call, success means the call was carried out, and a creation
\* or a release refused for what is there or missing was refused for what was
\* there or missing before the call, never for its own first attempt
\* (allow_retry of every operation, HttpTransport.request).
AnswersAreTrue ==
    /\ running.effect \in {"create", "command", "release"} => applied <= 1
    /\ outcome = "ok" /\ running.effect \notin {"read", "remove"} => applied >= 1
    /\ outcome = "conflict" => found
    /\ outcome = "not_found" /\ running.effect = "release" => ~found
=============================================================================
