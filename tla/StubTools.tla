----------------------------- MODULE StubTools -----------------------------
(***************************************************************************)
(* The tools that only answer: every handler of these nine domains, and    *)
(* seven of the deployment domain, is "return ok(data=...)".  None reads   *)
(* or writes the project and none reports a world_diff, whatever its name  *)
(* says and whatever entities it declares.  (restore_project answers with  *)
(* and without its confirm flag.)                                          *)
(***************************************************************************)
(* tools/manage_trends.py *)
TrendGroups ==
  {"create_trend_group", "add_trend_pen", "configure_trend_axis",
   "set_trend_sampling", "enable_trend_scroll", "delete_trend_group"}
TrendPens ==
  {"list_trend_groups", "remove_trend_pen", "set_trend_time_range",
   "set_trend_pen_color", "set_trend_pen_scale", "export_trend_data"}
TrendViews ==
  {"add_trend_marker", "set_trend_refresh_rate", "freeze_trend",
   "compare_trend_periods", "set_trend_legend", "clone_trend_group"}
(* tools/manage_recipes.py *)
RecipeSteps ==
  {"create_recipe", "add_recipe_step", "set_recipe_parameter",
   "validate_recipe", "activate_recipe", "clone_recipe"}
RecipeStatus ==
  {"list_recipes", "delete_recipe", "deactivate_recipe",
   "remove_recipe_step", "reorder_recipe_steps", "set_recipe_version"}
RecipeFiles ==
  {"compare_recipes", "export_recipe", "import_recipe",
   "download_recipe_to_batch", "get_recipe_status", "set_recipe_scaling"}
(* tools/manage_communication.py *)
Drivers ==
  {"configure_driver", "start_polling", "stop_polling", "test_connection",
   "get_comm_stats", "reset_driver"}
DriverSettings ==
  {"list_drivers", "set_driver_polling_rate", "set_driver_timeout",
   "get_driver_diagnostics", "enable_driver_redundancy"}
DriverAddresses ==
  {"map_driver_address", "unmap_driver_address", "restart_driver",
   "set_byte_order", "scan_driver_devices", "set_protocol_options",
   "export_driver_config"}
(* tools/manage_users.py *)
UserAccounts ==
  {"create_user", "assign_user_role", "set_user_permissions", "lock_user",
   "reset_user_password"}
UserRoles ==
  {"configure_session", "list_users", "unlock_user", "delete_user",
   "update_user_profile", "create_role"}
UserSessions ==
  {"delete_role", "list_user_permissions", "force_user_logout",
   "enable_two_factor_auth", "get_user_activity",
   "import_users_from_directory"}
(* tools/manage_reports.py *)
ReportTemplates ==
  {"create_report_template", "add_report_section",
   "configure_report_schedule", "generate_report", "set_report_format",
   "export_report"}
ReportArchive ==
  {"list_report_templates", "delete_report_template",
   "clone_report_template", "preview_report", "email_report"}
ReportParts ==
  {"archive_report", "set_report_header_footer", "add_report_chart",
   "add_report_table", "set_report_data_source", "schedule_report_delivery"}
(* tools/manage_security.py *)
AuditAndBackup ==
  {"configure_audit_log", "export_audit_trail", "set_password_policy",
   "check_compliance", "backup_project"}
Protection ==
  {"restore_project", "rotate_encryption_keys", "configure_firewall_rule",
   "set_ip_whitelist", "enable_tls"}
Certificates ==
  {"scan_vulnerabilities", "review_access_log", "configure_certificate",
   "revoke_certificate", "set_login_banner", "enforce_rbac_policy",
   "configure_backup_schedule"}
(* tools/manage_schedules.py *)
ScheduleJobs ==
  {"create_schedule", "set_schedule_trigger", "add_schedule_action",
   "enable_schedule", "get_schedule_status"}
ScheduleControl ==
  {"list_schedules", "disable_schedule", "delete_schedule",
   "run_schedule_now", "pause_schedule"}
ScheduleOptions ==
  {"resume_schedule", "set_schedule_timezone", "get_schedule_history",
   "clone_schedule", "set_schedule_retry_policy", "set_schedule_dependency"}
(* tools/manage_databases.py *)
DatabaseTables ==
  {"create_database_table", "configure_database_connection",
   "execute_sql_query", "set_retention_policy"}
DatabaseConnections ==
  {"list_databases", "test_db_connection", "close_db_connection",
   "list_db_tables", "drop_db_table"}
DatabaseUpkeep ==
  {"create_db_index", "set_db_retention_days", "export_db_table",
   "import_db_data", "run_db_maintenance", "get_db_stats"}
(* tools/manage_notifications.py *)
NotificationRules ==
  {"create_notification_rule", "configure_notification_channel",
   "add_escalation_level", "test_notification"}
NotificationSwitches ==
  {"list_notification_rules", "delete_notification_rule",
   "enable_notification_rule", "disable_notification_rule",
   "set_notification_throttle"}
NotificationDelivery ==
  {"set_quiet_hours", "add_notification_recipient",
   "remove_notification_recipient", "set_notification_template",
   "acknowledge_notification", "get_notification_history"}

(* tools/deployment.py *)
DeploymentReviews == {"dry_run_deploy", "diff_deployment"}
DeploymentAnswers ==
  {"create_deployment_snapshot", "list_deployment_history", "abort_deployment",
   "lock_project", "compare_versions"}

(* tool_registry.py fills the catalogue up to its size with a tool for each *)
(* verb and noun; these stand for them, one for each way the policy reads   *)
(* a verb.                                                                  *)
Fillers == {"get_limit", "set_limit", "delete_limit", "disable_limit"}

AnswerDomains ==
  {"fillers", "trends", "recipes", "communication", "users", "reports",
   "security", "schedules", "databases", "notifications", "deployment"}

AnswersOf(domain) ==
  CASE domain = "trends" -> TrendGroups \cup TrendPens \cup TrendViews
    [] domain = "recipes" -> RecipeSteps \cup RecipeStatus \cup RecipeFiles
    [] domain = "communication" -> Drivers \cup DriverSettings \cup DriverAddresses
    [] domain = "users" -> UserAccounts \cup UserRoles \cup UserSessions
    [] domain = "reports" -> ReportTemplates \cup ReportArchive \cup ReportParts
    [] domain = "security" -> AuditAndBackup \cup Protection \cup Certificates
    [] domain = "schedules" -> ScheduleJobs \cup ScheduleControl \cup ScheduleOptions
    [] domain = "databases" -> DatabaseTables \cup DatabaseConnections \cup DatabaseUpkeep
    [] domain = "notifications" ->
         NotificationRules \cup NotificationSwitches \cup NotificationDelivery
    [] domain = "fillers" -> Fillers
    [] domain = "deployment" -> DeploymentReviews \cup DeploymentAnswers
=============================================================================
