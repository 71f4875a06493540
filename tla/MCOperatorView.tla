--------------------------- MODULE MCOperatorView ---------------------------
(* Two sources, three components, one of them seen through a service. *)
EXTENDS OperatorView

Signal(signal, component, service, values) ==
  [signal |-> signal, component |-> component, service |-> service,
   running |-> signal = "service.running", values |-> values]

MCLayout == [
  observer |-> <<Signal("backup.status", "Backups", "", {"HEALTHY", "WARNING"}),
                 Signal("backup.success_age_seconds", "Backups", "", {"HEALTHY"}),
                 Signal("service.running", "Services", "caddy", {"HEALTHY", "CRITICAL"}),
                 Signal("service.health", "Services", "caddy", {"none"})>>,
  collector |-> <<Signal("https.reachable", "Web", "", {"HEALTHY", "CRITICAL"})>>]

==============================================================================
