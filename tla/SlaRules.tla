------------------------------- MODULE SlaRules -------------------------------
(***************************************************************************)
(* The arithmetic of the SLA deadline and of its traffic light, as the two *)
(* places that compute it do: in TypeScript (SLAService, per ticket) and   *)
(* in SQL (TicketRepository.recalculateSlaBatch, per batch).  Time is a    *)
(* natural number of minutes, the unit an SLA configuration is given in.   *)
(***************************************************************************)
EXTENDS Integers

SlaStatuses == {"OnTrack", "AtRisk", "Breached"}

\* sla.atRiskRatio of the application's configuration, in percent.
AtRiskPercent == 20

\* SLAService.calculateSlaStatus: what is left of the window, as a ratio.
StatusAt(due, resolution, t) ==
  LET remaining == due - t
  IN  IF remaining <= 0 THEN "Breached"
      ELSE IF 100 * remaining <= AtRiskPercent * resolution THEN "AtRisk"
      ELSE "OnTrack"

\* Math.round(resolutionTimeMinutes * atRiskRatio).
AtRiskMinutes(resolution) == (AtRiskPercent * resolution + 50) \div 100

\* The CASE expression of recalculateSlaBatch: a threshold in whole minutes.
BatchStatusAt(due, resolution, t) ==
  IF due <= t THEN "Breached"
  ELSE IF due <= t + AtRiskMinutes(resolution) THEN "AtRisk"
  ELSE "OnTrack"
===============================================================================
