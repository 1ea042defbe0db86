------------------------------ MODULE MCLeadPage ------------------------------
(***************************************************************************)
(* The embed job of a new lead, a score job of its page and one submitted  *)
(* from elsewhere.                                                         *)
(***************************************************************************)
EXTENDS LeadPage
===============================================================================
