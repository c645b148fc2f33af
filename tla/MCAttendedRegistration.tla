----------------------- MODULE MCAttendedRegistration -----------------------
(* AttendedRegistration with the constants of its .cfg files.              *)
EXTENDS AttendedRegistration
=============================================================================
