----------------------------- MODULE MCFakeService -----------------------------
(* A small instance of FakeService for TLC.                                  *)
EXTENDS FakeService
================================================================================
