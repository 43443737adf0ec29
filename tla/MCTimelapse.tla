------------------------------ MODULE MCTimelapse ------------------------------
(* A small instance of Timelapse for TLC.                                    *)
EXTENDS Timelapse
================================================================================
