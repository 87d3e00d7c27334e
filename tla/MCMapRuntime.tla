----------------------------- MODULE MCMapRuntime -----------------------------
(* A small instance of the way of a change into the map.                    *)
EXTENDS MapRuntime
===============================================================================
