--------------------------- MODULE MCSpectrometer ---------------------------
(***************************************************************************)
(* Values of the constants of Spectrometer for TLC.                        *)
(***************************************************************************)
EXTENDS Spectrometer

Shape(width, height, ok, id) == [w |-> width, h |-> height, usable |-> ok, pulse |-> id]

(* A wide and a tall frame, a colour frame (three dimensions) that the      *)
(* compute functions refuse, a frame without pulse id, an empty frame.      *)
VaryingShapes == {Shape(2, 1, TRUE, TRUE), Shape(1, 2, TRUE, FALSE),
                  Shape(3, 2, FALSE, TRUE), Shape(0, 0, TRUE, TRUE)}

(* The camera's region of interest never changes.                           *)
OneShape == {Shape(2, 2, TRUE, TRUE)}

TwoShapes == {Shape(2, 1, TRUE, TRUE), Shape(1, 1, TRUE, TRUE)}
=============================================================================
