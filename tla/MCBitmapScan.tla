---------------------------- MODULE MCBitmapScan ----------------------------
(* BitmapScan with 4-bit words, three words a page and one header unit:    *)
(* runs cross word boundaries, start inside words and end at the page end. *)
EXTENDS BitmapScan
====
