--------------------------- MODULE MCStorageTest ---------------------------
(* StorageTest on three scripts in a row.                                  *)
EXTENDS StorageTest
MCScripts == <<"mmc", "usb", "mmc">>
MCOne == <<"mmc">>
MCDevice == [s \in {"mmc", "usb"} |-> IF s = "mmc" THEN "mmcblk0p4" ELSE "sda1"]
=============================================================================
