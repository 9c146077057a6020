--------------------------- MODULE MCDeviceStore ---------------------------
EXTENDS DeviceStore

MCStore == {"desc", "pars"}
MCItem == Device \X ({0} \cup Channel)
MCChannel == {1}
Symmetry == Permutations(Task)
=============================================================================
