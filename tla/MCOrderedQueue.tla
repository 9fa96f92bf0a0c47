--------------------------- MODULE MCOrderedQueue ---------------------------
(* The ordered queue with the modes virtblk_probe chooses from, the one sd  *)
(* chooses for a disk without a write cache, and one by tag in which two    *)
(* parts of a barrier are with the device at once.                          *)
EXTENDS OrderedQueue

MCModes == {Mode("none", FALSE, FALSE, FALSE),   \* the default
            Mode("drain", TRUE, TRUE, TRUE),     \* QUEUE_ORDERED_DRAIN_FLUSH
            Mode("drain", FALSE, TRUE, FALSE),   \* QUEUE_ORDERED_DRAIN
            Mode("tag", FALSE, TRUE, FALSE),     \* QUEUE_ORDERED_TAG
            Mode("tag", TRUE, TRUE, FALSE)}      \* QUEUE_ORDERED_TAG_FUA

=============================================================================
