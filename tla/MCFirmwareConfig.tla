--------------------------- MODULE MCFirmwareConfig ---------------------------
(* Small instances of FirmwareConfig for TLC.                                *)
EXTENDS FirmwareConfigProofs

CONSTANTS r1, r2

\* The part of the delivered extended2.cfg that the offered settings edit.
Delivered ==
  <<Header("web"), Prose, Key("frontend", "fluidd"), Key("remote_screen", "false"), Blank,
    Header("monitoring"), Prose, Off(Key("klipper_exporter", ":9101")), Blank,
    Prose, Header("spoolman")>>

\* One where Spoolman had been enabled and disabled, and one shortened by hand.
Disabled ==
  <<Off(Header("spoolman")), Off(Key("host", "url")),
    Off(Key("force_generic_vendor", "true")), Blank, Prose, Header("web")>>
Shortened == <<Header("spoolman"), Key("tag_store", "native"), Blank, Header("camera")>>

MCDelivered == {Delivered}
MCDefaults == {Delivered, Disabled, Shortened}

Metrics == {<<"metrics", "true">>, <<"metrics", "false">>}
Options == {<<"frontend", "fluidd">>, <<"frontend", "mainsail">>, <<"spoolman", "disabled">>,
           <<"spoolman", "enabled">>, <<"spoolman", "force_generic">>} \cup Metrics

\* The hypothesis of the theorems about settings.
ASSUME HypothesisHolds == Start

\* FileReads without its exception for the metrics setting.
ReadsWithMetrics == dirty \/ torn \/ Readable(file)
================================================================================
