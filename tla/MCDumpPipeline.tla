--------------------------- MODULE MCDumpPipeline ---------------------------
\* Small instances of DumpPipeline: raw dumps of four blocks or none, and extracted
\* ones of a few files, some of them empty, on a storage device and on a USB host.
EXTENDS DumpPipeline

RawShapes == {Xci, RawHfs, Nca, RawPartitionFs, RawRomFs, FsBrowserFile}
ExtractedShapes == {ExtractedHfs, ExtractedPartitionFs, ExtractedRomFs,
                    FsBrowserHighlightedEntries, SystemUpdate}

Dump(usb, shape, count, fileOf) ==
    [usb |-> usb, shape |-> shape, count |-> count, fileOf |-> fileOf]

MCJobs ==
    {Dump(usb, s, 1, <<1, 1, 1, 1>>) : usb \in BOOLEAN, s \in RawShapes}
    \cup {Dump(usb, FsBrowserFile, 1, <<>>) : usb \in BOOLEAN}
    \cup {Dump(usb, s, 3, f) : usb \in BOOLEAN, s \in ExtractedShapes,
                               f \in {<<1, 1, 3>>, <<1, 2>>, <<2, 2, 2, 2>>}}
MCRawJobs == {Dump(TRUE, Xci, 1, <<1, 1, 1, 1>>)}
=============================================================================
