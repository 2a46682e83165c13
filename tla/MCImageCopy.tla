---------------------------- MODULE MCImageCopy ----------------------------
\* Small instances of ImageCopy.
EXTENDS ImageCopy
=============================================================================
