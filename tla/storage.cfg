CONSTANTS
  AES_BLOCK_SIZE = 2
  NCA_AES_XTS_SECTOR_SIZE = 4
  NCA_CRYPTO_BUFFER_SIZE = 4
  NcaHeaderSize = 4
  NcaFsHeaderSize = 4
  MaxHashRegions = 2
  EntriesPerSet = 2
  OffsetsPerNode = 3
  Zero = Zero
  Garbage = Garbage
  Plain = Plain
  Sections <- MCSections
  Image <- MCImage
  BadBytes <- MCBadBytes
  Layout <- MCLayout
  Card <- MCCard
  DeviceCount = 4
  Partitions <- MCPartitions
  Drive <- MCDrive
  PageSize = 2
  BlockSize = 2
  SegmentSize = 128
  Saves <- MCSaveFiles
SPECIFICATION Spec
CHECK_DEADLOCK FALSE
INVARIANT ReadIsExact
INVARIANT UpdatedIsTrue
PROPERTY OpensAgain
INVARIANT FilesAreExact
INVARIANT ListingIsWhole
INVARIANT DevicesComeBack
