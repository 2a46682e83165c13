CONSTANTS
  AES_BLOCK_SIZE = 2
  NCA_AES_XTS_SECTOR_SIZE = 4
  NCA_CRYPTO_BUFFER_SIZE = 4
  NcaHeaderSize = 2
  NcaFsHeaderSize = 2
  MaxHashRegions = 3
  SHA256_HASH_SIZE = 2
  Zero = Zero
  Garbage = Garbage
  Plain = Plain
  PFS_HEADER_PADDING_ALIGNMENT = 4
  NcaKeyGeneration_Current = 3
  NcaKeyGeneration_Max = 4
  Since301NUP = 3
  SupportedLanguages <- MCLanguages
  MaxIconSize = 2
  Consoles <- MCConsoles
  Titles <- MCTitles
  OptionSets <- MCOptions
  BLOCK_SIZE = 6
  HeaderBufferSize = 64
  FAT32_FILESIZE_LIMIT = 60
SPECIFICATION Spec
CHECK_DEADLOCK FALSE
INVARIANT NspVerifies
INVARIANT OptionsAreTaken
INVARIANT DocumentsAgree
INVARIANT KeysTravel
INVARIANT OutcomeIsTrue
INVARIANT KeysAreTrue
PROPERTY DumpReturns
