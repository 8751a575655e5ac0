SPECIFICATION FatSpec
CONSTANTS
    Sectors = 12
    FAT32_SECTOR_SIZE = 2
    ATA_RETRY_COUNT = 3
    Word = 16
    EndOfChain = 14
    Skipped = {1}
    Labels = {2}
    Names = {2, 3, 5, 9}
    Offsets = {0, 1, 2, 3, 4, 6}
    Lengths = {1, 2, 3, 5}
    Scratch = {10, 11}
    Patterns = {9}
    Volumes <- MCVolumes
INVARIANTS ReadIsRight DirectoryAgrees TransferIsWhole
PROPERTIES CallsEnd
